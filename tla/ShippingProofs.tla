---------------------------- MODULE ShippingProofs ----------------------------
(***************************************************************************)
(* Theorems about Shipping, for any requests, lines of the order, journey  *)
(* of the parcel and number of bookings.                                   *)
(***************************************************************************)
EXTENDS OrderLifecycleProofs, Shipping

-----------------------------------------------------------------------------
(* What a service's statements are, before it has begun.                    *)

\* No save of every column, and a cancellation comes after a release.
Proper(s) ==
    /\ s \in Seq(Steps)
    /\ \A i \in DOMAIN s :
         /\ s[i].do # "all"
         /\ s[i].do = "move" /\ s[i].arg = "cancelled" => \E j \in 1 .. i - 1 : s[j].do = "release"

\* No save of every column.
Plain(s) == s \in Seq(Steps) /\ \A i \in DOMAIN s : s[i].do # "all"

LEMMA PlainJoined ==
    ASSUME NEW s, NEW t, Plain(s), Plain(t)
    PROVE  Plain(s \o t)
<1>1. s \in Seq(Steps) /\ t \in Seq(Steps)
  BY DEF Plain
<1>2. s \o t \in Seq(Steps)
  BY <1>1, Joined
<1>3. ASSUME NEW i \in DOMAIN (s \o t)
      PROVE  (s \o t)[i].do # "all"
  <2>1. \/ i \in DOMAIN s /\ (s \o t)[i] = s[i]
        \/ i - Len(s) \in DOMAIN t /\ (s \o t)[i] = t[i - Len(s)]
    BY <1>1, JoinedElements
  <2> QED
    BY <2>1 DEF Plain
<1> QED
  BY <1>2, <1>3 DEF Plain

LEMMA ProperJoined ==
    ASSUME NEW s, NEW t, Proper(s), Proper(t)
    PROVE  Proper(s \o t)
<1>1. s \in Seq(Steps) /\ t \in Seq(Steps)
  BY DEF Proper
<1>2. /\ s \o t \in Seq(Steps) /\ Len(s) \in Nat
      /\ DOMAIN s = 1 .. Len(s) /\ DOMAIN t = 1 .. Len(t)
      /\ \A i \in 1 .. Len(s) : (s \o t)[i] = s[i]
      /\ \A i \in 1 .. Len(t) : (s \o t)[Len(s) + i] = t[i]
  BY <1>1, Joined
<1>3. ASSUME NEW i \in DOMAIN (s \o t)
      PROVE  /\ (s \o t)[i].do # "all"
             /\ (s \o t)[i].do = "move" /\ (s \o t)[i].arg = "cancelled" =>
                  \E j \in 1 .. i - 1 : (s \o t)[j].do = "release"
  <2>1. CASE i \in DOMAIN s /\ (s \o t)[i] = s[i]
    <3>1. \A j \in 1 .. i - 1 : j \in 1 .. Len(s) /\ (s \o t)[j] = s[j]
      BY <1>2, <2>1
    <3> QED
      BY <2>1, <3>1 DEF Proper
  <2>2. CASE /\ i > Len(s) /\ i - Len(s) \in DOMAIN t /\ (s \o t)[i] = t[i - Len(s)]
             /\ i \in Nat
    <3>1. ASSUME NEW j \in 1 .. (i - Len(s)) - 1
          PROVE  Len(s) + j \in 1 .. i - 1 /\ (s \o t)[Len(s) + j] = t[j]
      <4>1. j \in 1 .. Len(t) /\ Len(s) + j \in 1 .. i - 1
        BY <1>2, <2>2
      <4> QED
        BY <1>2, <4>1
    <3>2. /\ t[i - Len(s)].do # "all"
          /\ t[i - Len(s)].do = "move" /\ t[i - Len(s)].arg = "cancelled" =>
               \E j \in 1 .. (i - Len(s)) - 1 : t[j].do = "release"
      BY <2>2 DEF Proper
    <3> QED
      BY <2>2, <3>1, <3>2
  <2> QED
    BY <1>1, <2>1, <2>2, JoinedElements
<1> QED
  BY <1>2, <1>3 DEF Proper

LEMMA NoDeliveryJoined ==
    ASSUME NEW s \in Seq(Steps), NEW t \in Seq(Steps), NoDelivery(s), NoDelivery(t)
    PROVE  NoDelivery(s \o t)
<1> SUFFICES ASSUME NEW i \in DOMAIN (s \o t), (s \o t)[i].do = "move"
             PROVE  (s \o t)[i].arg # "delivered"
  BY DEF NoDelivery
<1>1. \/ i \in DOMAIN s /\ (s \o t)[i] = s[i]
      \/ i - Len(s) \in DOMAIN t /\ (s \o t)[i] = t[i - Len(s)]
  BY JoinedElements
<1> QED
  BY <1>1 DEF NoDelivery

LEMMA QuietJoined ==
    ASSUME NEW s \in Seq(Steps), NEW t \in Seq(Steps), Quiet(s), Quiet(t)
    PROVE  Quiet(s \o t)
<1> SUFFICES ASSUME NEW i \in DOMAIN (s \o t) PROVE (s \o t)[i].do \in {"touch", "end"}
  BY DEF Quiet
<1>1. \/ i \in DOMAIN s /\ (s \o t)[i] = s[i]
      \/ i - Len(s) \in DOMAIN t /\ (s \o t)[i] = t[i - Len(s)]
  BY JoinedElements
<1> QED
  BY <1>1 DEF Quiet

\* Proper statements that deliver nothing.
Homeward(s) == Proper(s) /\ NoDelivery(s)

LEMMA HomewardJoined ==
    ASSUME NEW s, NEW t, Homeward(s), Homeward(t)
    PROVE  Homeward(s \o t)
<1>1. s \in Seq(Steps) /\ t \in Seq(Steps) /\ Proper(s) /\ Proper(t) /\ NoDelivery(s) /\ NoDelivery(t)
  BY DEF Homeward, Proper
<1> QED
  BY <1>1, ProperJoined, NoDeliveryJoined DEF Homeward

\* One statement.
LEMMA ProperSingle ==
    ASSUME NEW x \in Steps, x.do # "all", x.do = "move" => x.arg # "cancelled"
    PROVE  /\ Proper(<<x>>)
           /\ (x.do = "move" => x.arg # "delivered") => Homeward(<<x>>)
<1>1. <<x>> \in Seq(Steps) /\ Len(<<x>>) = 1 /\ <<x>>[1] = x /\ DOMAIN <<x>> = 1 .. 1
  BY Single
<1>2. Proper(<<x>>)
  BY <1>1 DEF Proper
<1>3. (x.do = "move" => x.arg # "delivered") => NoDelivery(<<x>>)
  BY <1>1 DEF NoDelivery
<1> QED
  BY <1>2, <1>3 DEF Homeward

LEMMA HomewardScripts ==
    /\ Homeward(<<>>) /\ Homeward(Do("end")) /\ Homeward(Do("touch"))
    /\ Homeward(Do("check")) /\ Homeward(Do("commit")) /\ Homeward(Do("drop"))
    /\ Homeward(Pay("paid")) /\ Homeward(CancelSteps)
    /\ \A s \in Statuses \ {"cancelled", "delivered"} : Homeward(MoveTo(s))
    /\ Proper(MoveTo("delivered"))
<1>1. /\ \A d \in {"end", "touch", "release", "drop", "check", "commit"} : [do |-> d, arg |-> Nothing] \in Steps
      /\ [do |-> "pay", arg |-> "paid"] \in Steps
      /\ \A s \in Statuses : [do |-> "move", arg |-> s] \in Steps
      /\ "delivered" \in Statuses /\ "cancelled" \in Statuses
  BY DEF Steps, Query, Statuses, PaymentStatuses
<1>2. Homeward(<<>>)
  BY DEF Homeward, Proper, NoDelivery
<1>3. /\ Homeward(Do("end")) /\ Homeward(Do("touch")) /\ Homeward(Do("check"))
      /\ Homeward(Do("commit")) /\ Homeward(Do("drop")) /\ Homeward(Pay("paid"))
  BY <1>1, ProperSingle DEF Do, Pay
<1>4. ASSUME NEW s \in Statuses \ {"cancelled", "delivered"} PROVE Homeward(MoveTo(s))
  <2>1. [do |-> "move", arg |-> s] \in Steps
    BY <1>1
  <2> QED
    BY <2>1, ProperSingle DEF MoveTo
<1>5. Proper(MoveTo("delivered"))
  BY <1>1, ProperSingle DEF MoveTo
<1>6. Homeward(CancelSteps)
  <2> DEFINE x == [do |-> "release", arg |-> Nothing]
             y == [do |-> "move", arg |-> "cancelled"]
             s == <<x>> \o <<y>>
  <2>1. x \in Steps /\ y \in Steps /\ x.do = "release" /\ y.do = "move" /\ y.arg = "cancelled"
    BY <1>1
  <2>2. CancelSteps = s
    BY DEF CancelSteps, Do, MoveTo
  <2> HIDE DEF x, y
  <2>3. s \in Seq(Steps) /\ Len(s) = 2 /\ s[1] = x /\ s[2] = y
    BY <2>1, Pair
  <2>4. DOMAIN s = 1 .. 2 /\ 1 \in 1 .. 2 - 1
    BY <2>3
  <2> HIDE DEF s
  <2>5. Proper(s)
    BY <2>1, <2>3, <2>4 DEF Proper
  <2>6. NoDelivery(s)
    BY <2>1, <2>3, <2>4 DEF NoDelivery
  <2> QED
    BY <2>2, <2>5, <2>6 DEF Homeward
<1> QED
  BY <1>2, <1>3, <1>4, <1>5, <1>6

\* The services that are begun about the order alone.
LEMMA HomewardServices ==
    /\ Homeward(MarkPaidSteps) /\ Homeward(MarkShippedSteps) /\ Homeward(Tracking)
    /\ Homeward(Tracking \o Do("end"))
<1>1. {"paid", "shipped", "completed"} \subseteq Statuses \ {"cancelled", "delivered"}
  BY DEF Statuses
<1>2. /\ Homeward(MoveTo("paid")) /\ Homeward(MoveTo("shipped")) /\ Homeward(MoveTo("completed"))
      /\ Homeward(Pay("paid")) /\ Homeward(Do("touch")) /\ Homeward(Do("check"))
      /\ Homeward(Do("commit")) /\ Homeward(Do("end")) /\ Homeward(<<>>)
  BY <1>1, HomewardScripts
<1>3. Homeward(Pay("paid") \o MoveTo("paid")) /\ Homeward(Do("touch") \o MoveTo("completed"))
  BY <1>2, HomewardJoined
<1>4. Homeward(IF carry_away THEN Do("touch") \o MoveTo("completed") ELSE <<>>)
  BY <1>2, <1>3
<1>5. Homeward(MarkPaidSteps)
  BY <1>3, <1>4, HomewardJoined DEF MarkPaidSteps
<1>6. Homeward(Do("touch") \o Do("check") \o Do("commit"))
  <2>1. Homeward(Do("touch") \o Do("check"))
    BY <1>2, HomewardJoined
  <2> QED
    BY <1>2, <2>1, HomewardJoined
<1>7. Homeward(MarkShippedSteps)
  BY <1>2, <1>6, HomewardJoined DEF MarkShippedSteps
<1> QED
  BY <1>2, <1>5, <1>7, HomewardJoined DEF Tracking

-----------------------------------------------------------------------------
(* What a shipment's status does to the order.                              *)

\* The statuses an order is led through: up to SHIPPED if that is where it goes.
LEMMA LeadsToStatuses ==
    ASSUME NEW s, NEW t
    PROVE  /\ LeadsTo(s, t) \in Seq({"processing", "shipped", "delivered"})
           /\ LeadsTo(s, t) = <<>> \/ Len(LeadsTo(s, t)) \in 1 .. 3
           /\ t # "delivered" =>
                \A i \in DOMAIN LeadsTo(s, t) : LeadsTo(s, t)[i] # "delivered"
<1> DEFINE way == <<"paid", "processing", "shipped", "delivered">>
           end == IF t = "shipped" THEN 3 ELSE 4
           here == {i \in 1 .. end - 1 : way[i] = s}
           first == CHOOSE i \in here : TRUE
           led == SubSeq(way, first + 1, end)
<1>1. LeadsTo(s, t) = IF t \notin {"shipped", "delivered"} \/ here = {} THEN <<>> ELSE led
  BY DEF LeadsTo
<1>2. ASSUME t \in {"shipped", "delivered"}, here # {}
      PROVE  /\ led \in Seq({"processing", "shipped", "delivered"})
             /\ Len(led) \in 1 .. 3
             /\ t # "delivered" => \A i \in DOMAIN led : led[i] # "delivered"
  <2>1. first \in here
    BY <1>2
  <2>2. first \in 1 .. end - 1
    BY <2>1
  <2> HIDE DEF first
  <2>3. end \in {3, 4} /\ (t # "delivered" => end = 3)
    BY <1>2
  <2> HIDE DEF end
  <2>4. /\ Len(led) = end - first /\ DOMAIN led = 1 .. end - first
        /\ \A i \in 1 .. end - first : led[i] = way[first + i]
    BY <2>2, <2>3
  <2>5. \A i \in 1 .. end - first : first + i \in 2 .. end /\ first + i \in 2 .. 4
    BY <2>2, <2>3
  <2>6. /\ \A n \in 2 .. 4 : way[n] \in {"processing", "shipped", "delivered"}
        /\ \A n \in 2 .. 3 : way[n] # "delivered"
    OBVIOUS
  <2>7. led = [i \in 1 .. end - first |-> led[i]] /\ end - first \in 1 .. 3
    BY <2>2, <2>3, <2>4
  <2> HIDE DEF led, way
  <2>8. led \in Seq({"processing", "shipped", "delivered"})
    BY <2>4, <2>5, <2>6, <2>7
  <2> QED
    BY <2>3, <2>4, <2>5, <2>6, <2>7, <2>8
<1> HIDE DEF led, here
<1> QED
  BY <1>1, <1>2

\* What moves the order for the courier's status is a list of statements that cancels
\* only after a release, and delivers only if that is the courier's status.
LEMMA ToOrderProper ==
    ASSUME NEW status \in ShipmentStatus, NEW copy, NEW end, Homeward(end)
    PROVE  /\ Proper(ToOrder(status, copy, end))
           /\ status # "delivered" => Homeward(ToOrder(status, copy, end))
<1> DEFINE target == OrderStatusFor(status)
           way == LeadsTo(copy.status, target)
           move == [i \in DOMAIN way |-> MoveTo(way[i]) \o end]
           moves == IF way = <<>> THEN <<>>
                    ELSE IF Len(way) = 1 THEN move[1]
                    ELSE IF Len(way) = 2 THEN move[1] \o move[2]
                    ELSE move[1] \o move[2] \o move[3]
           tracking == IF way = <<>> THEN <<>> ELSE Do("touch") \o end
           cancels == IF copy.status \in CANCELLABLE_STATUSES THEN CancelSteps \o end ELSE <<>>
<1> DEFINE good(s) == Proper(s) /\ (status # "delivered" => Homeward(s))
<1>1. \A s : Homeward(s) => good(s)
  BY DEF Homeward
<1>2. ASSUME NEW s, NEW t, good(s), good(t) PROVE good(s \o t)
  BY <1>2, ProperJoined, HomewardJoined
<1>3. /\ way \in Seq({"processing", "shipped", "delivered"})
      /\ way = <<>> \/ Len(way) \in 1 .. 3
      /\ target # "delivered" => \A i \in DOMAIN way : way[i] # "delivered"
  BY LeadsToStatuses
<1>4. status # "delivered" => target # "delivered"
  BY NothingAssumption DEF OrderStatusFor, Statuses
<1>5. /\ good(<<>>) /\ good(end) /\ good(Do("touch")) /\ good(CancelSteps)
      /\ good(MoveTo("processing")) /\ good(MoveTo("shipped"))
      /\ Proper(MoveTo("delivered"))
  <2>1. {"processing", "shipped"} \subseteq Statuses \ {"cancelled", "delivered"}
    BY DEF Statuses
  <2> QED
    BY <1>1, <2>1, HomewardScripts
<1> HIDE DEF target, way
<1>6. ASSUME NEW i \in DOMAIN way PROVE good(move[i])
  <2>1. good(MoveTo(way[i]))
    <3>1. way[i] \in {"processing", "shipped", "delivered"}
      BY <1>3
    <3> QED
      BY <1>3, <1>4, <1>5, <3>1
  <2>2. move[i] = MoveTo(way[i]) \o end
    OBVIOUS
  <2> HIDE DEF good, move
  <2> QED
    BY <1>2, <1>5, <2>1, <2>2
<1> HIDE DEF good, move
<1>7. good(moves)
  <2>1. way # <<>> => 1 \in DOMAIN way /\ (Len(way) # 1 => 2 \in DOMAIN way)
                      /\ (Len(way) \notin {1, 2} => 3 \in DOMAIN way)
    BY <1>3
  <2> QED
    BY <1>2, <1>5, <1>6, <2>1
<1>8. good(tracking) /\ good(cancels)
  BY <1>2, <1>5
<1>9. ToOrder(status, copy, end) =
        IF target = copy.status THEN <<>>
        ELSE IF target = "cancelled" THEN cancels ELSE moves \o tracking
  BY DEF ToOrder, target, way, move
<1> HIDE DEF moves, tracking, cancels
<1>10. good(ToOrder(status, copy, end))
  BY <1>2, <1>5, <1>7, <1>8, <1>9
<1> QED
  BY <1>10 DEF good

-----------------------------------------------------------------------------
(* Steps that commit nothing of the order.                                  *)

ShippingJobs == [task : Tasks, status : ShipmentStatus]

LEMMA ShippingTyped ==
    ASSUME ShippingInv
    PROVE  /\ ShippingTypeOK /\ TypeOK /\ \A w \in Requests : job[w] \in ShippingJobs
           /\ NoJob \in ShippingJobs /\ NoJob.task \notin Booking /\ NoJob.status # "delivered"
BY DEF ShippingInv, ShippingTypeOK, ShippingJobs, NoJob, Tasks, ShipmentStatus, Booking

\* What becomes of the shipment, the courier and its reports in any step.
CourierGoesOn ==
    /\ shipment' \in [status : ShipmentStatus, external : BOOLEAN]
    /\ courier' \in ShipmentStatus /\ bookings' \in 0 .. MaxBookings
    /\ events' \in SUBSET ShipmentStatus /\ events \subseteq events'
    /\ courier' = courier \/ courier' \in events' \/ courier' # "delivered"

LEMMA CourierRests ==
    ASSUME ShippingInv, UNCHANGED <<courier, bookings, events>>,
           shipment' \in [status : ShipmentStatus, external : BOOLEAN]
    PROVE  CourierGoesOn
BY DEF ShippingInv, ShippingTypeOK, CourierGoesOn

\* Request r with its task j does not take the parcel to be delivered.
DeliversNot(j, r) ==
    /\ j.status # "delivered"
    /\ j.task = "hand" \/ ("delivered" \notin r.trail /\ NoDelivery(r.script))

LEMMA NothingDeliveredBy ==
    NothingDelivered <=> "delivered" \notin past /\ \A w \in Requests : DeliversNot(job[w], req[w])
BY DEF NothingDelivered, DeliversNot

\* What is outside the order's requests may change; one request and its task go on.
LEMMA RequestStep ==
    ASSUME ShippingInv, NEW w \in Requests, NEW q, IsRequest(q), req' = [req EXCEPT ![w] = q],
           UNCHANGED orderVars, byHand' = byHand,
           NEW j \in ShippingJobs, job' = [job EXCEPT ![w] = j],
           CourierGoesOn,
           Row(q) => \A v \in Requests \ {w} : ~HasRow(v),
           UnderLock(j, q), OwnMoves(q),
           j.task = "hand" \/ FreesStock(q),
           NothingDelivered => "delivered" \in events' \/ DeliversNot(j, q)
    PROVE  ShippingInv'
<1>1. TypeOK' /\ req'[w] = q /\ \A v \in Requests \ {w} : req'[v] = req[v]
  BY TypeKept, ShippingTyped
<1>2. /\ job' \in [Requests -> ShippingJobs] /\ job'[w] = j
      /\ \A v \in Requests \ {w} : job'[v] = job[v]
  BY ShippingTyped DEF ShippingTypeOK, ShippingJobs
<1>3. order' = order /\ lines' = lines /\ past' = past
  BY DEF orderVars
<1>4. ShippingTypeOK'
  BY <1>1, <1>2, ShippingTyped DEF ShippingTypeOK, ShippingJobs, CourierGoesOn
<1>5. (\A u, v \in Requests : HasRow(u) /\ HasRow(v) => u = v)'
  BY <1>1 DEF ShippingInv, HasRow, Row
<1>6. (\A v \in Requests : UnderLock(job[v], req[v]) /\ OwnMoves(req[v]))'
  <2>1. ASSUME NEW v \in Requests
        PROVE  UnderLock(job'[v], req'[v]) /\ OwnMoves(req'[v])
    BY <1>1, <1>2 DEF ShippingInv
  <2> QED
    BY <2>1 DEF UnderLock, OwnMoves
<1>7. (\A v \in Requests : job[v].task = "hand" \/ FreesStock(req[v]))'
  <2> SUFFICES ASSUME NEW v \in Requests, job'[v].task # "hand"
               PROVE  FreesStock(req[v])'
    OBVIOUS
  <2>1. FreesStock(req'[v])
    BY <1>1, <1>2 DEF ShippingInv
  <2>2. \A r, k : Settled(r, k) <=> (lines'[k] # "active" \/ k \in DOMAIN r.settled)
    BY <1>3 DEF Settled
  <2> QED
    BY <2>1, <2>2 DEF FreesStock, Settled
<1>8. CancelledFreesStock' /\ (courier = "delivered" => "delivered" \in events)'
  BY <1>3 DEF ShippingInv, CancelledFreesStock, CourierGoesOn
<1>9. ("delivered" \in events \cup byHand \/ NothingDelivered)'
  <2> SUFFICES ASSUME "delivered" \notin events', "delivered" \notin byHand PROVE NothingDelivered'
    OBVIOUS
  <2>1. NothingDelivered
    BY DEF ShippingInv, CourierGoesOn
  <2>2. \A v \in Requests : DeliversNot(job'[v], req'[v])
    BY <1>1, <1>2, <2>1, NothingDeliveredBy
  <2> QED
    BY <1>3, <2>1, <2>2 DEF NothingDelivered, DeliversNot, NoDelivery
<1> QED
  BY <1>4, <1>5, <1>6, <1>7, <1>8, <1>9 DEF ShippingInv

\* A task goes on without its request, or something outside all tasks happens.
LEMMA OutsideStep ==
    ASSUME ShippingInv, req' = req, UNCHANGED orderVars, byHand' = byHand,
           job' \in [Requests -> ShippingJobs],
           \A w \in Requests :
             \/ job'[w] = job[w]
             \/ /\ UnderLock(job'[w], req[w]) /\ job[w].task # "hand"
                /\ "delivered" \in events' \/ job'[w].status # "delivered",
           CourierGoesOn
    PROVE  ShippingInv'
<1>1. order' = order /\ lines' = lines /\ past' = past /\ carry_away' = carry_away /\ overtaken' = overtaken
  BY DEF orderVars
<1>2. ShippingTypeOK'
  <2>1. TypeOK'
    BY <1>1 DEF ShippingInv, ShippingTypeOK, TypeOK, IsRequest
  <2> QED
    BY <2>1, ShippingTyped DEF ShippingTypeOK, ShippingJobs, CourierGoesOn
<1>3. (\A u, v \in Requests : HasRow(u) /\ HasRow(v) => u = v)'
  BY DEF ShippingInv, HasRow
<1>4. (\A v \in Requests : UnderLock(job[v], req[v]) /\ OwnMoves(req[v]))'
  <2>1. \A v \in Requests : UnderLock(job'[v], req[v]) /\ OwnMoves(req[v])
    BY DEF ShippingInv
  <2> QED
    BY <2>1 DEF UnderLock, OwnMoves
<1>5. (\A v \in Requests : job[v].task = "hand" \/ FreesStock(req[v]))'
  <2> SUFFICES ASSUME NEW v \in Requests, job'[v].task # "hand"
               PROVE  FreesStock(req[v])'
    OBVIOUS
  <2>1. FreesStock(req[v])
    BY DEF ShippingInv
  <2> QED
    BY <1>1, <2>1 DEF FreesStock, Settled
<1>6. CancelledFreesStock' /\ (courier = "delivered" => "delivered" \in events)'
  BY <1>1 DEF ShippingInv, CancelledFreesStock, CourierGoesOn
<1>7. ("delivered" \in events \cup byHand \/ NothingDelivered)'
  BY <1>1 DEF ShippingInv, NothingDelivered, CourierGoesOn
<1> QED
  BY <1>2, <1>3, <1>4, <1>5, <1>6, <1>7 DEF ShippingInv

-----------------------------------------------------------------------------
(* The beginnings.                                                          *)

LEMMA IdleRests ==
    /\ UnderLock(NoJob, Idle) /\ OwnMoves(Idle) /\ FreesStock(Idle) /\ DeliversNot(NoJob, Idle)
    /\ ~Row(Idle) /\ NoDelivery(Idle.script) /\ Idle.trail = {}
BY DEF UnderLock, NoJob, Booking, OwnMoves, FreesStock, DeliversNot, Idle, Row, NoDelivery, Quiet

\* A request that begins proper statements frees the stock before it cancels.
LEMMA ProperFrees ==
    ASSUME NEW r, Proper(r.script), r.wrote = {}
    PROVE  FreesStock(r)
<1>1. ASSUME NEW i \in DOMAIN r.script, r.script[i].do = "move", r.script[i].arg = "cancelled",
             NEW k \in Lines
      PROVE  SettledBy(r.script, i - 1, k)
  BY <1>1 DEF Proper, SettledBy
<1> QED
  BY <1>1 DEF FreesStock, Proper

\* The statements of a booking, from when it begins.
LEMMA BookingSteps ==
    ASSUME NEW s, s = Tracking \o Do("end")
    PROVE  Quiet(s) /\ \A i \in DOMAIN s : s[i].do = "end" => i = Len(s)
<1> DEFINE x == [do |-> "touch", arg |-> Nothing]
           y == [do |-> "end", arg |-> Nothing]
<1>1. x \in Steps /\ y \in Steps /\ x.do = "touch" /\ y.do = "end"
  BY DEF Steps
<1>2. s = <<x>> \o <<y>>
  BY DEF Tracking, Do
<1> HIDE DEF x, y
<1>3. Len(s) = 2 /\ s[1] = x /\ s[2] = y /\ s \in Seq(Steps)
  <2>1. /\ <<x>> \o <<y>> \in Seq(Steps) /\ Len(<<x>> \o <<y>>) = 2
        /\ (<<x>> \o <<y>>)[1] = x /\ (<<x>> \o <<y>>)[2] = y
    BY <1>1, Pair
  <2> QED
    BY <1>2, <2>1
<1>4. DOMAIN s = 1 .. 2
  BY <1>3
<1> QED
  BY <1>1, <1>3, <1>4 DEF Quiet

LEMMA BeginsTask ==
    ASSUME ShippingInv, NEW w \in Requests, NEW steps, NEW handler,
           Begin(w, steps, handler) \/ BeginLocked(w, steps, handler), byHand' = byHand,
           Plain(steps), handler \in Seq(Steps), Quiet(handler),
           NEW j \in ShippingJobs, job' = [job EXCEPT ![w] = j], CourierGoesOn,
           j.task = "hand" \/ Proper(steps),
           j.task \in Booking => BeginLocked(w, steps, handler) /\ steps = Tracking /\ handler = <<>>,
           NothingDelivered =>
             \/ "delivered" \in events'
             \/ j.status # "delivered" /\ (j.task = "hand" \/ NoDelivery(steps))
    PROVE  ShippingInv'
<1>1. /\ TypeOK /\ steps \in Seq(Steps) /\ handler \in Seq(Steps)
      /\ Begin(w, steps, handler) \/ BeginLocked(w, steps, handler)
  BY ShippingTyped DEF Plain
<1>2. UNCHANGED orderVars /\ \E q : Begun(w, steps, handler, q)
  BY <1>1, BeginStep
<1>3. PICK q : /\ IsRequest(q) /\ req' = [req EXCEPT ![w] = q]
               /\ q.script = steps \o Do("end") /\ q.handler = handler
               /\ q.wrote = {} /\ q.trail = {}
               /\ BeginLocked(w, steps, handler) => q.locked
               /\ ~BeginLocked(w, steps, handler) => ~q.locked
  BY <1>2 DEF Begun
<1>4. Row(q) => \A v \in Requests \ {w} : ~HasRow(v)
  BY <1>3 DEF Row, BeginLocked
<1>5. Homeward(Do("end")) /\ Proper(Do("end")) /\ Plain(Do("end")) /\ NoDelivery(Do("end"))
      /\ Do("end") \in Seq(Steps)
  BY HomewardScripts DEF Homeward, Proper, Plain
<1>6. j.task = "hand" \/ FreesStock(q)
  <2> SUFFICES ASSUME Proper(steps) PROVE FreesStock(q)
    OBVIOUS
  <2>1. Proper(q.script)
    BY <1>3, <1>5, ProperJoined
  <2> QED
    BY <1>3, <2>1, ProperFrees
<1>7. UnderLock(j, q)
  <2> SUFFICES ASSUME j.task \in Booking PROVE UnderLock(j, q)
    BY DEF UnderLock
  <2>1. q.locked /\ q.handler = <<>> /\ q.script = Tracking \o Do("end")
    BY <1>3
  <2> QED
    BY <2>1, BookingSteps DEF UnderLock
<1>8. OwnMoves(q)
  <2>1. Plain(q.script)
    BY <1>3, <1>5, PlainJoined
  <2> QED
    BY <1>3, <2>1 DEF OwnMoves, Plain
<1>9. NoDelivery(steps) => NoDelivery(q.script)
  BY <1>1, <1>3, <1>5, NoDeliveryJoined
<1>10. NothingDelivered => "delivered" \in events' \/ DeliversNot(j, q)
  BY <1>3, <1>9 DEF DeliversNot
<1> QED
  BY <1>2, <1>3, <1>4, <1>6, <1>7, <1>8, <1>10, RequestStep

\* Who begins something about the order alone has no task.
LEMMA Apart ==
    ASSUME ShippingInv, NEW w \in Requests, Free(w), UNCHANGED shippingVars
    PROVE  /\ NoJob \in ShippingJobs /\ NoJob.task \notin Booking /\ NoJob.status # "delivered"
           /\ job' = [job EXCEPT ![w] = NoJob] /\ byHand' = byHand /\ CourierGoesOn
<1>1. UNCHANGED <<shipment, courier, bookings, events>> /\ job' = job /\ byHand' = byHand
  BY DEF shippingVars
<1>2. job[w] = NoJob /\ ShippingTypeOK
  BY ShippingTyped DEF Free
<1>3. job' = [job EXCEPT ![w] = NoJob]
  BY <1>1, <1>2 DEF ShippingTypeOK
<1>4. CourierGoesOn
  BY <1>1, <1>2, CourierRests DEF ShippingTypeOK
<1> QED
  BY <1>1, <1>3, <1>4, ShippingTyped

\* ReleaseReservationView: its two statements settle nothing for good and move nothing.
LEMMA ReleasesKeep ==
    ASSUME ShippingInv, NEW w \in Requests, Free(w), ReleaseReservation(w), UNCHANGED shippingVars
    PROVE  ShippingInv'
<1>1. TypeOK
  BY ShippingTyped
<1>2. PICK q : /\ IsRequest(q) /\ req' = [req EXCEPT ![w] = q]
               /\ q.script = Do("drop") \o Do("end") /\ q.handler = <<>>
               /\ q.locked = FALSE /\ q.wrote = {} /\ q.trail = {}
  BY <1>1, ReleaseStep
<1>3. UNCHANGED orderVars
  BY DEF ReleaseReservation
<1>4. Proper(q.script) /\ NoDelivery(q.script)
  <2>1. Homeward(Do("drop") \o Do("end"))
    BY HomewardScripts, HomewardJoined
  <2> QED
    BY <1>2, <2>1 DEF Homeward
<1>5. FreesStock(q) /\ OwnMoves(q) /\ ~Row(q)
  <2>1. FreesStock(q)
    BY <1>2, <1>4, ProperFrees
  <2>2. OwnMoves(q)
    BY <1>2, <1>4 DEF OwnMoves, Proper, Quiet
  <2> QED
    BY <1>2, <2>1, <2>2 DEF Row
<1>6. UnderLock(NoJob, q) /\ DeliversNot(NoJob, q)
  BY <1>2, <1>4, ShippingTyped DEF UnderLock, DeliversNot
<1>7. /\ NoJob \in ShippingJobs /\ job' = [job EXCEPT ![w] = NoJob] /\ byHand' = byHand
      /\ CourierGoesOn
  BY Apart
<1> QED
  BY <1>2, <1>3, <1>5, <1>6, <1>7, RequestStep

\* Payments, failed payments, cancellations and what is shipped.
LEMMA OrderBeginsKeep ==
    ASSUME ShippingInv, NEW w \in Requests, OrderBegins(w)
    PROVE  ShippingInv'
<1> DEFINE pays == IF order.payment \in {"paid", "refunded", "partially_refunded"} THEN <<>>
                   ELSE IF order.status \in {"draft", "placed"} THEN MarkPaidSteps
                   ELSE Pay("paid")
<1>1. /\ Homeward(pays) /\ Homeward(Do("drop")) /\ Homeward(CancelSteps)
      /\ Homeward(MarkShippedSteps)
  BY HomewardScripts, HomewardServices
<1>2. Free(w) /\ UNCHANGED shippingVars
  BY DEF OrderBegins
<1>3. CASE ReleaseReservation(w)
  BY <1>2, <1>3, ReleasesKeep
<1>4. CASE ~ReleaseReservation(w)
  <2>1. PICK steps : (Begin(w, steps, <<>>) \/ BeginLocked(w, steps, <<>>)) /\ Homeward(steps)
    <3>1. CASE SettlePaid(w)
      <4>1. BeginLocked(w, pays, <<>>)
        BY <3>1 DEF SettlePaid
      <4> QED
        BY <1>1, <4>1
    <3>2. CASE HandlePaymentFailed(w) \/ CancelOrder(w) \/ MarkShipped(w)
      BY <1>1, <3>2 DEF HandlePaymentFailed, CancelOrder, MarkShipped
    <3> QED
      BY <1>4, <3>1, <3>2 DEF OrderBegins
  <2>2. Proper(steps) /\ NoDelivery(steps) /\ Plain(steps) /\ <<>> \in Seq(Steps) /\ Quiet(<<>>)
    BY <2>1 DEF Homeward, Proper, Plain, Quiet
  <2>3. /\ NoJob \in ShippingJobs /\ NoJob.task \notin Booking /\ NoJob.status # "delivered"
        /\ job' = [job EXCEPT ![w] = NoJob] /\ byHand' = byHand /\ CourierGoesOn
    BY <1>2, Apart
  <2> QED
    BY <2>1, <2>2, <2>3, BeginsTask
<1> QED
  BY <1>3, <1>4

\* Staff who enter a status: nothing is freed, and nothing has to be reported.
LEMMA StaffKeeps ==
    ASSUME ShippingInv, NEW w \in Requests, StaffEnters(w)
    PROVE  ShippingInv'
<1> DEFINE j == [task |-> "hand", status |-> "none"]
<1>1. PICK steps : Begin(w, steps, <<>>) /\ Plain(steps)
  <2>1. CASE MarkDelivered(w)
    <3>1. Plain(Do("touch")) /\ Plain(MoveTo("delivered"))
      BY HomewardScripts DEF Homeward, Proper, Plain
    <3>2. Plain(MarkDeliveredSteps)
      BY <3>1, PlainJoined DEF MarkDeliveredSteps
    <3> QED
      BY <2>1, <3>2 DEF MarkDelivered
  <2>2. ASSUME NEW s \in ByHand, TransitionOrder(w, s)
        PROVE  \E steps : Begin(w, steps, <<>>) /\ Plain(steps)
    <3>1. [do |-> "move", arg |-> s] \in Steps
      BY ByHandAssumption DEF Steps
    <3>2. /\ MoveTo(s) \in Seq(Steps) /\ DOMAIN MoveTo(s) = 1 .. 1
          /\ MoveTo(s)[1] = [do |-> "move", arg |-> s]
      BY <3>1, Single DEF MoveTo
    <3>3. Plain(MoveTo(s))
      BY <3>2 DEF Plain
    <3> QED
      BY <2>2, <3>3 DEF TransitionOrder
  <2> QED
    BY <2>1, <2>2 DEF StaffEnters
<1>2. j \in ShippingJobs /\ j.task = "hand" /\ j.task \notin Booking /\ j.status # "delivered"
  BY DEF ShippingJobs, Tasks, ShipmentStatus, Booking
<1>3. /\ job' = [job EXCEPT ![w] = j] /\ byHand' = byHand
      /\ UNCHANGED <<shipment, courier, bookings, events>>
  BY DEF StaffEnters, Starts
<1>4. CourierGoesOn
  BY <1>3, CourierRests, ShippingTyped DEF ShippingTypeOK
<1>5. <<>> \in Seq(Steps) /\ Quiet(<<>>)
  BY DEF Quiet
<1> HIDE DEF j
<1> QED
  BY <1>1, <1>2, <1>3, <1>4, <1>5, BeginsTask

LEMMA TrackingHandler ==
    Tracking \o Do("end") \in Seq(Steps) /\ Quiet(Tracking \o Do("end"))
    /\ <<>> \in Seq(Steps) /\ Quiet(<<>>)
<1>1. PICK s : s = Tracking \o Do("end")
  OBVIOUS
<1>2. Quiet(s)
  BY <1>1, BookingSteps
<1>3. s \in Seq(Steps)
  BY <1>1, HomewardServices DEF Homeward, Proper
<1>4. <<>> \in Seq(Steps) /\ Quiet(<<>>)
  BY DEF Quiet
<1> QED
  BY <1>1, <1>2, <1>3, <1>4

LEMMA CreatesKeep ==
    ASSUME ShippingInv, NEW w \in Requests, NEW force \in BOOLEAN, CreateShipment(w, force)
    PROVE  ShippingInv'
<1> DEFINE j == [task |-> "to_book", status |-> "created"]
<1>1. j \in ShippingJobs /\ j.status # "delivered"
  BY DEF ShippingJobs, Tasks, ShipmentStatus
<1>2. job' = [job EXCEPT ![w] = j] /\ BeginLocked(w, Tracking, <<>>) /\ byHand' = byHand
  BY DEF CreateShipment, Starts
<1>3. CourierGoesOn
  BY CourierRests, ShippingTyped DEF CreateShipment, ShippingTypeOK
<1>4. Proper(Tracking) /\ NoDelivery(Tracking) /\ Plain(Tracking)
  BY HomewardServices DEF Homeward, Proper, Plain
<1> HIDE DEF j
<1> QED
  BY <1>1, <1>2, <1>3, <1>4, TrackingHandler, BeginsTask

\* The services that lock the rows and ask the courier.
LEMMA LockingKeeps ==
    ASSUME ShippingInv, NEW w \in Requests, NEW task \in {"poll", "pickup", "cancel"},
           NEW status \in ShipmentStatus, NEW steps, NEW handler \in Seq(Steps),
           Locking(w, task, status, steps, handler), Quiet(handler),
           Proper(steps), CourierGoesOn,
           "delivered" \in events' \/ (status # "delivered" /\ NoDelivery(steps))
    PROVE  ShippingInv'
<1> DEFINE j == [task |-> task, status |-> status]
<1>1. j \in ShippingJobs /\ j.status = status /\ j.task \notin Booking
  BY DEF ShippingJobs, Tasks, Booking
<1>2. job' = [job EXCEPT ![w] = j] /\ BeginLocked(w, steps, handler) /\ byHand' = byHand
  BY DEF Locking, Starts
<1>3. Plain(steps)
  BY DEF Proper, Plain
<1> HIDE DEF j
<1> QED
  BY <1>1, <1>2, <1>3, BeginsTask

LEMMA ServicesKeep ==
    ASSUME ShippingInv, NEW w \in Requests,
           RequestPickup(w) \/ SyncTracking(w) \/ CancelShipment(w)
    PROVE  ShippingInv'
<1>1. ShippingTypeOK /\ courier \in ShipmentStatus /\ events \in SUBSET ShipmentStatus
      /\ {"pickup_requested", "cancelled"} \subseteq ShipmentStatus
      /\ shipment \in [status : ShipmentStatus, external : BOOLEAN]
      /\ bookings \in 0 .. MaxBookings
  BY ShippingTyped DEF ShippingTypeOK, ShipmentStatus
<1>2. /\ Homeward(<<>>) /\ Homeward(Tracking) /\ Homeward(CancelSteps)
  BY HomewardScripts, HomewardServices
<1>3. CASE RequestPickup(w)
  <2>1. Locking(w, "pickup", "pickup_requested", <<>>, <<>>) /\ UNCHANGED <<shipment, courier, bookings, events>>
    BY <1>3 DEF RequestPickup, Locking
  <2>2. CourierGoesOn
    BY <1>1, <2>1, CourierRests
  <2>3. Proper(<<>>) /\ NoDelivery(<<>>)
    BY <1>2 DEF Homeward
  <2> QED
    BY <1>1, <2>1, <2>2, <2>3, LockingKeeps, TrackingHandler
<1>4. CASE SyncTracking(w)
  <2> DEFINE led == ToOrder(courier, order, <<>>)
             steps == led \o Tracking
             handler == Tracking \o Do("end")
  <2>1. Locking(w, "poll", courier, steps, handler) /\ UNCHANGED <<shipment, courier, bookings, events>>
    BY <1>4 DEF SyncTracking, Locking
  <2>2. Proper(led) /\ (courier # "delivered" => Homeward(led))
    BY <1>1, <1>2, ToOrderProper
  <2> HIDE DEF led
  <2>3. Proper(steps) /\ (courier # "delivered" => NoDelivery(steps))
    BY <1>2, <2>2, ProperJoined, HomewardJoined DEF Homeward
  <2>4. CourierGoesOn
    BY <1>1, <2>1, CourierRests
  <2>5. "delivered" \in events' \/ (courier # "delivered" /\ NoDelivery(steps))
    BY <2>1, <2>3 DEF ShippingInv
  <2>6. handler \in Seq(Steps) /\ Quiet(handler)
    BY TrackingHandler
  <2> HIDE DEF steps, handler
  <2> QED
    BY <1>1, <2>1, <2>3, <2>4, <2>5, <2>6, LockingKeeps
<1>5. CASE CancelShipment(w)
  <2> DEFINE steps == IF order.status \in CANCELLABLE_STATUSES THEN CancelSteps ELSE <<>>
  <2>1. /\ Locking(w, "cancel", "cancelled", steps, <<>>) /\ UNCHANGED <<shipment, bookings>>
        /\ courier' = "cancelled" /\ events' = events \cup {"cancelled"}
    BY <1>5 DEF CancelShipment, Locking
  <2>2. Proper(steps) /\ NoDelivery(steps)
    BY <1>2 DEF Homeward
  <2>3. CourierGoesOn
    BY <1>1, <2>1 DEF CourierGoesOn
  <2> HIDE DEF steps
  <2> QED
    BY <1>1, <2>1, <2>2, <2>3, LockingKeeps, TrackingHandler
<1> QED
  BY <1>3, <1>4, <1>5

\* The task of an event takes the order where the event says.
LEMMA MoveOrderKeeps ==
    ASSUME ShippingInv, NEW w \in Requests, MoveOrder(w)
    PROVE  ShippingInv'
<1> DEFINE led == ToOrder(job[w].status, order, Do("end"))
           steps == led \o Tracking
           handler == Tracking \o Do("end")
<1>1. /\ Begin(w, steps, handler) /\ job' = [job EXCEPT ![w] = NoJob]
      /\ UNCHANGED <<shipment, courier, bookings, events, byHand>>
  BY DEF MoveOrder, Starts, NoJob
<1>2. NoJob \in ShippingJobs /\ NoJob.task \notin Booking /\ NoJob.status # "delivered"
      /\ job[w].status \in ShipmentStatus
  BY ShippingTyped DEF ShippingJobs
<1>3. Homeward(Tracking) /\ Homeward(Do("end")) /\ handler \in Seq(Steps) /\ Quiet(handler)
  BY HomewardServices, HomewardScripts, TrackingHandler
<1>4. Proper(led) /\ (job[w].status # "delivered" => Homeward(led))
  BY <1>2, <1>3, ToOrderProper
<1> HIDE DEF led
<1>5. Proper(steps) /\ Plain(steps) /\ (job[w].status # "delivered" => NoDelivery(steps))
  <2>1. Proper(steps) /\ (job[w].status # "delivered" => NoDelivery(steps))
    BY <1>3, <1>4, ProperJoined, HomewardJoined DEF Homeward
  <2> HIDE DEF steps
  <2> QED
    BY <2>1 DEF Proper, Plain
<1>6. CourierGoesOn
  BY <1>1, CourierRests, ShippingTyped DEF ShippingTypeOK
<1>7. NothingDelivered => NoDelivery(steps)
  BY <1>5 DEF NothingDelivered
<1> HIDE DEF steps, handler
<1> QED
  BY <1>1, <1>2, <1>3, <1>5, <1>6, <1>7, BeginsTask

-----------------------------------------------------------------------------
(* The courier, and the steps of tasks that leave the order alone.          *)

\* A task goes from one thing to the next while its request, if any, stays.
LEMMA TaskGoesOn ==
    ASSUME ShippingInv, NEW w \in Requests, NEW j \in ShippingJobs,
           req' = req, UNCHANGED orderVars, byHand' = byHand, job' = [job EXCEPT ![w] = j],
           CourierGoesOn, job[w].task # "hand", UnderLock(j, req[w]), "delivered" \in events' \/ j.status # "delivered"
    PROVE  ShippingInv'
<1>1. /\ job' \in [Requests -> ShippingJobs] /\ job'[w] = j
      /\ \A v \in Requests \ {w} : job'[v] = job[v]
  BY ShippingTyped DEF ShippingTypeOK, ShippingJobs
<1>2. \A v \in Requests :
        \/ job'[v] = job[v]
        \/ /\ UnderLock(job'[v], req[v]) /\ job[v].task # "hand"
           /\ "delivered" \in events' \/ job'[v].status # "delivered"
  BY <1>1
<1> QED
  BY <1>1, <1>2, OutsideStep

LEMMA TasksKeep ==
    ASSUME ShippingInv, NEW w \in Requests,
           BookParcel(w) \/ EventLost(w) \/ \E status \in ShipmentStatus : ProcessEvent(w, status)
    PROVE  ShippingInv'
<1>1. /\ ShippingTypeOK /\ courier \in ShipmentStatus /\ events \in SUBSET ShipmentStatus
      /\ shipment \in [status : ShipmentStatus, external : BOOLEAN]
      /\ bookings \in 0 .. MaxBookings /\ job[w] \in ShippingJobs /\ NoJob \in ShippingJobs
      /\ "created" \in ShipmentStatus /\ MaxBookings \in Nat
      /\ NoJob.task \notin Booking /\ NoJob.status # "delivered"
  BY ShippingTyped, BookingsAssumption DEF ShippingTypeOK, ShipmentStatus
<1>2. CASE BookParcel(w)
  <2> DEFINE j == [task |-> "booked", status |-> "created"]
  <2>1. /\ req' = req /\ UNCHANGED orderVars /\ job' = [job EXCEPT ![w] = j]
        /\ job[w].task \in Booking /\ job[w].task # "hand" /\ byHand' = byHand
        /\ shipment' = shipment /\ events' = events
        /\ courier' = courier \/ courier' = "created"
        /\ bookings' = bookings + 1 /\ bookings < MaxBookings
    BY <1>2 DEF BookParcel, Starts, Booking
  <2>2. j \in ShippingJobs /\ j.status # "delivered"
    BY DEF ShippingJobs, Tasks, ShipmentStatus
  <2>3. CourierGoesOn
    BY <1>1, <2>1 DEF CourierGoesOn
  <2>4. UnderLock(j, req[w])
    BY <2>1 DEF ShippingInv, UnderLock
  <2> HIDE DEF j
  <2> QED
    BY <2>1, <2>2, <2>3, <2>4, TaskGoesOn
<1>3. CASE EventLost(w)
  <2>1. /\ req' = req /\ UNCHANGED orderVars /\ job' = [job EXCEPT ![w] = NoJob]
        /\ UNCHANGED <<shipment, courier, bookings, events, byHand>> /\ job[w].task # "hand"
    BY <1>3 DEF EventLost, Starts, NoJob
  <2>2. CourierGoesOn /\ UnderLock(NoJob, req[w])
    BY <1>1, <2>1, CourierRests DEF UnderLock
  <2> QED
    BY <1>1, <2>1, <2>2, TaskGoesOn
<1>4. ASSUME NEW status \in ShipmentStatus, ProcessEvent(w, status) PROVE ShippingInv'
  <2> DEFINE j == [task |-> "event", status |-> status]
  <2>1. /\ req' = req /\ UNCHANGED orderVars /\ job' = [job EXCEPT ![w] = j]
        /\ UNCHANGED <<courier, bookings, events, byHand>> /\ status \in events
        /\ shipment' = [shipment EXCEPT !.status = status] /\ job[w].task # "hand"
    BY <1>4 DEF ProcessEvent, Starts, Free, NoJob
  <2>2. j \in ShippingJobs /\ j.status = status /\ j.task \notin Booking
    BY DEF ShippingJobs, Tasks, Booking
  <2>3. CourierGoesOn
    BY <1>1, <2>1, CourierRests
  <2>4. UnderLock(j, req[w]) /\ ("delivered" \in events' \/ j.status # "delivered")
    BY <2>1, <2>2 DEF UnderLock
  <2> HIDE DEF j
  <2> QED
    BY <2>1, <2>2, <2>3, <2>4, TaskGoesOn
<1> QED
  BY <1>2, <1>3, <1>4

LEMMA OutsideKeeps ==
    ASSUME ShippingInv, ApproveOrderShipping \/ CourierReports
    PROVE  ShippingInv'
<1>1. /\ ShippingTypeOK /\ courier \in ShipmentStatus /\ events \in SUBSET ShipmentStatus
      /\ shipment \in [status : ShipmentStatus, external : BOOLEAN]
      /\ bookings \in 0 .. MaxBookings /\ "approved" \in ShipmentStatus
      /\ job \in [Requests -> ShippingJobs]
  BY ShippingTyped DEF ShippingTypeOK, ShipmentStatus, ShippingJobs
<1>2. req' = req /\ UNCHANGED orderVars /\ job' = job /\ byHand' = byHand
  BY DEF ApproveOrderShipping, CourierReports
<1>3. CASE ApproveOrderShipping
  <2>1. CourierGoesOn
    BY <1>1, <1>3, CourierRests DEF ApproveOrderShipping
  <2> QED
    BY <1>1, <1>2, <2>1, OutsideStep
<1>4. CASE CourierReports
  <2>1. PICK i \in DOMAIN Journey : courier' = Journey[i] /\ events' = events \cup {Journey[i]}
    BY <1>4 DEF CourierReports
  <2>2. Journey[i] \in ShipmentStatus
    BY JourneyAssumption
  <2>3. CourierGoesOn
    BY <1>1, <1>4, <2>1, <2>2 DEF CourierReports, CourierGoesOn
  <2> QED
    BY <1>1, <1>2, <2>3, OutsideStep
<1> QED
  BY <1>3, <1>4

-----------------------------------------------------------------------------
(* The statements of a request.                                             *)

\* A step of a request that has begun: it goes on with its task, or both end.
LEMMA RequestGoesOn ==
    ASSUME ShippingInv, NEW w \in Requests, NEW q, IsRequest(q), req' = [req EXCEPT ![w] = q],
           UNCHANGED <<orderVars, shipment, courier, bookings, events, byHand>>,
           job' = IF req'[w] = Idle THEN [job EXCEPT ![w] = NoJob] ELSE job,
           Row(q) => Row(req[w]) \/ \A v \in Requests \ {w} : ~HasRow(v),
           q # Idle => UnderLock(job[w], q),
           OwnMoves(q), FreesStock(req[w]) => FreesStock(q),
           NothingDelivered /\ job[w].task # "hand" => "delivered" \notin q.trail /\ NoDelivery(q.script)
    PROVE  ShippingInv'
<1>1. /\ TypeOK /\ ShippingTypeOK /\ job[w] \in ShippingJobs /\ req'[w] = q
      /\ NoJob \in ShippingJobs
  BY ShippingTyped DEF TypeOK
<1>2. Row(q) => \A v \in Requests \ {w} : ~HasRow(v)
  BY DEF ShippingInv, HasRow, Row
<1>3. CourierGoesOn
  BY <1>1, CourierRests DEF ShippingTypeOK
<1>4. PICK j \in ShippingJobs : /\ job' = [job EXCEPT ![w] = j] /\ UnderLock(j, q)
                                /\ j.task = "hand" \/ FreesStock(q)
                                /\ NothingDelivered => DeliversNot(j, q)
  <2>1. CASE q = Idle
    <3>1. job' = [job EXCEPT ![w] = NoJob]
      BY <1>1, <2>1
    <3> QED
      BY <1>1, <2>1, <3>1, IdleRests
  <2>2. CASE q # Idle
    <3>1. job' = [job EXCEPT ![w] = job[w]] /\ UnderLock(job[w], q)
      BY <1>1, <2>2 DEF ShippingTypeOK
    <3>2. job[w].task = "hand" \/ FreesStock(q)
      BY DEF ShippingInv
    <3>3. NothingDelivered => DeliversNot(job[w], q)
      BY DEF NothingDelivered, DeliversNot
    <3> QED
      BY <1>1, <3>1, <3>2, <3>3
  <2> QED
    BY <2>1, <2>2
<1>5. UNCHANGED orderVars /\ byHand' = byHand
  OBVIOUS
<1>6. NothingDelivered => "delivered" \in events' \/ DeliversNot(j, q)
  BY <1>4
<1> QED
  BY <1>2, <1>3, <1>4, <1>5, <1>6, RequestStep

\* What is left of a script, once its first statement has been worked off.
LEMMA TailRests ==
    ASSUME NEW s \in Seq(Steps), s # <<>>
    PROVE  /\ NoDelivery(s) => NoDelivery(Tail(s))
           /\ Quiet(s) => Quiet(Tail(s))
           /\ (\A i \in DOMAIN s : s[i].do = "end" => i = Len(s)) =>
                \A i \in DOMAIN Tail(s) : Tail(s)[i].do = "end" => i = Len(Tail(s))
<1>1. /\ Len(Tail(s)) = Len(s) - 1 /\ Len(s) \in Nat /\ DOMAIN Tail(s) = 1 .. Len(s) - 1
      /\ \A i \in DOMAIN Tail(s) : i + 1 \in DOMAIN s /\ Tail(s)[i] = s[i + 1]
  BY TailOf
<1> QED
  BY <1>1 DEF NoDelivery, Quiet

\* Where the script cancels the order, the lines that are not in S have been settled.
Frees(s, S) ==
    \A i \in DOMAIN s :
        s[i].do = "move" /\ s[i].arg = "cancelled" =>
          \A k \in Lines : k \in S \/ SettledBy(s, i - 1, k)

LEMMA TailFrees ==
    ASSUME NEW s \in Seq(Steps), s # <<>>, s[1].do \notin Query, NEW S, NEW T, Frees(s, S),
           \A k \in Lines : k \in S \/ (s[1].do \in OnLine /\ s[1].arg = k) => k \in T
    PROVE  Frees(Tail(s), T)
<1>1. /\ DOMAIN Tail(s) = 1 .. Len(s) - 1 /\ Len(s) \in Nat
      /\ \A i \in DOMAIN Tail(s) : i + 1 \in DOMAIN s /\ Tail(s)[i] = s[i + 1]
  BY TailOf
<1>2. ASSUME NEW i \in DOMAIN Tail(s), Tail(s)[i].do = "move", Tail(s)[i].arg = "cancelled",
             NEW k \in Lines
      PROVE  k \in T \/ SettledBy(Tail(s), i - 1, k)
  <2>1. i \in 1 .. Len(s) - 1 /\ i + 1 \in DOMAIN s /\ Tail(s)[i] = s[i + 1] /\ (i + 1) - 1 = i
    BY <1>1
  <2>2. k \in S \/ SettledBy(s, i, k)
    BY <1>2, <2>1 DEF Frees
  <2>3. CASE k \in S
    BY <2>3
  <2>4. CASE SettledBy(s, i, k)
    <3>1. PICK j \in 1 .. i : s[j].do = "release" \/ (s[j].do \in OnLine /\ s[j].arg = k)
      BY <2>4 DEF SettledBy
    <3>2. CASE j = 1
      BY <3>1, <3>2 DEF Query
    <3>3. CASE j # 1
      <4>1. j - 1 \in 1 .. i - 1 /\ j - 1 \in DOMAIN Tail(s) /\ (j - 1) + 1 = j
        BY <1>1, <2>1, <3>3
      <4>2. Tail(s)[j - 1] = s[j]
        BY <1>1, <4>1
      <4> QED
        BY <3>1, <4>1, <4>2 DEF SettledBy
    <3> QED
      BY <3>2, <3>3
  <2> QED
    BY <2>2, <2>3, <2>4
<1> QED
  BY <1>1, <1>2 DEF Frees

LEMMA FreesOf ==
    ASSUME NEW r
    PROVE  FreesStock(r) <=>
             /\ Frees(r.script, {k \in Lines : Settled(r, k)})
             /\ r.copy.status = "cancelled" /\ "status" \in r.wrote =>
                  \A k \in Lines : Settled(r, k)
BY DEF FreesStock, Frees

\* The first statement is worked off: its line, if it has one, is settled.
LEMMA FreedLater ==
    ASSUME TypeOK, NEW w \in Requests, FreesStock(req[w]), NEW q,
           req[w].script # <<>>, Now(w).do \notin Query,
           q.script = Tail(req[w].script),
           \A k \in Lines : Settled(req[w], k) \/ (Now(w).do \in OnLine /\ Now(w).arg = k)
                            => Settled(q, k),
           q.copy.status = "cancelled" /\ "status" \in q.wrote => \A k \in Lines : Settled(q, k)
    PROVE  FreesStock(q)
<1> DEFINE s == req[w].script
           S == {k \in Lines : Settled(req[w], k)}
           T == {k \in Lines : Settled(q, k)}
<1>1. s \in Seq(Steps) /\ s # <<>> /\ s[1] = Now(w)
  BY TypedRequest, TailOf DEF Now
<1>2. Frees(s, S)
  BY FreesOf
<1>3. \A k \in Lines : k \in S \/ (s[1].do \in OnLine /\ s[1].arg = k) => k \in T
  BY <1>1
<1>4. Frees(Tail(s), T)
  <2> HIDE DEF s, S, T
  <2> QED
    BY <1>1, <1>2, <1>3, TailFrees
<1>5. Frees(q.script, T)
  BY <1>4
<1> QED
  BY <1>5, FreesOf

\* The queried lines are those that are not settled yet.
LEMMA FreedByQuery ==
    ASSUME TypeOK, NEW w \in Requests, FreesStock(req[w]), NEW q, NEW f \in Seq(Steps),
           req[w].script # <<>>,
           \A i \in DOMAIN f : f[i].do \in OnLine /\ f[i].arg \in ActiveLines,
           \A k \in ActiveLines : \E i \in DOMAIN f : f[i].arg = k,
           q.script = f \o Tail(req[w].script), q.copy = req[w].copy,
           q.wrote = req[w].wrote, q.settled = req[w].settled
    PROVE  FreesStock(q)
<1> DEFINE t == Tail(req[w].script)
<1>1. /\ t \in Seq(Steps) /\ req[w].script \in Seq(Steps)
      /\ \A i \in DOMAIN t : i + 1 \in DOMAIN req[w].script /\ t[i] = req[w].script[i + 1]
  BY TypedRequest, TailOf
<1> HIDE DEF t
<1>2. /\ DOMAIN f = 1 .. Len(f) /\ Len(f) \in Nat
      /\ \A i \in 1 .. Len(f) : (f \o t)[i] = f[i]
  BY <1>1, Joined
<1>3. ASSUME NEW i \in DOMAIN (f \o t)
      PROVE  (f \o t)[i].do = "move" /\ (f \o t)[i].arg = "cancelled" =>
               \A k \in Lines : Settled(q, k) \/ SettledBy(f \o t, i - 1, k)
  <2>1. CASE i \in DOMAIN f /\ (f \o t)[i] = f[i]
    BY <2>1 DEF OnLine
  <2>2. CASE /\ i > Len(f) /\ i - Len(f) \in DOMAIN t /\ (f \o t)[i] = t[i - Len(f)] /\ i \in Nat
    <3>1. ASSUME NEW k \in Lines
          PROVE  Settled(q, k) \/ SettledBy(f \o t, i - 1, k)
      <4>1. CASE lines[k] # "active"
        BY <4>1 DEF Settled
      <4>2. CASE lines[k] = "active"
        <5>1. PICK j \in DOMAIN f : f[j].arg = k /\ f[j].do \in OnLine
          BY <4>2 DEF ActiveLines
        <5>2. j \in 1 .. i - 1 /\ (f \o t)[j] = f[j]
          BY <1>2, <2>2
        <5> QED
          BY <5>1, <5>2 DEF SettledBy
      <4> QED
        BY <4>1, <4>2
    <3> QED
      BY <3>1
  <2> QED
    BY <1>1, <2>1, <2>2, JoinedElements
<1>4. \A k \in Lines : Settled(req[w], k) => Settled(q, k)
  BY DEF Settled
<1>5. q.script = f \o t
  BY DEF t
<1> QED
  BY <1>3, <1>4, <1>5 DEF FreesStock

\* An exception: what the handler does settles nothing and moves the order nowhere.
LEMMA RollBackKeeps ==
    ASSUME ShippingInv, NEW w \in Requests, RollsBack(w),
           UNCHANGED <<shipment, courier, bookings, events, byHand>>,
           job' = IF req'[w] = Idle THEN [job EXCEPT ![w] = NoJob] ELSE job
    PROVE  ShippingInv'
<1>1. TypeOK /\ OwnMoves(req[w]) /\ UnderLock(job[w], req[w])
  BY ShippingTyped DEF ShippingInv
<1>2. UNCHANGED orderVars
  BY <1>1, RollBackStep
<1>3. PICK q : /\ IsRequest(q) /\ req' = [req EXCEPT ![w] = q]
               /\ \/ q = Idle
                  \/ /\ q.script = req[w].handler /\ q.handler = <<>>
                     /\ q.base = req[w].base /\ q.copy = req[w].copy
                     /\ q.locked = req[w].locked
                     /\ q.wrote = {} /\ q.trail = {} /\ q.settled = <<>>
                     /\ q.script \in Seq(Steps) /\ q.script # <<>>
  BY <1>1, RollBackStep
<1>4. CASE q = Idle
  <2>1. OwnMoves(q) /\ FreesStock(q) /\ ~Row(q) /\ NoDelivery(q.script) /\ q.trail = {}
    BY <1>4, IdleRests
  <2> QED
    BY <1>2, <1>3, <1>4, <2>1, RequestGoesOn
<1>5. CASE q # Idle
  <2>1. /\ q.script = req[w].handler /\ q.handler = <<>> /\ q.locked = req[w].locked
        /\ q.wrote = {} /\ q.trail = {} /\ q.script # <<>> /\ Quiet(q.script)
    BY <1>1, <1>3, <1>5 DEF OwnMoves
  <2>2. FreesStock(q) /\ OwnMoves(q) /\ NoDelivery(q.script)
    BY <2>1 DEF FreesStock, OwnMoves, Quiet, NoDelivery
  <2>3. UnderLock(job[w], q)
    BY <1>1, <2>1 DEF UnderLock
  <2>4. Row(q) => Row(req[w])
    BY <2>1 DEF Row
  <2>5. "delivered" \notin q.trail
    BY <2>1
  <2> QED
    BY <1>2, <1>3, <2>2, <2>3, <2>4, <2>5, RequestGoesOn
<1> QED
  BY <1>4, <1>5

LEMMA ShippingStepKeeps ==
    ASSUME ShippingInv, NEW w \in Requests, ShippingStep(w)
    PROVE  ShippingInv'
<1>1. /\ TypeOK /\ OwnMoves(req[w]) /\ UnderLock(job[w], req[w]) /\ job[w].task # "to_book"
  BY ShippingTyped DEF ShippingInv, ShippingStep
<1>2. /\ job' = IF req'[w] = Idle THEN [job EXCEPT ![w] = NoJob] ELSE job
      /\ UNCHANGED <<shipment, courier, bookings, events, byHand>>
  BY DEF ShippingStep
<1>3. Busy(w)
  BY DEF ShippingStep, Pays, Touches, SavesAll, Moves, Deletes, Checks, Queries, Settles, Refused
<1>4. /\ req[w].script \in Seq(Steps) /\ req[w].script # <<>>
      /\ Now(w) = req[w].script[1] /\ 1 \in DOMAIN req[w].script
  BY <1>1, <1>3, TypedRequest, TailOf DEF Busy, Now
<1>5. /\ Now(w).do # "all" /\ \A i \in DOMAIN Tail(req[w].script) : Tail(req[w].script)[i].do # "all"
      /\ FreesStock(req[w]) =>
           (Now(w).do = "move" /\ Now(w).arg = "cancelled" => \A k \in Lines : Settled(req[w], k))
  <2>1. \A k : ~SettledBy(req[w].script, 1 - 1, k)
    BY DEF SettledBy
  <2>2. FreesStock(req[w]) =>
          (Now(w).do = "move" /\ Now(w).arg = "cancelled" => \A k \in Lines : Settled(req[w], k))
    BY <1>4, <2>1 DEF FreesStock
  <2>3. \A i \in DOMAIN Tail(req[w].script) :
          i + 1 \in DOMAIN req[w].script /\ Tail(req[w].script)[i] = req[w].script[i + 1]
    BY <1>4, TailOf
  <2> QED
    BY <1>1, <1>4, <2>2, <2>3 DEF OwnMoves
<1>6. /\ NoDelivery(req[w].script) => NoDelivery(Tail(req[w].script))
      /\ Quiet(req[w].script) => Quiet(Tail(req[w].script)) /\ Now(w).do \in {"touch", "end"}
      /\ (\A i \in DOMAIN req[w].script : req[w].script[i].do = "end" => i = Len(req[w].script)) =>
           \A i \in DOMAIN Tail(req[w].script) :
             Tail(req[w].script)[i].do = "end" => i = Len(Tail(req[w].script))
  BY <1>4, TailRests DEF Quiet
<1>7. CASE Pays(w) \/ Touches(w) \/ SavesAll(w) \/ Moves(w) \/ Deletes(w) \/ Settles(w)
  <2>1. /\ UNCHANGED orderVars /\ Now(w).do \in OnRow \cup OnLine
        /\ Now(w).do \in OnRow => \A v \in Requests \ {w} : ~HasRow(v)
    BY <1>1, <1>7, StatementStep
  <2>2. PICK q : /\ IsRequest(q) /\ req' = [req EXCEPT ![w] = q]
                 /\ q.script = Tail(req[w].script) /\ q.script \in Seq(Steps)
                 /\ q.handler = req[w].handler /\ q.base = req[w].base
                 /\ q.locked = req[w].locked
                 /\ IF Now(w).do \in OnRow THEN q.wrote # {} /\ req[w].wrote \subseteq q.wrote
                    ELSE q.wrote = req[w].wrote
                 /\ "payment" \in q.wrote => "payment" \in req[w].wrote \/ Now(w).do \in {"pay", "all"}
                 /\ "status" \in q.wrote => "status" \in req[w].wrote \/ Now(w).do \in {"move", "all"}
                 /\ IF Now(w).do = "move"
                    THEN q.copy.status = Now(w).arg /\ q.trail = req[w].trail \cup {Now(w).arg}
                    ELSE q.copy.status = req[w].copy.status /\ q.trail = req[w].trail
                 /\ IF Now(w).do \in OnLine
                    THEN DOMAIN q.settled = DOMAIN req[w].settled \cup {Now(w).arg}
                    ELSE q.settled = req[w].settled
    BY <1>1, <1>7, StatementStep
  <2>3. Row(q) => Row(req[w]) \/ \A v \in Requests \ {w} : ~HasRow(v)
    BY <2>1, <2>2 DEF Row
  <2>4. UnderLock(job[w], q)
    BY <1>1, <1>6, <2>2 DEF UnderLock
  <2>5. \A k \in Lines : Settled(req[w], k) \/ (Now(w).do \in OnLine /\ Now(w).arg = k)
                         => Settled(q, k)
    BY <2>2 DEF Settled
  <2>6. FreesStock(req[w]) =>
          (q.copy.status = "cancelled" /\ "status" \in q.wrote => \A k \in Lines : Settled(q, k))
    <3>1. CASE Now(w).do = "move"
      BY <1>5, <2>2, <2>5, <3>1
    <3>2. CASE Now(w).do # "move"
      <4>1. q.copy.status = req[w].copy.status /\ ("status" \in q.wrote => "status" \in req[w].wrote)
        BY <1>5, <2>2, <3>2
      <4> QED
        BY <2>5, <4>1 DEF FreesStock
    <3> QED
      BY <3>1, <3>2
  <2>7. FreesStock(req[w]) => FreesStock(q)
    <3>1. Now(w).do \notin Query
      BY <2>1 DEF OnRow, OnLine, Query
    <3> QED
      BY <1>1, <1>4, <2>2, <2>5, <2>6, <3>1, FreedLater
  <2>8. NothingDelivered /\ job[w].task # "hand" => "delivered" \notin q.trail /\ NoDelivery(q.script)
    <3>1. NothingDelivered /\ job[w].task # "hand" =>
            "delivered" \notin req[w].trail /\ NoDelivery(req[w].script)
      BY DEF NothingDelivered
    <3>2. NoDelivery(req[w].script) => (Now(w).do = "move" => Now(w).arg # "delivered")
      BY <1>4 DEF NoDelivery
    <3> QED
      BY <1>6, <2>2, <3>1, <3>2
  <2>9. OwnMoves(q)
    BY <1>1, <1>5, <2>2 DEF OwnMoves
  <2> QED
    BY <1>2, <2>1, <2>2, <2>3, <2>4, <2>7, <2>8, <2>9, RequestGoesOn
<1>8. CASE Queries(w)
  <2>1. UNCHANGED orderVars /\ Now(w).do \in Query
    BY <1>1, <1>8, QueryStep
  <2>2. PICK q :
          /\ IsRequest(q) /\ req' = [req EXCEPT ![w] = q]
          /\ q.script \in Seq(Steps)
          /\ \E f \in Seq(Steps) :
               /\ \A i \in DOMAIN f : f[i].do \in OnLine /\ f[i].arg \in ActiveLines
               /\ \A k \in ActiveLines : \E i \in DOMAIN f : f[i].arg = k
               /\ q.script = f \o Tail(req[w].script)
          /\ q.handler = req[w].handler /\ q.base = req[w].base
          /\ q.locked = req[w].locked /\ q.copy = req[w].copy /\ q.wrote = req[w].wrote
          /\ q.trail = req[w].trail /\ q.settled = req[w].settled
    BY <1>1, <1>8, QueryStep
  <2>3. PICK f \in Seq(Steps) :
          /\ \A i \in DOMAIN f : f[i].do \in OnLine /\ f[i].arg \in ActiveLines
          /\ \A k \in ActiveLines : \E i \in DOMAIN f : f[i].arg = k
          /\ q.script = f \o Tail(req[w].script)
    BY <2>2
  <2>4. FreesStock(req[w]) => FreesStock(q)
    <3>1. /\ q.copy = req[w].copy /\ q.wrote = req[w].wrote /\ q.settled = req[w].settled
      BY <2>2
    <3> QED
      BY <1>1, <1>4, <2>3, <3>1, FreedByQuery
  <2>5. UnderLock(job[w], q)
    BY <1>1, <1>6, <2>1 DEF UnderLock, Query
  <2>6. Row(q) => Row(req[w])
    BY <2>2 DEF Row
  <2>7. NothingDelivered /\ job[w].task # "hand" => "delivered" \notin q.trail /\ NoDelivery(q.script)
    <3> SUFFICES ASSUME NothingDelivered, job[w].task # "hand"
                 PROVE  "delivered" \notin q.trail /\ NoDelivery(q.script)
      OBVIOUS
    <3>1. "delivered" \notin req[w].trail /\ NoDelivery(Tail(req[w].script))
      BY <1>6 DEF NothingDelivered
    <3>2. NoDelivery(f)
      BY <2>3 DEF NoDelivery, OnLine
    <3>3. Tail(req[w].script) \in Seq(Steps)
      BY <1>4, TailOf
    <3>4. NoDelivery(f \o Tail(req[w].script))
      BY <3>1, <3>2, <3>3, NoDeliveryJoined
    <3> QED
      BY <2>2, <2>3, <3>1, <3>4
  <2>8. OwnMoves(q)
    <3>1. ASSUME NEW i \in DOMAIN q.script PROVE q.script[i].do # "all"
      <4>1. Tail(req[w].script) \in Seq(Steps)
        BY <1>4, TailOf
      <4>2. \/ i \in DOMAIN f /\ q.script[i] = f[i]
            \/ /\ i - Len(f) \in DOMAIN Tail(req[w].script)
               /\ q.script[i] = Tail(req[w].script)[i - Len(f)]
        BY <2>3, <4>1, JoinedElements
      <4> QED
        BY <1>5, <2>3, <4>2 DEF OnLine
    <3> QED
      BY <1>1, <2>2, <3>1 DEF OwnMoves
  <2> QED
    BY <1>2, <2>1, <2>2, <2>4, <2>5, <2>6, <2>7, <2>8, RequestGoesOn
<1>9. CASE Checks(w)
  <2>1. UNCHANGED orderVars /\ Now(w).do = "check"
    BY <1>1, <1>9, CheckStep
  <2>2. PICK q : /\ IsRequest(q) /\ req' = [req EXCEPT ![w] = q]
                 /\ q.script = Tail(req[w].script) /\ q.handler = req[w].handler
                 /\ q.locked = req[w].locked /\ q.copy = req[w].copy /\ q.wrote = req[w].wrote
                 /\ q.trail = req[w].trail /\ q.settled = req[w].settled
    BY <1>1, <1>9, CheckStep
  <2>3. (Row(q) => Row(req[w])) /\ UnderLock(job[w], q)
    BY <1>1, <1>6, <2>1, <2>2 DEF Row, UnderLock
  <2>4. OwnMoves(q)
    BY <1>1, <1>5, <2>2 DEF OwnMoves
  <2>5. FreesStock(req[w]) => FreesStock(q)
    <3>1. Now(w).do \notin Query /\ Now(w).do \notin OnLine
      BY <2>1 DEF OnLine, Query
    <3>2. \A k \in Lines : Settled(req[w], k) => Settled(q, k)
      BY <2>2 DEF Settled
    <3>3. FreesStock(req[w]) =>
            (q.copy.status = "cancelled" /\ "status" \in q.wrote => \A k \in Lines : Settled(q, k))
      BY <2>2, <3>2 DEF FreesStock
    <3> QED
      BY <1>1, <1>4, <2>2, <3>1, <3>2, <3>3, FreedLater
  <2>6. NothingDelivered /\ job[w].task # "hand" => "delivered" \notin q.trail /\ NoDelivery(q.script)
    BY <1>6, <2>2 DEF NothingDelivered
  <2> QED
    BY <1>2, <2>1, <2>2, <2>3, <2>4, <2>5, <2>6, RequestGoesOn
<1>10. CASE Refused(w)
  BY <1>2, <1>10, RollBackKeeps DEF Refused
<1> QED
  BY <1>7, <1>8, <1>9, <1>10 DEF ShippingStep

LEMMA FailuresKeep ==
    ASSUME ShippingInv, NEW w \in Requests, ShippingFails(w) \/ BookingFails(w)
    PROVE  ShippingInv'
<1>1. UNCHANGED <<shipment, courier, bookings, events, byHand>> /\ TypeOK
  BY ShippingTyped DEF ShippingFails, BookingFails
<1>2. CASE Dies(w) /\ ShippingFails(w)
  <2>1. /\ req' = [req EXCEPT ![w] = Idle] /\ UNCHANGED orderVars
        /\ job' = IF req'[w] = Idle THEN [job EXCEPT ![w] = NoJob] ELSE job
    BY <1>2 DEF Dies, ShippingFails
  <2>2. IsRequest(Idle) /\ OwnMoves(Idle) /\ FreesStock(Idle) /\ ~Row(Idle) /\ NoDelivery(Idle.script)
        /\ "delivered" \notin Idle.trail
    BY IdleRequest, IdleRests
  <2> QED
    BY <1>1, <2>1, <2>2, RequestGoesOn
<1>3. CASE RollsBack(w) /\ job' = IF req'[w] = Idle THEN [job EXCEPT ![w] = NoJob] ELSE job
  BY <1>1, <1>3, RollBackKeeps
<1>4. CASE BookingFails(w)
  <2>1. RollsBack(w) /\ job[w].task \in Booking /\ job' = [job EXCEPT ![w] = NoJob]
    BY <1>4 DEF BookingFails, Booking, Starts, NoJob
  <2>2. req[w].handler = <<>>
    BY <2>1 DEF ShippingInv, UnderLock
  <2>3. req'[w] = Idle
    BY <1>1, <2>1, <2>2 DEF RollsBack, TypeOK
  <2> QED
    BY <1>1, <2>1, <2>3, RollBackKeeps
<1> QED
  BY <1>2, <1>3, <1>4 DEF ShippingFails, BreaksDeadlock

-----------------------------------------------------------------------------
(* COMMIT.                                                                  *)

\* A commit settles lines, so that what was settled for a request stays settled.
LEMMA CommitLeavesSettled ==
    ASSUME TypeOK, NEW w \in Requests, Commits(w), NEW r, FreesStock(r)
    PROVE  FreesStock(r)'
<1>1. \A k \in Lines : lines'[k] = "active" => lines[k] = "active"
  BY CommitStep
<1> QED
  BY <1>1 DEF FreesStock, Settled, SettledBy

\* What the request had settled is settled for good.
LEMMA FreedAfterCommit ==
    ASSUME TypeOK, NEW w \in Requests, FreesStock(req[w]), NEW q,
           req[w].script # <<>>, Now(w).do = "end",
           q.script = Tail(req[w].script), q.wrote = {},
           \A k \in Lines : lines'[k] = "active" => lines[k] = "active" /\ ~HasLine(w, k)
    PROVE  FreesStock(q)'
<1> DEFINE s == req[w].script
           S == {k \in Lines : Settled(req[w], k)}
           T == {k \in Lines : lines'[k] # "active"}
<1>1. s \in Seq(Steps) /\ s # <<>> /\ s[1] = Now(w)
  BY TypedRequest, TailOf DEF Now
<1>2. Frees(s, S)
  BY FreesOf
<1>3. \A k \in Lines : k \in S \/ (s[1].do \in OnLine /\ s[1].arg = k) => k \in T
  BY <1>1 DEF OnLine, Settled, HasLine
<1>4. Frees(Tail(s), T) /\ s[1].do \notin Query
  <2>1. s[1].do \notin Query
    BY <1>1 DEF Query
  <2> HIDE DEF s, S, T
  <2> QED
    BY <1>1, <1>2, <1>3, <2>1, TailFrees
<1>5. Frees(q.script, T)
  BY <1>4
<1> QED
  BY <1>5 DEF FreesStock, Settled, Frees, SettledBy

LEMMA ShippingCommitsKeep ==
    ASSUME ShippingInv, NEW w \in Requests, ShippingCommits(w)
    PROVE  ShippingInv'
<1>1. /\ TypeOK /\ ShippingTypeOK /\ Commits(w) /\ job[w] \in ShippingJobs /\ NoJob \in ShippingJobs
      /\ OwnMoves(req[w]) /\ UnderLock(job[w], req[w]) /\ job[w].task # "to_book"
      /\ NoJob.task \notin Booking /\ NoJob.status # "delivered"
  BY ShippingTyped DEF ShippingInv, ShippingCommits
<1>2. /\ TypeOK' /\ Busy(w) /\ Now(w).do = "end"
      /\ \A k \in Lines : lines'[k] = "active" => lines[k] = "active" /\ ~HasLine(w, k)
  BY <1>1, CommitStep
<1>3. PICK q : /\ req'[w] = q /\ \A v \in Requests \ {w} : req'[v] = req[v]
               /\ \/ q = Idle
                  \/ /\ q.script = Tail(req[w].script) /\ q.handler = req[w].handler
                     /\ q.copy = req[w].copy /\ q.locked = FALSE
                     /\ q.wrote = {} /\ q.trail = {} /\ q.settled = <<>>
                     /\ q.script \in Seq(Steps)
  BY <1>1, CommitStep
<1>4. /\ req[w].script \in Seq(Steps) /\ req[w].script # <<>>
      /\ Now(w) = req[w].script[1] /\ 1 \in DOMAIN req[w].script
  BY <1>1, <1>2, TypedRequest, TailOf DEF Busy, Now
<1>5. /\ UNCHANGED <<courier, bookings, events>> /\ shipment' = Saved(w)
      /\ job' = IF req'[w] = Idle THEN [job EXCEPT ![w] = NoJob] ELSE job
      /\ byHand' = IF job[w].task = "hand" THEN byHand \cup req[w].trail ELSE byHand
  BY DEF ShippingCommits
<1>6. shipment' \in [status : ShipmentStatus, external : BOOLEAN]
  <2>1. shipment \in [status : ShipmentStatus, external : BOOLEAN] /\ job[w].status \in ShipmentStatus
    BY <1>1 DEF ShippingTypeOK, ShippingJobs
  <2>2. [status |-> "created", external |-> TRUE] \in [status : ShipmentStatus, external : BOOLEAN]
    BY DEF ShipmentStatus
  <2>3. CASE job[w].task \in {"poll", "pickup", "cancel"}
    BY <1>5, <2>1, <2>3 DEF Saved
  <2>4. CASE job[w].task \notin {"poll", "pickup", "cancel"}
    BY <1>5, <2>1, <2>2, <2>4 DEF Saved
  <2> QED
    BY <2>3, <2>4
<1>7. job[w].task \in Booking => q = Idle
  <2> SUFFICES ASSUME job[w].task \in Booking PROVE q = Idle
    OBVIOUS
  <2>1. Len(req[w].script) = 1
    BY <1>1, <1>2, <1>4 DEF UnderLock
  <2> QED
    BY <1>1, <1>3, <2>1 DEF Commits, TypeOK
<1>8. PICK j \in ShippingJobs :
        /\ job' = [job EXCEPT ![w] = j]
        /\ j.task \in Booking => FALSE
        /\ NothingDelivered => j.status # "delivered"
        /\ q = Idle \/ j = job[w]
  <2>1. CASE q = Idle
    BY <1>1, <1>3, <1>5, <2>1
  <2>2. CASE q # Idle
    <3>1. job' = [job EXCEPT ![w] = job[w]] /\ job[w].task \notin Booking
      BY <1>1, <1>3, <1>5, <1>7, <2>2 DEF ShippingTypeOK
    <3> QED
      BY <1>1, <3>1 DEF NothingDelivered
  <2> QED
    BY <2>1, <2>2
<1>9. /\ job' \in [Requests -> ShippingJobs] /\ job'[w] = j
      /\ \A v \in Requests \ {w} : job'[v] = job[v]
  BY <1>1, <1>8 DEF ShippingTypeOK, ShippingJobs
<1>10. ShippingTypeOK'
  <2>1. req[w].trail \subseteq Statuses
    BY <1>1 DEF TypeOK, IsRequest, RequestOver
  <2>2. byHand' \in SUBSET Statuses
    BY <1>1, <1>5, <2>1 DEF ShippingTypeOK
  <2> QED
    BY <1>1, <1>2, <1>5, <1>6, <1>9, <2>2 DEF ShippingTypeOK, ShippingJobs
<1>11. (\A u, v \in Requests : HasRow(u) /\ HasRow(v) => u = v)'
  <2>1. ~Row(q)
    BY <1>3, IdleRests DEF Row
  <2> QED
    BY <1>3, <2>1 DEF ShippingInv, HasRow, Row
<1>12. (\A v \in Requests : UnderLock(job[v], req[v]) /\ OwnMoves(req[v]))'
  <2>1. OwnMoves(q)
    <3>1. CASE q = Idle
      BY <3>1, IdleRests
    <3>2. CASE q # Idle
      <4>1. \A i \in DOMAIN Tail(req[w].script) :
              i + 1 \in DOMAIN req[w].script /\ Tail(req[w].script)[i] = req[w].script[i + 1]
        BY <1>4, TailOf
      <4>2. /\ q.script = Tail(req[w].script) /\ q.handler = req[w].handler /\ q.wrote = {}
        BY <1>3, <3>2
      <4>3. \A i \in DOMAIN q.script : q.script[i].do # "all"
        BY <1>1, <4>1, <4>2 DEF OwnMoves
      <4>4. Quiet(q.handler)
        BY <1>1, <4>2 DEF OwnMoves
      <4> QED
        BY <4>2, <4>3, <4>4 DEF OwnMoves
    <3> QED
      BY <3>1, <3>2
  <2>2. \A v \in Requests : UnderLock(job'[v], req'[v]) /\ OwnMoves(req'[v])
    BY <1>3, <1>8, <1>9, <2>1 DEF ShippingInv, UnderLock
  <2> QED
    BY <2>2 DEF UnderLock, OwnMoves
<1>13. (\A v \in Requests : job[v].task = "hand" \/ FreesStock(req[v]))'
  <2>1. j.task = "hand" \/ FreesStock(q)'
    <3>1. CASE q = Idle
      BY <3>1, IdleRests, CommitLeavesSettled, <1>1
    <3>2. CASE q # Idle
      <4>1. j.task = "hand" \/ FreesStock(req[w])
        BY <1>8, <3>2 DEF ShippingInv
      <4> QED
        BY <1>1, <1>2, <1>3, <1>4, <3>2, <4>1, FreedAfterCommit
    <3> QED
      BY <3>1, <3>2
  <2>2. ASSUME NEW v \in Requests, job'[v].task # "hand" PROVE FreesStock(req[v])'
    <3>1. PICK r : r = req'[v]
      OBVIOUS
    <3>2. FreesStock(r)'
      <4>1. CASE v = w
        BY <1>3, <1>9, <2>1, <2>2, <3>1, <4>1
      <4>2. CASE v # w
        <5>1. r = req[v] /\ FreesStock(r)
          BY <1>3, <1>9, <2>2, <3>1, <4>2 DEF ShippingInv
        <5> QED
          BY <1>1, <5>1, CommitLeavesSettled
      <4> QED
        BY <4>1, <4>2
    <3> QED
      BY <3>1, <3>2 DEF FreesStock, Settled
  <2> QED
    BY <2>2
<1>14. CancelledFreesStock'
  <2> SUFFICES ASSUME order'.status = "cancelled", "cancelled" \notin byHand',
                      NEW k \in Lines, lines'[k] = "active"
               PROVE  FALSE
    BY DEF CancelledFreesStock
  <2>1. lines[k] = "active" /\ ~HasLine(w, k)
    BY <1>2
  <2>2. ~Settled(req[w], k)
    BY <2>1 DEF Settled, HasLine
  <2>3. CASE Wrote(w, "status")
    <3>1. req[w].copy.status = "cancelled" /\ "cancelled" \in req[w].trail
      BY <1>1, <2>3 DEF Commits, Wrote, OwnMoves
    <3>2. FreesStock(req[w])
      BY <1>5, <3>1 DEF ShippingInv
    <3> QED
      BY <2>2, <2>3, <3>1, <3>2 DEF Wrote, FreesStock
  <2>4. CASE ~Wrote(w, "status")
    BY <1>1, <1>5, <2>1, <2>4 DEF Commits, ShippingInv, CancelledFreesStock
  <2> QED
    BY <2>3, <2>4
<1>15. (courier = "delivered" => "delivered" \in events)'
  BY <1>5 DEF ShippingInv
<1>16. ("delivered" \in events \cup byHand \/ NothingDelivered)'
  <2> SUFFICES ASSUME "delivered" \notin events', "delivered" \notin byHand' PROVE NothingDelivered'
    OBVIOUS
  <2>1. NothingDelivered
    BY <1>5 DEF ShippingInv
  <2>2. "delivered" \notin past'
    <3>1. "delivered" \notin req[w].trail
      BY <1>5, <2>1 DEF NothingDelivered
    <3> QED
      BY <1>1, <2>1, <3>1 DEF Commits, NothingDelivered
  <2>3. DeliversNot(j, q)
    <3>1. CASE q = Idle
      BY <1>8, <2>1, <3>1, IdleRests DEF DeliversNot
    <3>2. CASE q # Idle
      BY <1>3, <1>4, <1>8, <2>1, <3>2, TailRests DEF NothingDelivered, DeliversNot
    <3> QED
      BY <3>1, <3>2
  <2>4. \A v \in Requests : DeliversNot(job'[v], req'[v])
    BY <1>3, <1>9, <2>1, <2>3, NothingDeliveredBy
  <2> QED
    BY <2>2, <2>4 DEF NothingDelivered, DeliversNot, NoDelivery
<1> QED
  BY <1>10, <1>11, <1>12, <1>13, <1>14, <1>15, <1>16 DEF ShippingInv

-----------------------------------------------------------------------------
(* The invariant.                                                           *)

LEMMA ShippingInitial == ShippingInit => ShippingInv
<1> SUFFICES ASSUME ShippingInit PROVE ShippingInv
  OBVIOUS
<1>1. /\ Init /\ shipment = NoShipment /\ courier = "none" /\ bookings = 0 /\ events = {}
      /\ job = [w \in Requests |-> NoJob] /\ req = [w \in Requests |-> Idle]
      /\ order.status = "placed" /\ past = {"draft", "placed"} /\ byHand = {}
  BY DEF ShippingInit, Init
<1>2. TypeOK
  <2>1. \A w \in Requests : IsRequest(req[w])
    BY <1>1, IdleRequest
  <2> QED
    BY <1>1, <2>1 DEF Init, TypeOK, Statuses, PaymentStatuses
<1>3. ShippingTypeOK
  BY <1>1, <1>2, BookingsAssumption DEF ShippingTypeOK, NoShipment, NoJob, Tasks, ShipmentStatus
<1>4. \A w \in Requests : /\ ~HasRow(w) /\ UnderLock(job[w], req[w]) /\ OwnMoves(req[w])
                          /\ FreesStock(req[w])
                          /\ job[w].status # "delivered"
                          /\ "delivered" \notin req[w].trail /\ NoDelivery(req[w].script)
  BY <1>1, IdleRests DEF HasRow, Row, NoJob
<1>5. NothingDelivered /\ CancelledFreesStock
  BY <1>1, <1>4 DEF NothingDelivered, CancelledFreesStock
<1> QED
  BY <1>1, <1>3, <1>4, <1>5 DEF ShippingInv

LEMMA ShippingNextKeeps == ShippingInv /\ [ShippingNext]_allVars => ShippingInv'
<1> SUFFICES ASSUME ShippingInv, [ShippingNext]_allVars PROVE ShippingInv'
  OBVIOUS
<1>1. CASE UNCHANGED allVars
  <2>1. /\ req' = req /\ UNCHANGED orderVars /\ job' = job
        /\ UNCHANGED <<shipment, courier, bookings, events, byHand>>
    BY <1>1 DEF allVars, orderVars
  <2>2. CourierGoesOn /\ job' \in [Requests -> ShippingJobs]
    BY <2>1, CourierRests, ShippingTyped DEF ShippingTypeOK, ShippingJobs
  <2> QED
    BY <2>1, <2>2, OutsideStep
<1>2. CASE ApproveOrderShipping \/ CourierReports
  BY <1>2, OutsideKeeps
<1>3. ASSUME NEW w \in Requests, OrderBegins(w) \/ StaffEnters(w) PROVE ShippingInv'
  BY <1>3, OrderBeginsKeep, StaffKeeps
<1>4. ASSUME NEW w \in Requests, NEW force \in BOOLEAN, CreateShipment(w, force)
      PROVE  ShippingInv'
  BY <1>4, CreatesKeep
<1>5. ASSUME NEW w \in Requests,
             RequestPickup(w) \/ Refresh(w) \/ Reconcile(w) \/ CancelShipment(w)
      PROVE  ShippingInv'
  BY <1>5, ServicesKeep DEF Refresh, Reconcile
<1>6. ASSUME NEW w \in Requests,
             \/ \E status \in ShipmentStatus : ProcessEvent(w, status)
             \/ BookParcel(w) \/ EventLost(w)
      PROVE  ShippingInv'
  BY <1>6, TasksKeep
<1>7. ASSUME NEW w \in Requests, ShippingProceeds(w) \/ ShippingFails(w) PROVE ShippingInv'
  BY <1>7, MoveOrderKeeps, TasksKeep, FailuresKeep, ShippingStepKeeps, ShippingCommitsKeep
     DEF ShippingProceeds
<1> QED
  BY <1>1, <1>2, <1>3, <1>4, <1>5, <1>6, <1>7 DEF ShippingNext

\* Webhooks in any order and number, the poller, the customer, administrators and staff who
\* enter statuses by hand keep the shipment and the order as ShippingInv says, whatever
\* fails or is killed between two of their statements.
THEOREM ShippingInvariance == ShippingSpec => []ShippingInv
BY ShippingInitial, ShippingNextKeeps, PTL DEF ShippingSpec

\* An order is DELIVERED only if the courier has reported so or staff have entered it,
\* however late, often and out of order the courier's events are worked off, and whatever
\* it goes on to report.
THEOREM DeliveredAsReported == ShippingSpec => []DeliveredIsTrue
<1>1. ShippingInv => DeliveredIsTrue
  BY DEF ShippingInv, NothingDelivered, DeliveredIsTrue
<1> QED
  BY <1>1, ShippingInvariance, PTL

\* No two tasks book parcels side by side, however long the courier takes to answer.
THEOREM BookingsApart == ShippingSpec => []OneBookingAtATime
<1>1. ShippingInv => OneBookingAtATime
  BY DEF ShippingInv, UnderLock, HasRow, OneBookingAtATime
<1> QED
  BY <1>1, ShippingInvariance, PTL

\* A cancelled order holds no stock, whoever cancelled it and whatever raced with that,
\* unless staff have entered CANCELLED by hand, which releases nothing.
THEOREM CancellationFreesStock == ShippingSpec => []CancelledFreesStock
<1>1. ShippingInv => CancelledFreesStock
  BY DEF ShippingInv
<1> QED
  BY <1>1, ShippingInvariance, PTL
=============================================================================
