------------------------ MODULE OrderLifecycleProofs ------------------------
(***************************************************************************)
(* Theorems about OrderLifecycle, for any requests, lines and settings of  *)
(* the admin panel.                                                        *)
(***************************************************************************)
EXTENDS OrderLifecycle, FiniteSetTheorems, TLAPS

-----------------------------------------------------------------------------
(* The state machine.                                                       *)

\* After contains its start and is closed under moves.
LEMMA AfterSelf ==
    ASSUME NEW carry \in BOOLEAN, NEW s \in Statuses
    PROVE  s \in After[carry][s] /\ After[carry][s] \subseteq Statuses
BY DEF After

LEMMA AfterMove ==
    ASSUME NEW carry \in BOOLEAN, NEW b \in Statuses, NEW s \in After[carry][b],
           NEW t \in Statuses, CanMove(carry, s, t)
    PROVE  t \in After[carry][b]
<1>1. s \in Statuses /\ \A C \in SUBSET Statuses : b \in C /\ Closed(carry, C) => s \in C
  BY DEF After
<1>2. \A C \in SUBSET Statuses : b \in C /\ Closed(carry, C) => t \in C
  BY <1>1 DEF Closed
<1> QED
  BY <1>2 DEF After

\* No move leads back from Beyond.
LEMMA BeyondClosed ==
    ASSUME NEW carry \in BOOLEAN
    PROVE  Beyond \subseteq Statuses /\ Closed(carry, Beyond)
<1>1. \A s \in Beyond : STATE_TRANSITIONS[s] \subseteq Beyond
  BY DEF Beyond, STATE_TRANSITIONS
<1>2. ASSUME NEW s \in Beyond, NEW t \in Statuses, CanMove(carry, s, t)
      PROVE  t \in Beyond
  BY <1>1, <1>2 DEF Beyond, CanMove
<1> QED
  BY <1>2 DEF Beyond, Closed, Statuses

LEMMA BeyondAfter ==
    ASSUME NEW carry \in BOOLEAN, NEW b \in Beyond
    PROVE  After[carry][b] \subseteq Beyond
<1>1. b \in Statuses /\ Beyond \in SUBSET Statuses /\ Closed(carry, Beyond)
  BY BeyondClosed
<1> QED
  BY <1>1 DEF After

\* Each status is moved to from the one that has to come before it.
LEMMA MoveIsEarned ==
    ASSUME NEW s \in Statuses, NEW t \in Statuses, CanMove(carry_away, s, t),
           NEW S, s \in S, Earned(S)
    PROVE  Earned(S \cup {t})
<1>1. /\ t = "processing" => s = "paid"
      /\ t = "shipped" => s = "processing"
      /\ t = "delivered" => s = "shipped"
      /\ t = "completed" => s = "delivered" \/ (carry_away /\ s = "paid")
  BY DEF CanMove, STATE_TRANSITIONS, Statuses
<1> QED
  BY <1>1 DEF Earned

LEMMA EarnedUnion ==
    ASSUME NEW S, NEW T, Earned(S), Earned(T)
    PROVE  Earned(S \cup T)
BY DEF Earned

-----------------------------------------------------------------------------
(* Scripts.                                                                 *)

LEMMA TailOf ==
    ASSUME NEW s \in Seq(Steps), s # <<>>
    PROVE  /\ Head(s) \in Steps /\ Head(s) = s[1] /\ 1 \in DOMAIN s
           /\ Tail(s) \in Seq(Steps) /\ Len(Tail(s)) = Len(s) - 1
           /\ \A i \in DOMAIN Tail(s) : i + 1 \in DOMAIN s /\ Tail(s)[i] = s[i + 1]
           /\ \A i \in DOMAIN s : i = 1 \/ (i - 1 \in DOMAIN Tail(s) /\ Tail(s)[i - 1] = s[i])
OBVIOUS

LEMMA Appended ==
    ASSUME NEW s \in Seq(Steps), NEW x \in Steps, NEW t, t = s \o <<x>>
    PROVE  /\ t \in Seq(Steps) /\ Len(t) = Len(s) + 1 /\ Len(s) \in Nat
           /\ DOMAIN s = 1 .. Len(s) /\ DOMAIN t = 1 .. Len(s) + 1
           /\ t[Len(s) + 1] = x /\ \A i \in DOMAIN s : i \in DOMAIN t /\ t[i] = s[i]
OBVIOUS

LEMMA Joined ==
    ASSUME NEW s \in Seq(Steps), NEW t \in Seq(Steps)
    PROVE  /\ s \o t \in Seq(Steps) /\ Len(s \o t) = Len(s) + Len(t)
           /\ DOMAIN s = 1 .. Len(s) /\ DOMAIN t = 1 .. Len(t) /\ Len(s) \in Nat /\ Len(t) \in Nat
           /\ DOMAIN (s \o t) = 1 .. Len(s) + Len(t)
           /\ \A i \in 1 .. Len(s) : (s \o t)[i] = s[i]
           /\ \A i \in 1 .. Len(t) : (s \o t)[Len(s) + i] = t[i]
OBVIOUS

LEMMA Single ==
    ASSUME NEW x \in Steps
    PROVE  /\ <<x>> \in Seq(Steps) /\ Len(<<x>>) = 1 /\ <<x>>[1] = x
           /\ <<>> \in Seq(Steps) /\ Len(<<>>) = 0
OBVIOUS

LEMMA Pair ==
    ASSUME NEW x \in Steps, NEW y \in Steps
    PROVE  /\ <<x>> \o <<y>> \in Seq(Steps) /\ Len(<<x>> \o <<y>>) = 2
           /\ (<<x>> \o <<y>>)[1] = x /\ (<<x>> \o <<y>>)[2] = y
<1>1. <<x>> \in Seq(Steps) /\ <<y>> \in Seq(Steps) /\ Len(<<x>>) = 1 /\ Len(<<y>>) = 1
  BY Single
<1>2. <<x>>[1] = x /\ <<y>>[1] = y
  BY Single
<1>3. (<<x>> \o <<y>>)[1] = <<x>>[1] /\ (<<x>> \o <<y>>)[2] = <<y>>[1]
  BY <1>1, Joined
<1> QED
  BY <1>1, <1>2, <1>3, Joined

\* What is said once the first statement is done.
LEMMA SaysTail ==
    ASSUME NEW r, NEW q, r.script \in Seq(Steps), r.script # <<>>, q.script = Tail(r.script)
    PROVE  Says(q) \subseteq Says(r) /\ Says(r) = Says(q) \cup {Head(r.script)}
<1>1. /\ Head(r.script) = r.script[1] /\ 1 \in DOMAIN r.script
      /\ \A i \in DOMAIN q.script : i + 1 \in DOMAIN r.script /\ q.script[i] = r.script[i + 1]
      /\ \A i \in DOMAIN r.script :
           i = 1 \/ (i - 1 \in DOMAIN q.script /\ q.script[i - 1] = r.script[i])
  BY TailOf
<1>2. Says(q) \subseteq Says(r)
  BY <1>1 DEF Says
<1>3. Says(r) \subseteq Says(q) \cup {Head(r.script)}
  <2>1. ASSUME NEW i \in DOMAIN r.script
        PROVE  r.script[i] \in Says(q) \cup {Head(r.script)}
    BY <1>1, <2>1 DEF Says
  <2> QED
    BY <2>1 DEF Says
<1>4. Head(r.script) \in Says(r)
  BY <1>1 DEF Says
<1> QED
  BY <1>2, <1>3, <1>4

LEMMA OrderTail ==
    ASSUME NEW r, NEW q, r.script \in Seq(Steps), r.script # <<>>, q.script = Tail(r.script),
           q.handler = r.handler, ScriptInOrder(r)
    PROVE  /\ ScriptInOrder(q)
           /\ \A s \in Says(q) : s.do # "delete"
           /\ (\E s \in Says(q) : s.do \in Query) => Head(r.script).do \in {"touch", "check"}
<1>1. /\ Head(r.script) = r.script[1] /\ Len(q.script) = Len(r.script) - 1
      /\ DOMAIN q.script \subseteq Nat \ {0} /\ Len(r.script) \in Nat
      /\ \A i \in DOMAIN q.script : i + 1 \in DOMAIN r.script /\ q.script[i] = r.script[i + 1]
  BY TailOf
<1>2. ASSUME NEW i \in DOMAIN q.script
      PROVE  /\ q.script[i].do = "end" => i = Len(q.script)
             /\ q.script[i].do # "delete"
             /\ q.script[i].do \in Query =>
                  /\ Head(r.script).do \in {"touch", "check"}
                  /\ \A j \in 1 .. i - 1 : q.script[j].do \in {"touch", "check"}
  <2>1. i \in Nat \ {0} /\ i + 1 \in DOMAIN r.script /\ q.script[i] = r.script[i + 1]
    BY <1>1, <1>2
  <2>2. /\ r.script[i + 1].do = "end" => i + 1 = Len(r.script)
        /\ r.script[i + 1].do = "delete" => i + 1 = 1
        /\ r.script[i + 1].do \in Query => \A j \in 1 .. i : r.script[j].do \in {"touch", "check"}
    BY <2>1 DEF ScriptInOrder
  <2>3. \A j \in 1 .. i - 1 : j \in DOMAIN q.script /\ j + 1 \in 1 .. i /\ q.script[j] = r.script[j + 1]
    <3>1. q.script \in Seq(Steps) /\ DOMAIN q.script = 1 .. Len(q.script) /\ Len(q.script) \in Nat
      BY TailOf
    <3>2. \A j \in 1 .. i - 1 : j \in DOMAIN q.script /\ j + 1 \in 1 .. i
      BY <1>2, <2>1, <3>1
    <3> QED
      BY <1>1, <3>2
  <2>4. q.script[i].do \in Query => \A j \in 1 .. i - 1 : q.script[j].do \in {"touch", "check"}
    BY <2>1, <2>2, <2>3
  <2>5. q.script[i].do \in Query => Head(r.script).do \in {"touch", "check"}
    BY <1>1, <2>1, <2>2
  <2> QED
    BY <1>1, <2>1, <2>2, <2>4, <2>5
<1> QED
  BY <1>2 DEF ScriptInOrder, Says

-----------------------------------------------------------------------------
(* One statement of a request.                                              *)

\* A statement that writes the order's row, and neither queries nor settles lines.
LEMMA RowStatement ==
    ASSUME TypeOK, NEW r, NEW q, IsRequest(r), IsRequest(q), RequestInv(r),
           r.script # <<>>, q.script = Tail(r.script), Head(r.script).do \in OnRow,
           q.handler = r.handler, q.base = r.base, q.settled = r.settled,
           r.wrote \subseteq q.wrote, q.wrote # {},
           Head(r.script).do = "delete" => q.wrote = r.wrote \cup {"deleted"},
           "deleted" \in q.wrote => "deleted" \in r.wrote \/ Head(r.script).do = "delete",
           r.copy.status \in Beyond => q.copy.status \in Beyond,
           Head(r.script).do = "move" => q.copy.status = Head(r.script).arg /\ "status" \in q.wrote,
           CopyFollows(q), Earned(past \cup q.trail)
    PROVE  RequestInv(q)
<1> DEFINE now == Head(r.script)
<1>1. r.script \in Seq(Steps)
  BY DEF IsRequest, RequestOver
<1>2. Says(q) \subseteq Says(r) /\ Says(r) = Says(q) \cup {now}
  BY <1>1, SaysTail
<1>3. /\ ScriptInOrder(q)
      /\ \A s \in Says(q) : s.do # "delete"
  BY <1>1, OrderTail DEF RequestInv
<1>4. now \in Says(r) /\ now.do \notin OnLine /\ now.do \notin Query /\ now.do # "end" /\ now = r.script[1]
  BY <1>1, <1>2, TailOf DEF OnRow, OnLine, Query
<1>5. LinesOf(q) = LinesOf(r)
  BY <1>2, <1>4 DEF LinesOf
<1> HIDE DEF now
<1>6. DeletesAlone(q)
  <2>1. CASE now.do = "delete"
    BY <1>2, <1>3, <1>4, <2>1 DEF DeletesAlone, RequestInv, now
  <2>2. CASE now.do # "delete"
    BY <1>2, <1>3, <1>4, <2>2 DEF DeletesAlone, RequestInv, now
  <2> QED
    BY <2>1, <2>2
<1>7. SettlesAll(q)
  BY <1>2, <1>5 DEF SettlesAll, RequestInv
<1>8. MovesBeyond(q)
  BY <1>2, <1>4 DEF MovesBeyond, RequestInv, now
<1>9. ShipsUnderLock(q)
  BY <1>2, <1>4 DEF ShipsUnderLock, Ships, RequestInv, now
<1> QED
  BY <1>3, <1>6, <1>7, <1>8, <1>9 DEF RequestInv

-----------------------------------------------------------------------------
(* Steps that commit nothing.                                               *)

Row(r) == r.locked \/ r.wrote # {}

\* What holds of a request goes on to hold while nothing is committed.
LEMMA RequestKept ==
    ASSUME UNCHANGED orderVars, NEW v, NEW r, r = req'[v], RequestInv(r)
    PROVE  RequestInv(req[v])'
<1>1. /\ order' = order /\ lines' = lines /\ carry_away' = carry_away /\ past' = past
      /\ req[v]' = r
  BY DEF orderVars
<1>2. Says(req[v])' = Says(r) /\ LinesOf(req[v])' = LinesOf(r)
  BY <1>1 DEF Says, LinesOf
<1>3. (ScriptInOrder(req[v]) /\ CopyFollows(req[v]) /\ Earned(past \cup req[v].trail))'
  BY <1>1 DEF RequestInv, ScriptInOrder, CopyFollows, Earned
<1>4. DeletesAlone(req[v])'
  BY <1>1, <1>2 DEF RequestInv, DeletesAlone
<1>5. SettlesAll(req[v])'
  BY <1>1, <1>2 DEF RequestInv, SettlesAll
<1>6. MovesBeyond(req[v])'
  BY <1>1, <1>2 DEF RequestInv, MovesBeyond
<1>7. ShipsUnderLock(req[v])'
  BY <1>1, <1>2 DEF RequestInv, ShipsUnderLock, Ships
<1> QED
  BY <1>3, <1>4, <1>5, <1>6, <1>7 DEF RequestInv

\* One request changes, and what is committed stays.
LEMMA StepKeeps ==
    ASSUME LifecycleInv, NEW w \in Requests, NEW q, IsRequest(q),
           q # Idle => RequestInv(q),
           Row(q) => \A v \in Requests \ {w} : ~HasRow(v),
           req' = [req EXCEPT ![w] = q], UNCHANGED orderVars
    PROVE  LifecycleInv'
<1>1. /\ req'[w] = q /\ DOMAIN req' = Requests
      /\ \A v \in Requests \ {w} : req'[v] = req[v]
  BY DEF LifecycleInv, TypeOK
<1>2. TypeOK'
  <2>1. req' = [v \in Requests |-> req'[v]]
    BY DEF LifecycleInv, TypeOK
  <2>2. \A v \in Requests : IsRequest(req'[v])
    BY <1>1 DEF LifecycleInv, TypeOK
  <2> QED
    BY <2>1, <2>2 DEF LifecycleInv, TypeOK, orderVars, IsRequest
<1>3. \A v \in Requests : req'[v] # Idle => RequestInv(req'[v])
  BY <1>1 DEF LifecycleInv
<1>5. (\A v \in Requests : req[v] # Idle => RequestInv(req[v]))'
  BY <1>3, RequestKept DEF Idle
<1>6. (\A u, v \in Requests : HasRow(u) /\ HasRow(v) => u = v)'
  BY <1>1 DEF LifecycleInv, HasRow, Row
<1> QED
  BY <1>2, <1>5, <1>6 DEF LifecycleInv, EarnedInOrder, Earned, LinesTogether, orderVars

-----------------------------------------------------------------------------
(* The beginnings.                                                          *)

LEMMA IdleRequest == IsRequest(Idle)
<1>1. DOMAIN Idle.settled = {} /\ Idle.settled \in [{} -> OnLine]
  BY DEF Idle
<1>2. Idle \in RequestOver({})
  BY <1>1 DEF Idle, RequestOver, Copy, Statuses, PaymentStatuses
<1> QED
  BY <1>1, <1>2 DEF IsRequest

\* A script of a service: at most one query, and before it only what mark_shipped does;
\* a service that settles lines takes the order beyond being paid or sent.
IsService(steps) ==
    /\ steps \in Seq(Steps)
    /\ \A i \in DOMAIN steps :
         /\ steps[i].do \notin OnLine \cup {"end"}
         /\ steps[i].do = "delete" => Len(steps) = 1 /\ order.status \notin Kept
         /\ steps[i].do \in {"release", "drop"} => i = 1
         /\ steps[i].do = "check" => i = 2 /\ steps[1].do = "touch"
         /\ steps[i].do = "commit" => i = 3 /\ steps[1].do = "touch" /\ steps[2].do = "check"
         /\ steps[i].do \in ForGood =>
              \E j \in DOMAIN steps : steps[j].do = "move" /\ steps[j].arg \in Beyond

LEMMA BeginKeeps ==
    ASSUME LifecycleInv, NEW w \in Requests, NEW steps, IsService(steps), NEW q,
           \/ q = Reader(steps, <<>>)
           \/ q = [Reader(steps, <<>>) EXCEPT !.locked = TRUE] /\ \A v \in Requests : ~HasRow(v),
           req' = [req EXCEPT ![w] = q], UNCHANGED orderVars
    PROVE  LifecycleInv'
<1> DEFINE r == Reader(steps, <<>>)
           l == [r EXCEPT !.locked = TRUE]
<1>a. /\ r.script = steps \o Do("end") /\ r.handler = <<>> /\ r.base = order.status
      /\ r.copy = [status |-> order.status, payment |-> order.payment]
      /\ r.locked = FALSE /\ r.wrote = {} /\ r.trail = {} /\ r.settled = <<>>
  BY DEF Reader, Idle
<1>b. /\ l.script = r.script /\ l.handler = r.handler /\ l.base = r.base /\ l.copy = r.copy
      /\ l.locked = TRUE /\ l.wrote = r.wrote /\ l.trail = r.trail /\ l.settled = r.settled
  BY DEF Reader, Idle
<1>1. /\ q.script = steps \o Do("end") /\ q.handler = <<>> /\ q.base = order.status
      /\ q.copy = [status |-> order.status, payment |-> order.payment]
      /\ q.locked \in BOOLEAN /\ q.wrote = {} /\ q.trail = {} /\ q.settled = <<>>
      /\ DOMAIN q.settled = {}
      /\ q.locked => \A v \in Requests : ~HasRow(v)
  <2> HIDE DEF r
  <2>1. DOMAIN (<<>>) = {}
    OBVIOUS
  <2> QED
    BY <1>a, <1>b, <2>1 DEF r
<1>2. /\ q.script \in Seq(Steps) /\ Len(q.script) = Len(steps) + 1
      /\ DOMAIN steps = 1 .. Len(steps) /\ Len(steps) \in Nat
      /\ \A i \in DOMAIN steps : i \in DOMAIN q.script /\ q.script[i] = steps[i]
      /\ \A i \in DOMAIN q.script :
           i \in DOMAIN steps \/ (i = Len(steps) + 1 /\ q.script[i].do = "end")
  <2>1. [do |-> "end", arg |-> Nothing] \in Steps
    BY DEF Steps
  <2>2. steps \in Seq(Steps) /\ q.script = steps \o <<[do |-> "end", arg |-> Nothing]>>
    BY <1>1 DEF IsService, Do
  <2>3. /\ q.script \in Seq(Steps) /\ Len(q.script) = Len(steps) + 1 /\ Len(steps) \in Nat
        /\ DOMAIN steps = 1 .. Len(steps) /\ DOMAIN q.script = 1 .. Len(steps) + 1
        /\ q.script[Len(steps) + 1].do = "end"
        /\ \A i \in DOMAIN steps : i \in DOMAIN q.script /\ q.script[i] = steps[i]
    BY <2>1, <2>2, Appended
  <2> QED
    BY <2>3
<1>3. order.status \in Statuses /\ order.payment \in PaymentStatuses /\ carry_away \in BOOLEAN
  BY DEF LifecycleInv, TypeOK
<1>4. IsRequest(q)
  <2>0. Idle.settled \in [{} -> OnLine] /\ q.settled = Idle.settled
    BY <1>1 DEF Idle
  <2>1. q \in RequestOver({})
    <3>1. q.copy \in Copy
      BY <1>1, <1>3 DEF Copy
    <3>2. <<>> \in Seq(Steps)
      OBVIOUS
    <3>3. Idle \in RequestOver({})
      BY IdleRequest DEF IsRequest, Idle
    <3>4. Reader(steps, <<>>) \in RequestOver({})
      <4>1. steps \o Do("end") \in Seq(Steps) /\ [status |-> order.status, payment |-> order.payment] \in Copy
        BY <1>1, <1>2, <3>1
      <4> QED
        BY <1>3, <3>2, <3>3, <4>1 DEF RequestOver, Reader
    <3> QED
      BY <3>4 DEF RequestOver
  <2> QED
    BY <1>1, <2>1 DEF IsRequest
<1>5. ScriptInOrder(q)
  <2>1. ASSUME NEW i \in DOMAIN q.script, q.script[i].do \in Query
        PROVE  \A j \in 1 .. i - 1 : q.script[j].do \in {"touch", "check"}
    <3>1. i \in DOMAIN steps /\ steps[i].do \in Query /\ i \in Nat
      BY <1>2, <2>1 DEF Query
    <3>2. \/ i = 1
          \/ i = 3 /\ steps[1].do = "touch" /\ steps[2].do = "check"
      BY <3>1 DEF IsService, Query
    <3>3. CASE i = 3 /\ steps[1].do = "touch" /\ steps[2].do = "check"
      <4>1. 1 \in DOMAIN steps /\ 2 \in DOMAIN steps
        BY <1>2, <3>1, <3>3
      <4>2. q.script[1].do = "touch" /\ q.script[2].do = "check"
        BY <1>2, <3>3, <4>1
      <4> QED
        BY <3>3, <4>2
    <3> QED
      BY <3>2, <3>3
  <2>2. \A i \in DOMAIN q.script : q.script[i].do = "end" => i = Len(q.script)
    BY <1>2 DEF IsService
  <2>3. \A i \in DOMAIN q.script : q.script[i].do = "delete" => i = 1
    BY <1>2 DEF IsService
  <2> QED
    BY <1>1, <2>1, <2>2, <2>3 DEF ScriptInOrder
<1>6. CopyFollows(q)
  BY <1>1, <1>3, AfterSelf DEF CopyFollows, LifecycleInv, EarnedInOrder
<1>7. DeletesAlone(q)
  <2>1. ASSUME NEW i \in DOMAIN q.script, q.script[i].do = "delete"
        PROVE  q.base \notin Kept /\ \A j \in DOMAIN q.script : q.script[j].do \in {"delete", "end"}
    BY <1>1, <1>2, <2>1 DEF IsService
  <2> QED
    BY <1>1, <2>1 DEF DeletesAlone, Says
<1>8. \A s \in Says(q) : s.do \notin OnLine
  BY <1>2 DEF Says, IsService, OnLine
<1>9. SettlesAll(q)
  BY <1>1, <1>8 DEF SettlesAll, LinesOf, OnLine
<1>10. MovesBeyond(q)
  BY <1>1, <1>2, <1>8 DEF MovesBeyond, Says, IsService, ForGood
<1>11. ShipsUnderLock(q)
  <2>1. ASSUME NEW i \in DOMAIN q.script, q.script[i].do \in {"check", "commit"}
        PROVE  q.script[1].do = "touch"
    <3>1. i \in DOMAIN steps /\ steps[i].do \in {"check", "commit"} /\ 1 \in DOMAIN steps
      BY <1>2, <2>1
    <3>2. steps[1].do = "touch"
      BY <3>1 DEF IsService
    <3> QED
      BY <1>2, <3>1, <3>2
  <2>2. (\E s \in Says(q) : s.do \in {"check", "commit"}) => q.script[1].do = "touch"
    BY <2>1 DEF Says
  <2>3. \A k \in Lines : ~Ships(q, k)
    BY <1>1, <1>8 DEF Ships, OnLine
  <2> QED
    BY <2>2, <2>3 DEF ShipsUnderLock
<1>12. Earned(past \cup q.trail)
  BY <1>1 DEF LifecycleInv, EarnedInOrder
<1>13. RequestInv(q)
  BY <1>5, <1>6, <1>7, <1>9, <1>10, <1>11, <1>12 DEF RequestInv
<1> QED
  BY <1>1, <1>4, <1>13, StepKeeps DEF Row

LEMMA ServiceOfOne ==
    ASSUME NEW x \in Steps,
           x.do \notin OnLine \cup {"release", "check", "commit", "end"},
           x.do = "delete" => order.status \notin Kept
    PROVE  IsService(<<x>>)
<1>1. <<x>> \in Seq(Steps) /\ Len(<<x>>) = 1 /\ <<x>>[1] = x /\ DOMAIN <<x>> = 1 .. 1
  BY Single
<1> QED
  BY <1>1 DEF IsService, ForGood, OnLine

LEMMA ServiceOfTwo ==
    ASSUME NEW x \in Steps, NEW y \in Steps,
           x.do \notin OnLine \cup {"end", "delete", "check", "commit"},
           x.do = "release" => y.do = "move" /\ y.arg \in Beyond,
           y.do \notin OnLine \cup Query \cup {"end", "delete", "check"}
    PROVE  IsService(<<x>> \o <<y>>)
<1> DEFINE s == <<x>> \o <<y>>
<1>1. s \in Seq(Steps) /\ Len(s) = 2 /\ s[1] = x /\ s[2] = y
  BY Pair
<1>2. DOMAIN s = 1 .. 2
  BY <1>1
<1> HIDE DEF s
<1>3. IsService(s)
  BY <1>1, <1>2 DEF IsService, Query, ForGood, OnLine
<1> QED
  BY <1>3 DEF s

\* Every service that a request begins is one.
LEMMA Services ==
    ASSUME TypeOK
    PROVE  /\ IsService(<<>>)
           /\ IsService(MarkPaidSteps) /\ IsService(MarkShippedSteps)
           /\ IsService(CancelSteps) /\ IsService(MarkDeliveredSteps)
           /\ order.status \notin Kept => IsService(Do("delete"))
           /\ IsService(Do("drop"))
           /\ \A p \in PaymentStatuses : IsService(Pay(p)) /\ IsService(<<[do |-> "all", arg |-> p]>>)
           /\ \A s \in Statuses : IsService(MoveTo(s))
           /\ IsService(MarkCompletedSteps(order)) /\ IsService(MarkRefundedSteps(order))
           /\ IsService(MarkPartiallyRefundedSteps(order))
<1> DEFINE pay(p) == [do |-> "pay", arg |-> p]
           all(p) == [do |-> "all", arg |-> p]
           move(s) == [do |-> "move", arg |-> s]
           bare(d) == [do |-> d, arg |-> Nothing]
<1>1. /\ \A p \in PaymentStatuses : pay(p) \in Steps /\ all(p) \in Steps
      /\ \A s \in Statuses : move(s) \in Steps
      /\ bare("touch") \in Steps /\ bare("release") \in Steps /\ bare("drop") \in Steps
      /\ bare("check") \in Steps /\ bare("commit") \in Steps /\ bare("delete") \in Steps
  BY DEF Steps, Query
<1>2. /\ "paid" \in Statuses /\ "completed" \in Statuses /\ "shipped" \in Beyond \cap Statuses
      /\ "cancelled" \in Beyond \cap Statuses /\ "delivered" \in Statuses
      /\ "refunded" \in Statuses /\ "partially_refunded" \in Statuses
      /\ "paid" \in PaymentStatuses /\ "refunded" \in PaymentStatuses
      /\ "partially_refunded" \in PaymentStatuses
  BY DEF Statuses, PaymentStatuses, Beyond
<1>3. /\ \A p : pay(p).do = "pay" /\ all(p).do = "all"
      /\ \A s : move(s).do = "move" /\ move(s).arg = s
      /\ \A d : bare(d).do = d
  OBVIOUS
<1>4. /\ \A p : Pay(p) = <<pay(p)>>
      /\ \A s : MoveTo(s) = <<move(s)>>
      /\ \A d : Do(d) = <<bare(d)>>
  BY DEF Pay, MoveTo, Do
<1> HIDE DEF pay, all, move, bare
<1>5. IsService(<<>>) /\ IsService(<<bare("drop")>>)
  <2>1. IsService(<<>>)
    BY Single, <1>1 DEF IsService
  <2>2. IsService(<<bare("drop")>>)
    BY <1>1, <1>3, ServiceOfOne DEF OnLine
  <2> QED
    BY <2>1, <2>2
<1>6. /\ \A p \in PaymentStatuses : IsService(<<pay(p)>>) /\ IsService(<<all(p)>>)
      /\ \A s \in Statuses : IsService(<<move(s)>>)
  BY <1>1, <1>3, ServiceOfOne DEF Query, OnLine
<1>7. order.status \notin Kept => IsService(<<bare("delete")>>)
  BY <1>1, <1>3, ServiceOfOne DEF Query, OnLine
<1>8. IsService(<<bare("release")>> \o <<move("cancelled")>>)
  BY <1>1, <1>2, <1>3, ServiceOfTwo DEF Query, OnLine
<1>9. IsService(<<bare("touch")>> \o <<move("delivered")>>)
  BY <1>1, <1>2, <1>3, ServiceOfTwo DEF Query, OnLine
<1>10. /\ \A s \in Statuses, p \in PaymentStatuses : IsService(<<move(s)>> \o <<pay(p)>>)
       /\ \A s \in Statuses, p \in PaymentStatuses : IsService(<<pay(p)>> \o <<move(s)>>)
  BY <1>1, <1>3, ServiceOfTwo DEF Query, OnLine
<1>11. \A x \in Steps : <<x>> \o <<>> = <<x>>
  BY Single, SMT
<1>12. IsService(MarkCompletedSteps(order)) /\ IsService(MarkRefundedSteps(order))
       /\ IsService(MarkPartiallyRefundedSteps(order))
  BY <1>1, <1>2, <1>4, <1>6, <1>10, <1>11
     DEF MarkCompletedSteps, MarkRefundedSteps, MarkPartiallyRefundedSteps
<1>13. IsService(MarkShippedSteps)
  <2> DEFINE pair == <<bare("touch")>> \o <<bare("check")>>
             last == <<bare("commit")>> \o <<move("shipped")>>
  <2>1. /\ pair \in Seq(Steps) /\ Len(pair) = 2 /\ pair[1] = bare("touch") /\ pair[2] = bare("check")
        /\ last \in Seq(Steps) /\ Len(last) = 2 /\ last[1] = bare("commit") /\ last[2] = move("shipped")
    BY <1>1, <1>2, Pair
  <2> DEFINE s == pair \o last
  <2> HIDE DEF pair, last
  <2>2. /\ s \in Seq(Steps) /\ Len(s) = 4 /\ DOMAIN s = 1 .. 4
        /\ s[1] = bare("touch") /\ s[2] = bare("check")
        /\ s[3] = bare("commit") /\ s[4] = move("shipped")
    <3>1. /\ s \in Seq(Steps) /\ Len(s) = Len(pair) + Len(last)
          /\ DOMAIN s = 1 .. Len(pair) + Len(last)
          /\ \A i \in 1 .. Len(pair) : s[i] = pair[i]
          /\ \A i \in 1 .. Len(last) : s[Len(pair) + i] = last[i]
      <4>1. pair \in Seq(Steps) /\ last \in Seq(Steps)
        BY <2>1
      <4> QED
        BY <4>1, Joined
    <3>2. Len(pair) = 2 /\ Len(last) = 2
      BY <2>1
    <3>3. s[1] = pair[1] /\ s[2] = pair[2] /\ s[2 + 1] = last[1] /\ s[2 + 2] = last[2]
      BY <3>1, <3>2
    <3> QED
      BY <2>1, <3>1, <3>2, <3>3
  <2> HIDE DEF s
  <2>3. IsService(s)
    BY <1>2, <1>3, <2>2 DEF IsService, OnLine, ForGood
  <2>4. s = <<bare("touch")>> \o <<bare("check")>> \o <<bare("commit")>> \o <<move("shipped")>>
    <3> DEFINE x == bare("touch") y == bare("check") z == bare("commit") v == move("shipped")
    <3>1. x \in Steps /\ y \in Steps /\ z \in Steps /\ v \in Steps
      BY <1>1, <1>2
    <3>2. s = <<x>> \o <<y>> \o (<<z>> \o <<v>>)
      BY DEF s, pair, last
    <3> HIDE DEF x, y, z, v
    <3>3. <<x>> \o <<y>> \o (<<z>> \o <<v>>) = <<x>> \o <<y>> \o <<z>> \o <<v>>
      BY <3>1
    <3> QED
      BY <3>2, <3>3 DEF x, y, z, v
  <2> QED
    BY <1>4, <2>3, <2>4 DEF MarkShippedSteps
<1>14. IsService(MarkPaidSteps)
  <2> DEFINE head == <<pay("paid")>> \o <<move("paid")>>
             tail == <<bare("touch")>> \o <<move("completed")>>
  <2>1. /\ head \in Seq(Steps) /\ Len(head) = 2 /\ head[1] = pay("paid") /\ head[2] = move("paid")
        /\ tail \in Seq(Steps) /\ Len(tail) = 2 /\ tail[1] = bare("touch") /\ tail[2] = move("completed")
    BY <1>1, <1>2, Pair
  <2>2. IsService(head)
    BY <1>2, <1>10
  <2> DEFINE s == head \o tail
  <2> HIDE DEF head, tail
  <2>3. /\ s \in Seq(Steps) /\ Len(s) = 4 /\ DOMAIN s = 1 .. 4
        /\ s[1] = pay("paid") /\ s[2] = move("paid") /\ s[3] = bare("touch")
        /\ s[4] = move("completed")
    <3>1. /\ s \in Seq(Steps) /\ Len(s) = 2 + 2 /\ DOMAIN s = 1 .. 2 + 2
          /\ \A i \in 1 .. 2 : s[i] = head[i]
          /\ \A i \in 1 .. 2 : s[2 + i] = tail[i]
      <4>1. /\ s \in Seq(Steps) /\ Len(s) = Len(head) + Len(tail)
            /\ DOMAIN s = 1 .. Len(head) + Len(tail)
            /\ \A i \in 1 .. Len(head) : s[i] = head[i]
            /\ \A i \in 1 .. Len(tail) : s[Len(head) + i] = tail[i]
        <5>1. head \in Seq(Steps) /\ tail \in Seq(Steps)
          BY <2>1
        <5> QED
          BY <5>1, Joined
      <4>2. Len(head) = 2 /\ Len(tail) = 2
        BY <2>1
      <4> QED
        BY <4>1, <4>2
    <3>2. s[1] = head[1] /\ s[2] = head[2] /\ s[2 + 1] = tail[1] /\ s[2 + 2] = tail[2]
      BY <3>1
    <3> QED
      BY <2>1, <3>1, <3>2
  <2>4. head \o <<>> = head
    BY <2>1
  <2> HIDE DEF s
  <2>5. IsService(s)
    BY <1>2, <1>3, <2>3 DEF IsService, OnLine, ForGood
  <2> QED
    BY <1>4, <2>2, <2>4, <2>5 DEF MarkPaidSteps, s, head, tail
<1> QED
  BY <1>1, <1>2, <1>4, <1>5, <1>6, <1>7, <1>8, <1>9, <1>12, <1>13, <1>14
     DEF CancelSteps, MarkDeliveredSteps, all

\* The staff's release reads nothing of the order.
LEMMA ReleaseStep ==
    ASSUME NEW w \in Requests, ReleaseReservation(w)
    PROVE  /\ UNCHANGED orderVars
           /\ \E q : /\ IsRequest(q) /\ req' = [req EXCEPT ![w] = q]
                     /\ q.script = Do("drop") \o Do("end") /\ q.script \in Seq(Steps)
                     /\ Len(q.script) = 2 /\ q.script[1].do = "drop" /\ q.script[2].do = "end"
                     /\ q.handler = <<>> /\ q.base = "draft" /\ q.copy.status = "draft"
                     /\ q.locked = FALSE /\ q.wrote = {} /\ q.trail = {}
                     /\ DOMAIN q.settled = {}
<1> DEFINE drop == [do |-> "drop", arg |-> Nothing]
           end == [do |-> "end", arg |-> Nothing]
           q == [Idle EXCEPT !.script = <<drop>> \o <<end>>]
<1>1. req' = [req EXCEPT ![w] = q] /\ UNCHANGED orderVars
  <2>1. req' = [req EXCEPT ![w] = [req[w] EXCEPT !.script = <<drop>> \o <<end>>]] /\ req[w] = Idle
    BY DEF ReleaseReservation, Do
  <2> QED
    BY <2>1 DEF ReleaseReservation
<1>2. /\ q.script = <<drop>> \o <<end>> /\ q.handler = <<>> /\ q.base = "draft"
      /\ q.copy.status = "draft" /\ q.locked = FALSE /\ q.wrote = {} /\ q.trail = {}
      /\ DOMAIN q.settled = {}
  BY DEF Idle
<1>3. drop \in Steps /\ end \in Steps /\ drop.do = "drop" /\ end.do = "end"
  BY DEF Steps, Query
<1>4. /\ q.script \in Seq(Steps) /\ Len(q.script) = 2
      /\ q.script[1].do = "drop" /\ q.script[2].do = "end"
  <2> HIDE DEF q, drop, end
  <2>1. /\ q.script \in Seq(Steps) /\ Len(q.script) = 2
        /\ q.script[1] = drop /\ q.script[2] = end
    BY <1>2, <1>3, Pair
  <2> QED
    BY <1>3, <2>1
<1>5. q \in RequestOver({})
  <2>1. Idle \in RequestOver({})
    BY IdleRequest DEF IsRequest, Idle
  <2> QED
    BY <1>4, <2>1 DEF RequestOver
<1>6. q.script = Do("drop") \o Do("end")
  BY <1>2 DEF Do
<1> HIDE DEF q, drop, end
<1>7. IsRequest(q)
  BY <1>2, <1>5 DEF IsRequest
<1> QED
  BY <1>1, <1>2, <1>4, <1>6, <1>7

LEMMA ReleaseKeeps ==
    ASSUME LifecycleInv, NEW w \in Requests, ReleaseReservation(w)
    PROVE  LifecycleInv'
<1>1. UNCHANGED orderVars
  BY ReleaseStep
<1>2. PICK q : /\ IsRequest(q) /\ req' = [req EXCEPT ![w] = q]
               /\ q.script \in Seq(Steps) /\ Len(q.script) = 2
               /\ q.script[1].do = "drop" /\ q.script[2].do = "end"
               /\ q.handler = <<>> /\ q.base = "draft" /\ q.copy.status = "draft"
               /\ q.locked = FALSE /\ q.wrote = {} /\ q.trail = {}
               /\ DOMAIN q.settled = {}
  BY ReleaseStep
<1>3. DOMAIN q.script = 1 .. 2
  BY <1>2
<1>4. Says(q) = {q.script[1], q.script[2]}
  BY <1>3 DEF Says
<1>5. ScriptInOrder(q)
  <2>1. \A i \in DOMAIN q.script :
          /\ q.script[i].do = "end" => i = Len(q.script)
          /\ q.script[i].do # "delete"
          /\ q.script[i].do \in Query => i = 1
    BY <1>2, <1>3 DEF Query
  <2>2. \A i \in DOMAIN q.script :
          q.script[i].do \in Query => \A j \in 1 .. i - 1 : q.script[j].do \in {"touch", "check"}
    <3>1. \A j \in 1 .. 1 - 1 : FALSE
      OBVIOUS
    <3> QED
      BY <2>1, <3>1
  <2>3. \A i \in DOMAIN q.script : q.script[i].do = "end" => i = Len(q.script)
    BY <2>1
  <2>4. \A i \in DOMAIN q.script : q.script[i].do # "delete"
    BY <2>1
  <2> QED
    BY <1>2, <2>2, <2>3, <2>4 DEF ScriptInOrder
<1>6. CopyFollows(q)
  <2>1. "draft" \in After[carry_away]["draft"] /\ "draft" \in past
    BY AfterSelf DEF LifecycleInv, TypeOK, Statuses
  <2> QED
    BY <1>2, <2>1 DEF CopyFollows
<1>7. DeletesAlone(q)
  BY <1>2, <1>4 DEF DeletesAlone
<1>8. SettlesAll(q)
  BY <1>2, <1>4 DEF SettlesAll, LinesOf, OnLine
<1>9. MovesBeyond(q) /\ ShipsUnderLock(q)
  BY <1>2, <1>4 DEF MovesBeyond, ForGood, ShipsUnderLock, Ships
<1>10. Earned(past \cup q.trail)
  BY <1>2 DEF LifecycleInv, EarnedInOrder
<1>11. RequestInv(q)
  BY <1>5, <1>6, <1>7, <1>8, <1>9, <1>10 DEF RequestInv
<1> QED
  BY <1>1, <1>2, <1>11, StepKeeps DEF Row

LEMMA BeginsKeep ==
    ASSUME LifecycleInv, NEW w \in Requests, BeginNext(w)
    PROVE  LifecycleInv'
<1>1. TypeOK /\ order.status \in Statuses
  BY DEF LifecycleInv, TypeOK
<1> DEFINE begins(steps) ==
             /\ req' = [req EXCEPT ![w] = Reader(steps, <<>>)]
             /\ UNCHANGED orderVars
<1>2. ASSUME NEW steps, IsService(steps), begins(steps)
      PROVE  LifecycleInv'
  BY <1>2, BeginKeeps
<1>3. /\ MarkPaid(w) => begins(MarkPaidSteps)
      /\ MarkShipped(w) => begins(MarkShippedSteps)
      /\ MarkDelivered(w) => begins(MarkDeliveredSteps)
      /\ MarkCompleted(w) => begins(MarkCompletedSteps(order))
      /\ MarkRefunded(w) => begins(MarkRefundedSteps(order))
      /\ MarkPartiallyRefunded(w) => begins(MarkPartiallyRefundedSteps(order))
      /\ CancelOrder(w) => begins(CancelSteps)
      /\ HandlePaymentFailed(w) => begins(Do("drop"))
      /\ DeleteAdminOrder(w) => begins(Do("delete")) /\ order.status \notin Kept
      /\ \A s \in Statuses : TransitionOrder(w, s) => begins(MoveTo(s))
      /\ \A p \in PanelPayments : UpdateAdminOrder(w, p) => begins(<<[do |-> "all", arg |-> p]>>)
  BY DEF MarkPaid, MarkShipped, MarkDelivered, MarkCompleted, MarkRefunded, MarkPartiallyRefunded,
         CancelOrder, HandlePaymentFailed, DeleteAdminOrder, TransitionOrder, UpdateAdminOrder, Begin
<1> HIDE DEF begins
<1>4. CASE SettlePaid(w)
  <2> DEFINE steps == IF order.payment \in {"paid", "refunded", "partially_refunded"} THEN <<>>
                      ELSE IF order.status \in {"draft", "placed"} THEN MarkPaidSteps
                      ELSE Pay("paid")
  <2>1. IsService(steps)
    BY <1>1, Services DEF PaymentStatuses
  <2>2. /\ \A v \in Requests : ~HasRow(v)
        /\ req' = [req EXCEPT ![w] = [Reader(steps, <<>>) EXCEPT !.locked = TRUE]]
        /\ UNCHANGED orderVars
    BY <1>4 DEF SettlePaid, BeginLocked
  <2> HIDE DEF steps
  <2> QED
    BY <2>1, <2>2, BeginKeeps
<1> QED
  BY <1>1, <1>2, <1>3, <1>4, ReleaseKeeps, Services, PanelAssumption DEF BeginNext

-----------------------------------------------------------------------------
(* The statements.                                                          *)

LEMMA StatementArgs ==
    ASSUME NEW s \in Steps
    PROVE  /\ s.do = "pay" \/ s.do = "all" => s.arg \in PaymentStatuses
           /\ s.do = "move" => s.arg \in Statuses
           /\ s.do \in OnLine => s.arg \in Lines
BY DEF Steps, OnLine, Query

\* A busy request, and what holds of it.
LEMMA BusyRequest ==
    ASSUME LifecycleInv, NEW w \in Requests, Busy(w)
    PROVE  /\ IsRequest(req[w]) /\ RequestInv(req[w]) /\ req[w].script \in Seq(Steps)
           /\ req[w].script # <<>> /\ Now(w) \in Steps /\ Now(w) \in Says(req[w])
           /\ Now(w) = Head(req[w].script) /\ Now(w) = req[w].script[1]
           /\ req[w].copy \in Copy /\ req[w].base \in Statuses
           /\ req[w].wrote \in SUBSET Columns /\ req[w].trail \in SUBSET Statuses
           /\ req[w].locked \in BOOLEAN
           /\ DOMAIN req[w].settled \subseteq Lines
           /\ req[w].settled \in [DOMAIN req[w].settled -> OnLine]
           /\ order.status \in Statuses /\ carry_away \in BOOLEAN
<1>1. req[w] # Idle /\ IsRequest(req[w])
  BY DEF Busy, Idle, LifecycleInv, TypeOK
<1>2. /\ RequestInv(req[w]) /\ req[w].script \in Seq(Steps) /\ req[w].script # <<>>
      /\ req[w].copy \in Copy /\ req[w].base \in Statuses
      /\ req[w].wrote \in SUBSET Columns /\ req[w].trail \in SUBSET Statuses
      /\ req[w].locked \in BOOLEAN
      /\ DOMAIN req[w].settled \subseteq Lines
      /\ req[w].settled \in [DOMAIN req[w].settled -> OnLine]
      /\ order.status \in Statuses /\ carry_away \in BOOLEAN
  BY <1>1 DEF LifecycleInv, TypeOK, IsRequest, RequestOver, Busy
<1>3. Now(w) \in Steps /\ Now(w) = Head(req[w].script) /\ Now(w) = req[w].script[1]
  BY <1>2, TailOf DEF Now
<1>4. Now(w) \in Says(req[w])
  BY <1>2, <1>3, TailOf DEF Says
<1> QED
  BY <1>1, <1>2, <1>3, <1>4

\* Any statement that writes to the order's row: r is the request with what it wrote.
LEMMA RowStepKeeps ==
    ASSUME LifecycleInv, NEW w \in Requests, Busy(w), NEW r, Done(w, r), Now(w).do \in OnRow,
           r \in RequestOver(DOMAIN req[w].settled),
           r.script = req[w].script, r.handler = req[w].handler, r.base = req[w].base,
           r.settled = req[w].settled,
           req[w].wrote \subseteq r.wrote, r.wrote # {},
           Now(w).do = "delete" => r.wrote = req[w].wrote \cup {"deleted"},
           "deleted" \in r.wrote => "deleted" \in req[w].wrote \/ Now(w).do = "delete",
           req[w].copy.status \in Beyond => r.copy.status \in Beyond,
           Now(w).do = "move" => r.copy.status = Now(w).arg /\ "status" \in r.wrote,
           CopyFollows(r), Earned(past \cup r.trail)
    PROVE  LifecycleInv'
<1> DEFINE old == req[w]
           q == [r EXCEPT !.script = Tail(@)]
<1>1. /\ IsRequest(old) /\ RequestInv(old) /\ old.script \in Seq(Steps) /\ old.script # <<>>
      /\ Now(w) = Head(old.script)
  BY BusyRequest
<1>2. Tail(old.script) \in Seq(Steps)
  BY <1>1, TailOf
<1>3. /\ q.script = Tail(old.script) /\ q.handler = old.handler /\ q.base = old.base
      /\ q.settled = old.settled /\ q.wrote = r.wrote /\ q.trail = r.trail
      /\ q.copy = r.copy
  BY DEF RequestOver
<1>4. IsRequest(q)
  <2>1. q \in RequestOver(DOMAIN old.settled)
    BY <1>2, <1>3 DEF RequestOver
  <2> QED
    BY <1>1, <1>3, <2>1 DEF IsRequest
<1>5. /\ req' = [req EXCEPT ![w] = q] /\ UNCHANGED orderVars
      /\ \A v \in Requests \ {w} : ~HasRow(v)
  BY DEF Done, Unblocked, WaitsFor, Busy
<1> HIDE DEF q
<1>6. CopyFollows(q)
  BY <1>3 DEF CopyFollows
<1>7. TypeOK
  BY DEF LifecycleInv
<1>8. RequestInv(q)
  BY <1>1, <1>3, <1>4, <1>6, <1>7, RowStatement
<1> QED
  BY <1>4, <1>5, <1>8, StepKeeps

LEMMA RowStepsKeep ==
    ASSUME LifecycleInv, NEW w \in Requests,
           Pays(w) \/ Touches(w) \/ SavesAll(w) \/ Moves(w) \/ Deletes(w)
    PROVE  LifecycleInv'
<1> DEFINE old == req[w]
<1>1. Busy(w)
  BY DEF Pays, Touches, SavesAll, Moves, Deletes
<1>2. /\ IsRequest(old) /\ CopyFollows(old) /\ Earned(past \cup old.trail)
      /\ Now(w) \in Steps /\ old.copy \in Copy /\ carry_away \in BOOLEAN
      /\ old.copy.status \in Statuses /\ old.base \in Statuses
  BY <1>1, BusyRequest DEF RequestInv, Copy
<1>3. CASE Pays(w)
  <2> DEFINE r == [old EXCEPT !.copy.payment = Now(w).arg, !.wrote = @ \cup {"payment"}]
  <2>1. Done(w, r) /\ Now(w).do = "pay" /\ order.exists
    BY <1>3 DEF Pays
  <2>2. Now(w).arg \in PaymentStatuses
    BY <1>2, <2>1, StatementArgs
  <2>3. /\ r.script = old.script /\ r.handler = old.handler /\ r.base = old.base
        /\ r.settled = old.settled /\ r.trail = old.trail /\ r.copy.status = old.copy.status
        /\ r.wrote = old.wrote \cup {"payment"}
    BY <1>2 DEF IsRequest, RequestOver, Copy
  <2>4. r \in RequestOver(DOMAIN old.settled)
    BY <1>2, <2>2 DEF IsRequest, RequestOver, Copy, Columns
  <2> HIDE DEF r
  <2>5. CopyFollows(r) /\ Earned(past \cup r.trail)
    BY <1>2, <2>1, <2>3 DEF CopyFollows
  <2> QED
    BY <1>1, <2>1, <2>3, <2>4, <2>5, RowStepKeeps DEF OnRow
<1>4. CASE Touches(w)
  <2> DEFINE r == [old EXCEPT !.wrote = @ \cup {"other"}]
  <2>1. Done(w, r) /\ Now(w).do = "touch" /\ order.exists
    BY <1>4 DEF Touches
  <2>3. /\ r.script = old.script /\ r.handler = old.handler /\ r.base = old.base
        /\ r.settled = old.settled /\ r.trail = old.trail /\ r.copy.status = old.copy.status
        /\ r.wrote = old.wrote \cup {"other"}
    BY <1>2 DEF IsRequest, RequestOver, Copy
  <2>4. r \in RequestOver(DOMAIN old.settled)
    BY <1>2 DEF IsRequest, RequestOver, Columns
  <2> HIDE DEF r
  <2>5. CopyFollows(r) /\ Earned(past \cup r.trail)
    BY <1>2, <2>1, <2>3 DEF CopyFollows
  <2> QED
    BY <1>1, <2>1, <2>3, <2>4, <2>5, RowStepKeeps DEF OnRow
<1>5. CASE SavesAll(w)
  <2> DEFINE columns == {"status", "payment", "other", "row"}
             r == [old EXCEPT !.copy.payment = Now(w).arg, !.wrote = @ \cup columns]
  <2>1. Done(w, r) /\ Now(w).do = "all"
    BY <1>5 DEF SavesAll
  <2>2. Now(w).arg \in PaymentStatuses
    BY <1>2, <2>1, StatementArgs
  <2>3. /\ r.script = old.script /\ r.handler = old.handler /\ r.base = old.base
        /\ r.settled = old.settled /\ r.trail = old.trail /\ r.copy.status = old.copy.status
        /\ r.wrote = old.wrote \cup columns
    BY <1>2 DEF IsRequest, RequestOver, Copy
  <2>4. r \in RequestOver(DOMAIN old.settled)
    BY <1>2, <2>2 DEF IsRequest, RequestOver, Copy, Columns
  <2> HIDE DEF r
  <2>5. CopyFollows(r) /\ Earned(past \cup r.trail)
    BY <1>2, <2>1, <2>3 DEF CopyFollows
  <2> QED
    BY <1>1, <2>1, <2>3, <2>4, <2>5, RowStepKeeps DEF OnRow
<1>6. CASE Moves(w)
  <2> DEFINE to == Now(w).arg
             r == [old EXCEPT !.copy.status = to, !.trail = @ \cup {to}, !.wrote = @ \cup {"status"}]
  <2>1. Done(w, r) /\ Now(w).do = "move" /\ order.exists /\ CanMove(carry_away, old.copy.status, to)
    BY <1>6 DEF Moves
  <2>2. to \in Statuses
    BY <1>2, <2>1, StatementArgs
  <2>3. /\ r.script = old.script /\ r.handler = old.handler /\ r.base = old.base
        /\ r.settled = old.settled /\ r.trail = old.trail \cup {to} /\ r.copy.status = to
        /\ r.wrote = old.wrote \cup {"status"}
    BY <1>2 DEF IsRequest, RequestOver, Copy
  <2>4. r \in RequestOver(DOMAIN old.settled)
    BY <1>2, <2>2 DEF IsRequest, RequestOver, Copy, Columns
  <2>5. to \in After[carry_away][old.base]
    BY <1>2, <2>1, <2>2, AfterMove DEF CopyFollows
  <2>6. old.copy.status \in Beyond => to \in Beyond
    BY <1>2, <2>1, <2>2, BeyondClosed DEF Closed
  <2>7. Earned(past \cup old.trail \cup {to})
    <3>1. old.copy.status \in past \cup old.trail
      BY <1>2 DEF CopyFollows
    <3> QED
      BY <1>2, <2>1, <2>2, <3>1, MoveIsEarned
  <2>8. past \cup old.trail \cup {to} = past \cup r.trail
    BY <2>3
  <2> HIDE DEF r
  <2>9. CopyFollows(r) /\ Earned(past \cup r.trail)
    BY <1>2, <2>1, <2>3, <2>5, <2>7, <2>8 DEF CopyFollows
  <2> QED
    BY <1>1, <2>1, <2>3, <2>4, <2>6, <2>9, RowStepKeeps DEF OnRow
<1>7. CASE Deletes(w)
  <2> DEFINE r == [old EXCEPT !.wrote = @ \cup {"deleted"}]
  <2>1. Done(w, r) /\ Now(w).do = "delete" /\ order.exists
    BY <1>7 DEF Deletes
  <2>3. /\ r.script = old.script /\ r.handler = old.handler /\ r.base = old.base
        /\ r.settled = old.settled /\ r.trail = old.trail /\ r.copy.status = old.copy.status
        /\ r.wrote = old.wrote \cup {"deleted"}
    BY <1>2 DEF IsRequest, RequestOver, Copy
  <2>4. r \in RequestOver(DOMAIN old.settled)
    BY <1>2 DEF IsRequest, RequestOver, Columns
  <2> HIDE DEF r
  <2>5. CopyFollows(r) /\ Earned(past \cup r.trail)
    BY <1>2, <2>1, <2>3 DEF CopyFollows
  <2> QED
    BY <1>1, <2>1, <2>3, <2>4, <2>5, RowStepKeeps DEF OnRow
<1> QED
  BY <1>3, <1>4, <1>5, <1>6, <1>7

LEMMA SettlesKeeps ==
    ASSUME LifecycleInv, NEW w \in Requests, Settles(w)
    PROVE  LifecycleInv'
<1> DEFINE old == req[w]
           now == Now(w)
           settled == [k \in DOMAIN old.settled \cup {now.arg} |->
                         IF k = now.arg THEN now.do ELSE old.settled[k]]
           r == [old EXCEPT !.settled = settled]
           q == [r EXCEPT !.script = Tail(@)]
<1>1. Busy(w) /\ now.do \in OnLine /\ Done(w, r)
  BY DEF Settles
<1>2. /\ IsRequest(old) /\ RequestInv(old) /\ old.script \in Seq(Steps) /\ old.script # <<>>
      /\ now \in Steps /\ now \in Says(old) /\ now = Head(old.script)
      /\ DOMAIN old.settled \subseteq Lines
      /\ old.settled \in [DOMAIN old.settled -> OnLine]
  BY <1>1, BusyRequest
<1>3. now.arg \in Lines /\ now.do \in OnLine
  BY <1>1, <1>2, StatementArgs DEF OnLine
<1>4. req' = [req EXCEPT ![w] = q] /\ UNCHANGED orderVars
  BY <1>1 DEF Done
<1>5. /\ DOMAIN settled = DOMAIN old.settled \cup {now.arg} /\ settled[now.arg] = now.do
      /\ \A k \in DOMAIN old.settled : settled[k] = IF k = now.arg THEN now.do ELSE old.settled[k]
      /\ settled \in [DOMAIN settled -> OnLine]
  BY <1>2, <1>3
<1> HIDE DEF settled
<1>6. /\ q.script = Tail(old.script) /\ q.handler = old.handler /\ q.base = old.base
      /\ q.settled = settled /\ q.wrote = old.wrote /\ q.trail = old.trail
      /\ q.copy = old.copy /\ q.locked = old.locked
  BY <1>2 DEF IsRequest, RequestOver
<1>7. IsRequest(q)
  <2>1. r \in RequestOver(DOMAIN settled)
    BY <1>2, <1>5 DEF IsRequest, RequestOver
  <2>2. Tail(old.script) \in Seq(Steps)
    BY <1>2, TailOf
  <2>3. q \in RequestOver(DOMAIN settled)
    BY <1>6, <2>1, <2>2 DEF RequestOver
  <2> QED
    BY <1>2, <1>3, <1>5, <1>6, <2>3 DEF IsRequest
<1> HIDE DEF q, r, now
<1>8. Says(q) \subseteq Says(old) /\ Says(old) = Says(q) \cup {now}
  BY <1>2, <1>6, SaysTail
<1>9. /\ ScriptInOrder(q)
      /\ \A s \in Says(q) : s.do # "delete" /\ s.do \notin Query
  BY <1>1, <1>2, <1>6, OrderTail DEF RequestInv, OnLine, Query
<1>10. CopyFollows(q) /\ Earned(past \cup q.trail)
  BY <1>2, <1>6 DEF RequestInv, CopyFollows
<1>11. DeletesAlone(q)
  <2>1. "deleted" \notin q.wrote
    BY <1>1, <1>2, <1>6 DEF RequestInv, DeletesAlone, OnLine
  <2> QED
    BY <1>9, <2>1 DEF DeletesAlone
<1>12. LinesOf(q) = LinesOf(old)
  BY <1>1, <1>5, <1>6, <1>8 DEF LinesOf
<1>13. SettlesAll(q)
  <2>1. PICK how \in OnLine :
          /\ \A s \in Says(old) : s.do \in OnLine => s.do = how
          /\ \A k \in DOMAIN old.settled : old.settled[k] = how
    BY <1>2 DEF RequestInv, SettlesAll
  <2>2. /\ \A s \in Says(q) : s.do \in OnLine => s.do = how
        /\ \A k \in DOMAIN q.settled : q.settled[k] = how
    BY <1>1, <1>2, <1>5, <1>6, <1>8, <2>1
  <2> QED
    BY <1>2, <1>9, <1>12, <2>2 DEF RequestInv, SettlesAll
<1>14. MovesBeyond(q)
  BY <1>1, <1>2, <1>5, <1>6, <1>8 DEF RequestInv, MovesBeyond, OnLine, ForGood
<1>15. \A k \in Lines : Ships(q, k) => Ships(old, k)
  BY <1>2, <1>5, <1>6, <1>8 DEF Ships
<1>16. ShipsUnderLock(q)
  <2>1. old.script[1] = now /\ now.do # "touch"
    BY <1>1, <1>2, TailOf DEF OnLine
  <2>2. (\E s \in Says(q) : s.do \in {"check", "commit"}) => q.wrote # {}
    BY <1>2, <1>6, <1>8, <2>1 DEF RequestInv, ShipsUnderLock
  <2> QED
    BY <1>2, <1>6, <1>15, <2>2 DEF RequestInv, ShipsUnderLock
<1>17. RequestInv(q)
  BY <1>9, <1>10, <1>11, <1>13, <1>14, <1>16 DEF RequestInv
<1>18. Row(q) => \A v \in Requests \ {w} : ~HasRow(v)
  BY <1>6 DEF Row, HasRow, LifecycleInv
<1> QED
  BY <1>4, <1>7, <1>17, <1>18, StepKeeps

LEMMA ChecksKeep ==
    ASSUME LifecycleInv, NEW w \in Requests, Checks(w)
    PROVE  LifecycleInv'
<1> DEFINE old == req[w]
           q == [old EXCEPT !.script = Tail(@)]
<1>1. Busy(w) /\ Now(w).do = "check" /\ req' = [req EXCEPT ![w] = q] /\ UNCHANGED orderVars
  BY DEF Checks, Done
<1>2. /\ IsRequest(old) /\ RequestInv(old) /\ old.script \in Seq(Steps) /\ old.script # <<>>
      /\ Now(w) = Head(old.script) /\ Now(w) = old.script[1]
  BY <1>1, BusyRequest
<1>3. /\ q.script = Tail(old.script) /\ q.handler = old.handler /\ q.base = old.base
      /\ q.settled = old.settled /\ q.wrote = old.wrote /\ q.trail = old.trail
      /\ q.copy = old.copy /\ q.locked = old.locked
  BY <1>2 DEF IsRequest, RequestOver
<1>4. IsRequest(q)
  <2>1. Tail(old.script) \in Seq(Steps)
    BY <1>2, TailOf
  <2>2. q \in RequestOver(DOMAIN old.settled)
    BY <1>2, <1>3, <2>1 DEF IsRequest, RequestOver
  <2> QED
    BY <1>2, <1>3, <2>2 DEF IsRequest
<1> HIDE DEF q
<1>5. Says(q) \subseteq Says(old) /\ Says(old) = Says(q) \cup {Now(w)}
  BY <1>2, <1>3, SaysTail
<1>6. ScriptInOrder(q)
  BY <1>2, <1>3, OrderTail DEF RequestInv
<1>7. CopyFollows(q) /\ Earned(past \cup q.trail)
  BY <1>2, <1>3 DEF RequestInv, CopyFollows
<1>8. DeletesAlone(q)
  BY <1>2, <1>3, <1>5 DEF RequestInv, DeletesAlone
<1>9. LinesOf(q) = LinesOf(old)
  BY <1>1, <1>3, <1>5 DEF LinesOf, OnLine
<1>10. SettlesAll(q)
  BY <1>2, <1>3, <1>5, <1>9 DEF RequestInv, SettlesAll
<1>11. MovesBeyond(q)
  BY <1>1, <1>2, <1>3, <1>5 DEF RequestInv, MovesBeyond
<1>12. \A k \in Lines : Ships(q, k) => Ships(old, k)
  BY <1>3, <1>5 DEF Ships
<1>13. ShipsUnderLock(q)
  BY <1>1, <1>2, <1>3, <1>5, <1>12 DEF RequestInv, ShipsUnderLock
<1>14. RequestInv(q)
  BY <1>6, <1>7, <1>8, <1>10, <1>11, <1>13 DEF RequestInv
<1>15. Row(q) => \A v \in Requests \ {w} : ~HasRow(v)
  BY <1>3 DEF Row, HasRow, LifecycleInv
<1> QED
  BY <1>1, <1>4, <1>14, <1>15, StepKeeps

LEMMA EndingsKeep ==
    ASSUME LifecycleInv, NEW w \in Requests, Refused(w) \/ Dies(w) \/ BreaksDeadlock(w)
    PROVE  LifecycleInv'
<1>1. Busy(w)
  BY DEF Refused, Dies, BreaksDeadlock, InDeadlock, WaitsFor
<1>2. req[w].handler = <<>>
  BY <1>1, BusyRequest DEF RequestInv, ScriptInOrder
<1>3. req' = [req EXCEPT ![w] = Idle] /\ UNCHANGED orderVars
  BY <1>2 DEF Refused, Dies, BreaksDeadlock, RollsBack
<1>4. ~Row(Idle)
  BY DEF Row, Idle
<1> QED
  BY <1>3, <1>4, IdleRequest, StepKeeps

\* The query's statements: one for each ACTIVE line, all of them of one kind.
LEMMA QueriedSteps ==
    ASSUME NEW s \in Orders(ActiveLines), NEW how \in OnLine
    PROVE  /\ [i \in DOMAIN s |-> [do |-> how, arg |-> s[i]]] \in Seq(Steps)
           /\ {s[i] : i \in DOMAIN s} = ActiveLines
<1>1. ActiveLines \subseteq Lines
  BY DEF ActiveLines
<1>2. Cardinality(ActiveLines) \in Nat
  BY <1>1, LinesAssumption, FS_Subset, FS_CardinalityType
<1>3. /\ DOMAIN s = 1 .. Cardinality(ActiveLines)
      /\ \A i \in DOMAIN s : s[i] \in ActiveLines
      /\ \A k \in ActiveLines : \E i \in DOMAIN s : s[i] = k
  BY DEF Orders
<1>4. \A i \in DOMAIN s : [do |-> how, arg |-> s[i]] \in Steps
  BY <1>1, <1>3 DEF Steps, OnLine
<1> QED
  BY <1>2, <1>3, <1>4

LEMMA QueriesKeeps ==
    ASSUME LifecycleInv, NEW w \in Requests, Queries(w)
    PROVE  LifecycleInv'
<1> DEFINE old == req[w]
           how == Outcome(Now(w).do)
<1>1. Busy(w) /\ Now(w).do \in Query
  BY DEF Queries, Query
<1>2. /\ IsRequest(old) /\ RequestInv(old) /\ old.script \in Seq(Steps) /\ old.script # <<>>
      /\ Now(w) \in Says(old) /\ Now(w) = Head(old.script) /\ Now(w) = old.script[1]
      /\ DOMAIN old.settled \subseteq Lines
  BY <1>1, BusyRequest
<1>3. PICK s \in Orders(ActiveLines) :
        req' = [req EXCEPT ![w].script =
                  [i \in DOMAIN s |-> [do |-> how, arg |-> s[i]]] \o Tail(@)]
  BY DEF Queries
<1> DEFINE f == [i \in DOMAIN s |-> [do |-> how, arg |-> s[i]]]
           q == [old EXCEPT !.script = f \o Tail(@)]
<1>4. /\ how \in OnLine
      /\ how # "dropped" => Now(w).do \in {"release", "commit"}
      /\ how = "committed" => Now(w).do = "commit"
  BY <1>1 DEF OnLine, Query, Outcome
<1>5. /\ f \in Seq(Steps) /\ {s[i] : i \in DOMAIN s} = ActiveLines
      /\ DOMAIN f = DOMAIN s /\ \A i \in DOMAIN f : f[i].do = how /\ f[i].arg = s[i]
  BY <1>4, QueriedSteps
<1>6. req' = [req EXCEPT ![w] = q] /\ UNCHANGED orderVars
  BY <1>3 DEF Queries
<1> HIDE DEF f, how
<1>7. /\ q.script = f \o Tail(old.script) /\ q.handler = old.handler /\ q.base = old.base
      /\ q.settled = old.settled /\ q.wrote = old.wrote /\ q.trail = old.trail
      /\ q.copy = old.copy /\ q.locked = old.locked
  BY <1>2 DEF IsRequest, RequestOver
<1> DEFINE rest == Tail(old.script)
<1>8. /\ rest \in Seq(Steps) /\ Len(rest) = Len(old.script) - 1 /\ Len(old.script) \in Nat
      /\ \A i \in DOMAIN rest : i + 1 \in DOMAIN old.script /\ rest[i] = old.script[i + 1]
      /\ \A i \in DOMAIN old.script : i = 1 \/ (i - 1 \in DOMAIN rest /\ rest[i - 1] = old.script[i])
  BY <1>2, TailOf
<1> HIDE DEF rest
<1>9. /\ q.script \in Seq(Steps) /\ Len(q.script) = Len(f) + Len(rest)
      /\ DOMAIN f = 1 .. Len(f) /\ DOMAIN rest = 1 .. Len(rest) /\ Len(f) \in Nat /\ Len(rest) \in Nat
      /\ DOMAIN q.script = 1 .. Len(f) + Len(rest)
      /\ \A i \in 1 .. Len(f) : q.script[i] = f[i]
      /\ \A i \in 1 .. Len(rest) : q.script[Len(f) + i] = rest[i]
  BY <1>5, <1>7, <1>8, Joined DEF rest
<1>10. IsRequest(q)
  <2>1. q \in RequestOver(DOMAIN old.settled)
    BY <1>2, <1>7, <1>9 DEF IsRequest, RequestOver
  <2> QED
    BY <1>2, <1>7, <2>1 DEF IsRequest
<1> HIDE DEF q
\* What is said after the query, and what no statement after it is.
<1>11. \A i \in DOMAIN rest :
         /\ rest[i] \in Says(old) /\ rest[i].do \notin Query /\ rest[i].do # "delete"
         /\ rest[i].do = "end" => i = Len(rest)
         /\ rest[i].do \notin OnLine
  <2>1. LinesOf(old) = {}
    BY <1>1, <1>2 DEF RequestInv, SettlesAll
  <2>2. ASSUME NEW i \in DOMAIN rest
        PROVE  /\ rest[i] \in Says(old) /\ rest[i].do # "delete"
               /\ rest[i].do = "end" => i = Len(rest)
               /\ rest[i].do \in Query => old.script[1].do \in {"touch", "check"}
    <3>1. i \in Nat \ {0} /\ i + 1 \in DOMAIN old.script /\ rest[i] = old.script[i + 1]
      BY <1>8, <1>9, <2>2
    <3>2. /\ old.script[i + 1].do = "end" => i + 1 = Len(old.script)
          /\ old.script[i + 1].do = "delete" => i + 1 = 1
          /\ old.script[i + 1].do \in Query => old.script[1].do \in {"touch", "check"}
      BY <1>2, <3>1 DEF RequestInv, ScriptInOrder
    <3>3. rest[i] \in Says(old)
      BY <3>1 DEF Says
    <3> QED
      BY <1>8, <3>1, <3>2, <3>3
  <2>3. old.script[1].do \notin {"touch", "check"}
    BY <1>1, <1>2 DEF Query
  <2>4. \A t \in Says(old) : t.do \notin OnLine
    BY <2>1 DEF LinesOf
  <2> QED
    BY <2>2, <2>3, <2>4
<1>12. Says(q) = {f[i] : i \in DOMAIN f} \cup {rest[i] : i \in DOMAIN rest}
  <2>1. \A i \in DOMAIN q.script :
          \/ i \in DOMAIN f /\ q.script[i] = f[i]
          \/ i - Len(f) \in DOMAIN rest /\ q.script[i] = rest[i - Len(f)]
    <3> SUFFICES ASSUME NEW i \in DOMAIN q.script, i \notin DOMAIN f
                 PROVE  i - Len(f) \in DOMAIN rest /\ q.script[i] = rest[i - Len(f)]
      BY <1>9
    <3>1. i - Len(f) \in 1 .. Len(rest) /\ Len(f) + (i - Len(f)) = i
      BY <1>9
    <3> QED
      BY <1>9, <3>1
  <2>2. \A i \in DOMAIN f : i \in DOMAIN q.script /\ q.script[i] = f[i]
    BY <1>9
  <2>3. \A i \in DOMAIN rest : Len(f) + i \in DOMAIN q.script /\ q.script[Len(f) + i] = rest[i]
    BY <1>9
  <2> QED
    BY <2>1, <2>2, <2>3 DEF Says
<1>13. /\ \A t \in Says(q) : t.do # "delete" /\ t.do \notin Query
       /\ \A t \in Says(q) : t.do \in OnLine => t.do = how /\ t.arg \in ActiveLines
       /\ \A t \in Says(q) : t \in Says(old) \/ t.do = how
  BY <1>4, <1>5, <1>11, <1>12 DEF OnLine, Query
<1>14. ScriptInOrder(q)
  <2>1. ASSUME NEW i \in DOMAIN q.script
        PROVE  q.script[i].do = "end" => i = Len(q.script)
    <3>1. CASE i \in DOMAIN f
      BY <1>4, <1>5, <1>9, <3>1 DEF OnLine
    <3>2. CASE i \notin DOMAIN f
      <4>1. i - Len(f) \in 1 .. Len(rest) /\ Len(f) + (i - Len(f)) = i
        BY <1>9, <2>1, <3>2
      <4>2. q.script[i] = rest[i - Len(f)] /\ i - Len(f) \in DOMAIN rest
        BY <1>9, <4>1
      <4> QED
        BY <1>9, <1>11, <2>1, <4>1, <4>2
    <3> QED
      BY <3>1, <3>2
  <2>2. \A i \in DOMAIN q.script : q.script[i].do # "delete" /\ q.script[i].do \notin Query
    BY <1>13 DEF Says
  <2> QED
    BY <1>2, <1>7, <2>1, <2>2 DEF RequestInv, ScriptInOrder
<1>15. CopyFollows(q) /\ Earned(past \cup q.trail)
  BY <1>2, <1>7 DEF RequestInv, CopyFollows
<1>16. DeletesAlone(q)
  <2>1. "deleted" \notin q.wrote
    BY <1>1, <1>2, <1>7 DEF RequestInv, DeletesAlone, Query
  <2> QED
    BY <1>13, <2>1 DEF DeletesAlone
<1>17. LinesOf(old) = {} /\ DOMAIN old.settled = {}
  BY <1>1, <1>2 DEF RequestInv, SettlesAll, LinesOf
<1>18. LinesOf(q) = ActiveLines
  <2>1. \A t \in {f[i] : i \in DOMAIN f} : t \in Says(q) /\ t.do \in OnLine
    BY <1>4, <1>5, <1>12
  <2>2. \A k \in ActiveLines : \E t \in Says(q) : t.do \in OnLine /\ t.arg = k
    BY <1>5, <2>1
  <2> QED
    BY <1>7, <1>13, <1>17, <2>2 DEF LinesOf
<1>19. SettlesAll(q)
  <2>1. ActiveLines \in {{}, Lines}
    BY DEF LifecycleInv, LinesTogether, ActiveLines
  <2> QED
    BY <1>4, <1>7, <1>13, <1>17, <1>18, <2>1 DEF SettlesAll
<1>20. MovesBeyond(q)
  <2> SUFFICES ASSUME \E t \in Says(q) : t.do \in ForGood
               PROVE  \/ \E t \in Says(q) : t.do = "move" /\ t.arg \in Beyond
                      \/ q.copy.status \in Beyond /\ "status" \in q.wrote
    BY <1>7, <1>17 DEF MovesBeyond
  <2>0. \E t \in Says(old) : t.do \in ForGood
    BY <1>2, <1>4, <1>13 DEF ForGood
  <2>1. \/ \E t \in Says(old) : t.do = "move" /\ t.arg \in Beyond
        \/ old.copy.status \in Beyond /\ "status" \in old.wrote
    BY <1>2, <2>0 DEF RequestInv, MovesBeyond
  <2>2. ASSUME NEW t \in Says(old), t.do = "move" PROVE t \in Says(q)
    <3>1. t # Now(w)
      BY <1>1, <2>2 DEF Query
    <3>2. t \in {rest[i] : i \in DOMAIN rest}
      <4>1. PICK i \in DOMAIN old.script : t = old.script[i]
        BY <2>2 DEF Says
      <4>2. i - 1 \in DOMAIN rest /\ rest[i - 1] = t
        BY <1>2, <1>8, <3>1, <4>1
      <4> QED
        BY <4>2
    <3> QED
      BY <1>12, <3>2
  <2> QED
    BY <1>7, <2>1, <2>2
<1>21. ShipsUnderLock(q)
  <2>1. ASSUME NEW k \in Lines, Ships(q, k)
        PROVE  q.wrote # {} /\ lines[k] # "released"
    <3>1. PICK t \in Says(q) : t.do = "committed" /\ t.arg = k
      BY <1>7, <1>17, <2>1 DEF Ships
    <3>2. how = "committed" /\ k \in ActiveLines
      BY <1>13, <3>1 DEF OnLine
    <3>3. Now(w).do = "commit"
      BY <1>4, <3>2
    <3>4. q.wrote # {}
      BY <1>2, <1>7, <3>3 DEF RequestInv, ShipsUnderLock
    <3> QED
      BY <3>2, <3>4 DEF ActiveLines
  <2>2. ASSUME NEW t \in Says(q), t.do \in {"check", "commit"} PROVE q.wrote # {}
    <3>1. t \in Says(old)
      BY <1>4, <1>13, <2>2 DEF OnLine
    <3>2. old.script[1].do # "touch"
      BY <1>1, <1>2 DEF Query
    <3> QED
      BY <1>2, <1>7, <2>2, <3>1, <3>2 DEF RequestInv, ShipsUnderLock
  <2> QED
    BY <2>1, <2>2 DEF ShipsUnderLock
<1>22. RequestInv(q)
  BY <1>14, <1>15, <1>16, <1>19, <1>20, <1>21 DEF RequestInv
<1>23. Row(q) => \A v \in Requests \ {w} : ~HasRow(v)
  BY <1>7 DEF Row, HasRow, LifecycleInv
<1> QED
  BY <1>6, <1>10, <1>22, <1>23, StepKeeps

\* COMMIT is the last statement; what the transaction leaves hangs together.
LEMMA CommitLeaves ==
    ASSUME LifecycleInv, NEW w \in Requests, Commits(w)
    PROVE  /\ req' = [req EXCEPT ![w] = Idle]
           /\ DOMAIN req[w].settled \in {{}, Lines}
           /\ \E how \in OnLine : \A k \in DOMAIN req[w].settled : req[w].settled[k] = how
           /\ (\E k \in DOMAIN req[w].settled : req[w].settled[k] # "dropped") =>
                req[w].copy.status \in Beyond /\ Wrote(w, "status")
           /\ \A k \in DOMAIN req[w].settled :
                req[w].settled[k] = "committed" => lines[k] # "released"
           /\ Wrote(w, "deleted") =>
                req[w].base \notin Kept /\ req[w].wrote = {"deleted"} /\ req[w].trail = {}
           /\ req[w].trail # {} \/ Wrote(w, "row") => Wrote(w, "status")
           /\ CopyFollows(req[w]) /\ Earned(past \cup req[w].trail)
<1> DEFINE old == req[w]
<1>1. Busy(w) /\ Now(w).do = "end"
  BY DEF Commits
<1>2. /\ IsRequest(old) /\ RequestInv(old) /\ old.script \in Seq(Steps) /\ old.script # <<>>
      /\ Now(w) = old.script[1] /\ DOMAIN old.settled \subseteq Lines
  BY <1>1, BusyRequest
<1>3. Len(old.script) = 1 /\ DOMAIN old.script = {1}
  <2>1. 1 \in DOMAIN old.script /\ DOMAIN old.script = 1 .. Len(old.script)
    BY <1>2, TailOf
  <2>2. Len(old.script) = 1
    BY <1>1, <1>2, <2>1 DEF RequestInv, ScriptInOrder
  <2> QED
    BY <2>1, <2>2
<1>4. req' = [req EXCEPT ![w] = Idle]
  BY <1>3 DEF Commits
<1>5. Says(old) = {Now(w)}
  BY <1>2, <1>3 DEF Says
<1>6. LinesOf(old) = DOMAIN old.settled
  BY <1>1, <1>5 DEF LinesOf, OnLine
<1>7. /\ DOMAIN old.settled \in {{}, Lines}
      /\ \E how \in OnLine : \A k \in DOMAIN old.settled : old.settled[k] = how
  BY <1>2, <1>6 DEF RequestInv, SettlesAll
<1>8. (\E k \in DOMAIN old.settled : old.settled[k] # "dropped") =>
        old.copy.status \in Beyond /\ Wrote(w, "status")
  BY <1>1, <1>2, <1>5 DEF RequestInv, MovesBeyond, Wrote
<1>9. \A k \in DOMAIN old.settled :
        old.settled[k] = "committed" => lines[k] # "released"
  BY <1>2 DEF RequestInv, ShipsUnderLock, Ships
<1>10. CopyFollows(old) /\ Earned(past \cup old.trail) /\ DeletesAlone(old)
  BY <1>2 DEF RequestInv
<1>11. old.trail # {} \/ Wrote(w, "row") => Wrote(w, "status")
  BY <1>10 DEF CopyFollows, Wrote
<1>12. Wrote(w, "deleted") => old.base \notin Kept /\ old.wrote = {"deleted"} /\ old.trail = {}
  BY <1>10, <1>11 DEF DeletesAlone, Wrote
<1> QED
  BY <1>4, <1>7, <1>8, <1>9, <1>10, <1>11, <1>12

LEMMA CommitsKeeps ==
    ASSUME LifecycleInv, NEW w \in Requests, Commits(w)
    PROVE  LifecycleInv'
<1> DEFINE old == req[w]
<1>1. /\ req' = [req EXCEPT ![w] = Idle]
      /\ (\E k \in DOMAIN old.settled : old.settled[k] # "dropped") =>
           old.copy.status \in Beyond /\ Wrote(w, "status")
      /\ old.trail # {} \/ Wrote(w, "row") => Wrote(w, "status")
      /\ CopyFollows(old) /\ Earned(past \cup old.trail)
  BY CommitLeaves
<1>2. /\ order.status' = IF Wrote(w, "status") THEN old.copy.status ELSE order.status
      /\ order.exists' = ((order.exists \/ Wrote(w, "row")) /\ ~Wrote(w, "deleted"))
      /\ lines' = [k \in Lines |-> IF HasLine(w, k) THEN old.settled[k] ELSE lines[k]]
      /\ past' = past \cup old.trail
      /\ overtaken' = (overtaken \/ Overtakes(w))
      /\ carry_away' = carry_away
  BY DEF Commits
<1>3. /\ IsRequest(old) /\ old.copy \in Copy /\ old.copy.status \in Statuses
      /\ old.trail \in SUBSET Statuses /\ old.base \in Statuses
      /\ DOMAIN old.settled \subseteq Lines
      /\ old.settled \in [DOMAIN old.settled -> OnLine]
      /\ order.status \in Statuses /\ carry_away \in BOOLEAN
  BY BusyRequest DEF Commits, Copy
<1>4. /\ req'[w] = Idle /\ req' = [v \in Requests |-> req'[v]]
      /\ \A v \in Requests \ {w} : req'[v] = req[v]
  BY <1>1 DEF LifecycleInv, TypeOK
<1>5. TypeOK'
  <2>1. order' \in [exists : BOOLEAN, status : Statuses, payment : PaymentStatuses]
    BY <1>3 DEF Commits, LifecycleInv, TypeOK, Copy, Wrote
  <2>2. lines' \in [Lines -> OnLine \cup {"active"}]
    BY <1>2, <1>3 DEF LifecycleInv, TypeOK, HasLine
  <2>3. \A v \in Requests : IsRequest(req'[v])
    BY <1>4, IdleRequest DEF LifecycleInv, TypeOK
  <2>4. past' \in SUBSET Statuses /\ overtaken' \in BOOLEAN
    BY <1>2, <1>3 DEF LifecycleInv, TypeOK, Overtakes, Wrote
  <2> QED
    BY <1>2, <1>3, <1>4, <2>1, <2>2, <2>3, <2>4 DEF TypeOK, IsRequest
<1>6. ASSUME NEW v \in Requests, v # w, RequestInv(req[v])
      PROVE  RequestInv(req[v])'
  <2>1. req'[v] = req[v]
    BY <1>4, <1>6
  <2>2. (ScriptInOrder(req[v]) /\ DeletesAlone(req[v]) /\ SettlesAll(req[v]) /\ MovesBeyond(req[v]))'
    <3>1. Says(req[v])' = Says(req[v]) /\ LinesOf(req[v])' = LinesOf(req[v])
      BY <2>1 DEF Says, LinesOf
    <3>2. ScriptInOrder(req[v])'
      BY <1>6, <2>1 DEF RequestInv, ScriptInOrder
    <3>3. DeletesAlone(req[v])'
      BY <1>6, <2>1, <3>1 DEF RequestInv, DeletesAlone
    <3>4. SettlesAll(req[v])'
      BY <1>6, <2>1, <3>1 DEF RequestInv, SettlesAll
    <3>5. MovesBeyond(req[v])'
      BY <1>6, <2>1, <3>1 DEF RequestInv, MovesBeyond
    <3> QED
      BY <3>2, <3>3, <3>4, <3>5
  <2>3. CopyFollows(req[v])'
    <3>1. req[v].wrote # {} /\ order.exists => order.exists'
      BY <1>2, <1>6 DEF LifecycleInv, HasRow, Wrote
    <3> QED
      BY <1>2, <1>6, <2>1, <3>1 DEF RequestInv, CopyFollows
  <2>4. ShipsUnderLock(req[v])'
    <3>1. ASSUME NEW k \in Lines, Ships(req[v], k)
          PROVE  req[v].wrote # {} /\ lines'[k] # "released"
      <4>1. req[v].wrote # {} /\ lines[k] # "released"
        BY <1>6, <3>1 DEF RequestInv, ShipsUnderLock
      <4>2. old.wrote = {}
        BY <1>6, <4>1 DEF LifecycleInv, HasRow
      <4>3. HasLine(w, k) => old.settled[k] = "dropped"
        BY <1>1, <4>2 DEF HasLine, Wrote
      <4> QED
        BY <1>2, <4>1, <4>3
    <3> QED
      BY <1>6, <2>1, <3>1 DEF RequestInv, ShipsUnderLock, Ships, Says
  <2>5. Earned(past \cup old.trail \cup req[v].trail)
    <3>1. Earned(past \cup req[v].trail)
      BY <1>6 DEF RequestInv
    <3>2. Earned((past \cup old.trail) \cup (past \cup req[v].trail))
      BY <1>1, <3>1, EarnedUnion
    <3>3. (past \cup old.trail) \cup (past \cup req[v].trail) = past \cup old.trail \cup req[v].trail
      OBVIOUS
    <3> QED
      BY <3>2, <3>3
  <2>6. Earned(past \cup req[v].trail)'
    BY <1>2, <2>1, <2>5 DEF Earned
  <2> QED
    BY <2>2, <2>3, <2>4, <2>6 DEF RequestInv
<1>7. (\A v \in Requests : req[v] # Idle => RequestInv(req[v]))'
  <2>1. \A v \in Requests : req'[v] # Idle => v # w /\ RequestInv(req[v])
    BY <1>4 DEF LifecycleInv
  <2> QED
    BY <1>6, <2>1 DEF Idle
<1>8. (\A u, v \in Requests : HasRow(u) /\ HasRow(v) => u = v)'
  BY <1>4 DEF LifecycleInv, HasRow, Idle
<1>9. (EarnedInOrder /\ "draft" \in past)'
  <2>1. Earned(past)'
    BY <1>1, <1>2 DEF Earned
  <2>2. (order.status \in past)'
    BY <1>1, <1>2 DEF CopyFollows, LifecycleInv, EarnedInOrder
  <2>3. ("draft" \in past)'
    BY <1>2 DEF LifecycleInv
  <2> QED
    BY <2>1, <2>2, <2>3 DEF EarnedInOrder
<1>10. LinesTogether'
  <2>1. PICK how \in OnLine : \A k \in DOMAIN old.settled : old.settled[k] = how
    BY CommitLeaves
  <2>2. DOMAIN old.settled = {} \/ DOMAIN old.settled = Lines
    BY CommitLeaves
  <2> QED
    BY <1>2, <2>1, <2>2 DEF LifecycleInv, LinesTogether, HasLine
<1>11. (order.exists /\ ~overtaken =>
          order.status \in Beyond \/ \A k \in Lines : lines[k] \in {"active", "dropped"})'
  <2> SUFFICES ASSUME order.exists', ~overtaken', order.status' \notin Beyond
               PROVE  \A k \in Lines : lines'[k] \in {"active", "dropped"}
    OBVIOUS
  <2>1. ~overtaken /\ (Wrote(w, "status") => order.exists /\ old.base = order.status)
    BY <1>2 DEF Overtakes
  <2>2. order.exists
    BY <1>1, <1>2, <2>1
  <2>3. \A k \in Lines : lines'[k] \in {lines[k], "dropped"}
    BY <1>1, <1>2 DEF HasLine
  <2>4. order.status \notin Beyond
    BY <1>1, <1>2, <1>3, <2>1, BeyondAfter DEF CopyFollows
  <2> QED
    BY <2>1, <2>2, <2>3, <2>4 DEF LifecycleInv
<1> QED
  BY <1>5, <1>7, <1>8, <1>9, <1>10, <1>11 DEF LifecycleInv

-----------------------------------------------------------------------------
(* The invariant.                                                           *)

LEMMA LifecycleInit == Init => LifecycleInv
<1> SUFFICES ASSUME Init PROVE LifecycleInv
  OBVIOUS
<1>1. TypeOK
  <2>1. \A w \in Requests : IsRequest(req[w])
    BY IdleRequest DEF Init
  <2> QED
    BY <2>1 DEF Init, TypeOK, Statuses, PaymentStatuses
<1>2. \A w \in Requests : req[w] = Idle /\ ~HasRow(w)
  BY DEF Init, HasRow, Idle
<1> QED
  BY <1>1, <1>2 DEF Init, LifecycleInv, EarnedInOrder, Earned, LinesTogether

LEMMA LifecycleNext == LifecycleInv /\ [Next]_vars => LifecycleInv'
<1> SUFFICES ASSUME LifecycleInv, [Next]_vars PROVE LifecycleInv'
  OBVIOUS
<1>1. CASE UNCHANGED vars
  <2>1. /\ order' = order /\ lines' = lines /\ carry_away' = carry_away /\ req' = req
        /\ past' = past /\ overtaken' = overtaken
    BY <1>1 DEF vars
  <2>2. TypeOK'
    BY <2>1 DEF LifecycleInv, TypeOK, IsRequest
  <2>3. \A w \in Requests : RequestInv(req[w]) => RequestInv(req[w])'
    BY <2>1, RequestKept DEF orderVars
  <2>4. (\A w \in Requests : req[w] # Idle => RequestInv(req[w]))'
    BY <2>1, <2>3 DEF LifecycleInv, Idle
  <2>5. (\A v, w \in Requests : HasRow(v) /\ HasRow(w) => v = w)'
    BY <2>1 DEF LifecycleInv, HasRow
  <2> QED
    BY <2>1, <2>2, <2>4, <2>5 DEF LifecycleInv, EarnedInOrder, Earned, LinesTogether
<1>2. CASE Next
  <2>1. PICK w \in Requests : BeginNext(w) \/ Proceeds(w) \/ Dies(w) \/ BreaksDeadlock(w)
    BY <1>2 DEF Next
  <2>2. CASE BeginNext(w)
    BY <2>2, BeginsKeep
  <2>3. CASE Pays(w) \/ Touches(w) \/ SavesAll(w) \/ Moves(w) \/ Deletes(w)
    BY <2>3, RowStepsKeep
  <2>4. CASE Queries(w)
    BY <2>4, QueriesKeeps
  <2>5. CASE Settles(w)
    BY <2>5, SettlesKeeps
  <2>6. CASE Commits(w)
    BY <2>6, CommitsKeeps
  <2>7. CASE Refused(w) \/ Dies(w) \/ BreaksDeadlock(w)
    BY <2>7, EndingsKeep
  <2>8. CASE Checks(w)
    BY <2>8, ChecksKeep
  <2> QED
    BY <2>1, <2>2, <2>3, <2>4, <2>5, <2>6, <2>7, <2>8 DEF Proceeds
<1> QED
  BY <1>1, <1>2

\* Requests that race for one order, each a list of statements of one transaction, keep
\* the order, its stock and one another's locks as LifecycleInv says, the requests that
\* release its stock and leave the order alone included.
THEOREM LifecycleInvariance == Spec => []LifecycleInv
BY LifecycleInit, LifecycleNext, PTL DEF Spec

\* Types: every request that is under way is a script of well-formed statements.
THEOREM LifecycleTypeCorrect == Spec => []TypeOK
<1>1. LifecycleInv => TypeOK
  BY DEF LifecycleInv
<1> QED
  BY <1>1, LifecycleInvariance, PTL

\* The reservations of an order's lines are settled all or none, whatever fails or
\* races between two of them.
THEOREM LinesSettledTogether == Spec => []LinesTogether
<1>1. LifecycleInv => LinesTogether
  BY DEF LifecycleInv
<1> QED
  BY <1>1, LifecycleInvariance, PTL

\* The stock of an order that is to be paid or sent is held for it, or was dropped by a
\* failed payment or by the staff's own release, until a request overtakes another.
THEOREM StockHeld == Spec => []HeldUntilShipped
<1>1. LifecycleInv => HeldUntilShipped
  BY DEF LifecycleInv, HeldUntilShipped, Beyond
<1> QED
  BY <1>1, LifecycleInvariance, PTL

\* An order has been in every status that has to come before the one it is in, for
\* any number of racing requests.
THEOREM StatusesEarned == Spec => []EarnedInOrder
<1>1. LifecycleInv => EarnedInOrder
  BY DEF LifecycleInv
<1> QED
  BY <1>1, LifecycleInvariance, PTL

-----------------------------------------------------------------------------
(* What steps do to the order.                                              *)

LEMMA OnlyCommitsShow ==
    ASSUME Next
    PROVE  UNCHANGED orderVars \/ \E w \in Requests : Commits(w)
<1>1. PICK w \in Requests : BeginNext(w) \/ Proceeds(w) \/ Dies(w) \/ BreaksDeadlock(w)
  BY DEF Next
<1>2. BeginNext(w) => UNCHANGED orderVars
  BY DEF BeginNext, MarkPaid, SettlePaid, MarkShipped, MarkDelivered, MarkCompleted, MarkRefunded,
         MarkPartiallyRefunded, CancelOrder, DeleteAdminOrder, ReleaseReservation,
         HandlePaymentFailed, TransitionOrder, UpdateAdminOrder, Begin, BeginLocked
<1>3. Dies(w) \/ BreaksDeadlock(w) \/ Refused(w) => UNCHANGED orderVars
  BY DEF Dies, BreaksDeadlock, Refused, RollsBack
<1>4. Pays(w) \/ Touches(w) \/ SavesAll(w) \/ Moves(w) \/ Deletes(w) \/ Checks(w)
        \/ Settles(w) \/ Queries(w) => UNCHANGED orderVars
  BY DEF Pays, Touches, SavesAll, Moves, Deletes, Checks, Settles, Queries, Done
<1> QED
  BY <1>1, <1>2, <1>3, <1>4 DEF Proceeds

\* What a cancellation has freed is never shipped, in every race between shipments,
\* cancellations, failed payments and the staff's releases.
THEOREM HeldWhenShipped == Spec => ShipsHeldStock
<1> DEFINE held == \A k \in Lines : lines'[k] = "committed" => lines[k] # "released"
<1>1. ASSUME LifecycleInv, [Next]_vars PROVE held
  <2>1. CASE UNCHANGED lines
    BY <2>1
  <2>2. ASSUME NEW w \in Requests, Commits(w) PROVE held
    <3>1. lines' = [k \in Lines |-> IF HasLine(w, k) THEN req[w].settled[k] ELSE lines[k]]
      BY <2>2 DEF Commits
    <3>2. \A k \in DOMAIN req[w].settled :
            req[w].settled[k] = "committed" => lines[k] # "released"
      BY <1>1, <2>2, CommitLeaves
    <3> QED
      BY <3>1, <3>2 DEF HasLine
  <2>3. UNCHANGED lines \/ \E w \in Requests : Commits(w)
    BY <1>1, OnlyCommitsShow DEF vars, orderVars
  <2> QED
    BY <2>1, <2>2, <2>3
<1> QED
  BY <1>1, LifecycleInvariance, PTL DEF Spec, ShipsHeldStock

LEMMA PromiseInit == Init => Promise!Init
BY DEF Init, Promise!Init

\* A transaction that commits moves the order on, deletes it, or overtakes another.
LEMMA PromiseCommit ==
    ASSUME LifecycleInv, NEW w \in Requests, Commits(w)
    PROVE  Promise!Next \/ UNCHANGED Promise!vars
<1> DEFINE old == req[w]
           st == IF order.exists THEN order.status ELSE Nothing
<1>1. /\ order.status' = IF Wrote(w, "status") THEN old.copy.status ELSE order.status
      /\ order.exists' = ((order.exists \/ Wrote(w, "row")) /\ ~Wrote(w, "deleted"))
      /\ past' = past \cup old.trail
      /\ overtaken' = (overtaken \/ Overtakes(w))
      /\ carry_away' = carry_away
  BY DEF Commits
<1>2. /\ old.trail \in SUBSET Statuses /\ old.base \in Statuses /\ order.status \in Statuses
      /\ past \in SUBSET Statuses /\ overtaken \in BOOLEAN /\ order.status # Nothing
  BY BusyRequest, NothingAssumption DEF Commits, LifecycleInv, TypeOK
<1>3. /\ Wrote(w, "deleted") => old.base \notin Kept /\ old.wrote = {"deleted"} /\ old.trail = {}
      /\ old.trail # {} \/ Wrote(w, "row") => Wrote(w, "status")
      /\ Wrote(w, "status") => order.exists \/ Wrote(w, "row")
      /\ old.base \in past /\ old.copy.status \in After[carry_away][old.base]
      /\ old.trail \subseteq After[carry_away][old.base]
  <2>1. CopyFollows(old)
    BY CommitLeaves
  <2> QED
    BY <2>1, CommitLeaves DEF CopyFollows, Wrote
<1>4. CASE Wrote(w, "deleted")
  <2>1. st' = Nothing /\ past' = past /\ old.base \notin Kept
    BY <1>1, <1>3, <1>4
  <2>2. CASE order.exists /\ old.base = order.status
    <3>1. overtaken' = overtaken
      BY <1>1, <1>2, <2>2 DEF Overtakes
    <3> QED
      BY <1>1, <1>2, <2>1, <2>2, <3>1 DEF Promise!Next, Promise!Delete
  <2>3. CASE ~(order.exists /\ old.base = order.status)
    <3>1. overtaken' = TRUE
      BY <1>1, <1>4, <2>3 DEF Overtakes
    <3> QED
      BY <1>1, <1>3, <2>1, <3>1 DEF Promise!Next, Promise!Overtake
  <2> QED
    BY <2>2, <2>3
<1>5. CASE Wrote(w, "status") /\ ~Wrote(w, "deleted")
  <2>1. st' = old.copy.status
    BY <1>1, <1>3, <1>5
  <2>2. past' \in SUBSET Statuses /\ past \subseteq past' /\ past' \ past \subseteq After[carry_away][old.base]
    BY <1>1, <1>2, <1>3
  <2>3. CASE order.exists /\ old.base = order.status
    <3>1. overtaken' = overtaken
      BY <1>1, <1>2, <1>5, <2>3 DEF Overtakes
    <3> QED
      BY <1>1, <1>2, <1>3, <2>1, <2>2, <2>3, <3>1 DEF Promise!Next, Promise!Advance, Promise!Follows
  <2>4. CASE ~(order.exists /\ old.base = order.status)
    <3>1. overtaken' = TRUE
      BY <1>1, <1>5, <2>4 DEF Overtakes
    <3> QED
      BY <1>1, <1>3, <2>1, <2>2, <3>1 DEF Promise!Next, Promise!Overtake, Promise!Follows
  <2> QED
    BY <2>3, <2>4
<1>6. CASE ~Wrote(w, "status") /\ ~Wrote(w, "deleted")
  <2>1. past' = past /\ st' = st
    BY <1>1, <1>3, <1>6
  <2>2. overtaken' = overtaken
    BY <1>1, <1>2, <1>6 DEF Overtakes
  <2> QED
    BY <1>1, <2>1, <2>2 DEF Promise!vars
<1> QED
  BY <1>4, <1>5, <1>6

LEMMA PromiseNext == LifecycleInv /\ [Next]_vars => [Promise!Next]_(Promise!vars)
<1> SUFFICES ASSUME LifecycleInv, [Next]_vars PROVE Promise!Next \/ UNCHANGED Promise!vars
  OBVIOUS
<1>1. CASE UNCHANGED orderVars
  BY <1>1 DEF orderVars, Promise!vars
<1>2. CASE \E w \in Requests : Commits(w)
  BY <1>2, PromiseCommit
<1> QED
  BY <1>1, <1>2, OnlyCommitsShow DEF vars, orderVars

\* The services, run by any number of racing requests, implement OrderSpec: an
\* order moves along its state machine, and what a request that was overtaken
\* writes still follows from a status the order has had.
THEOREM Implementation == Spec => KeepsPromise
BY PromiseInit, PromiseNext, LifecycleInvariance, PTL DEF Spec, KeepsPromise, Promise!Spec

-----------------------------------------------------------------------------
(* A request's steps, whatever its script is: what the modules that compose *)
(* the order with other tasks build on.                                     *)

LEMMA TypedRequest ==
    ASSUME TypeOK, NEW w \in Requests
    PROVE  /\ IsRequest(req[w]) /\ req[w].script \in Seq(Steps) /\ req[w].handler \in Seq(Steps)
           /\ req[w].copy \in Copy /\ req[w].base \in Statuses /\ req[w].locked \in BOOLEAN
           /\ req[w].wrote \in SUBSET Columns /\ req[w].trail \in SUBSET Statuses
           /\ DOMAIN req[w].settled \subseteq Lines
           /\ req[w].settled \in [DOMAIN req[w].settled -> OnLine]
           /\ req[w] \in RequestOver(DOMAIN req[w].settled)
BY DEF TypeOK, IsRequest, RequestOver

LEMMA TypeKept ==
    ASSUME TypeOK, NEW w \in Requests, NEW q, IsRequest(q), req' = [req EXCEPT ![w] = q],
           UNCHANGED orderVars
    PROVE  TypeOK' /\ req'[w] = q /\ \A v \in Requests \ {w} : req'[v] = req[v]
<1>1. /\ req'[w] = q /\ DOMAIN req' = Requests
      /\ \A v \in Requests \ {w} : req'[v] = req[v]
  BY DEF TypeOK
<1>2. req' = [v \in Requests |-> req'[v]]
  BY DEF TypeOK
<1>3. \A v \in Requests : IsRequest(req'[v])
  BY <1>1 DEF TypeOK
<1> QED
  BY <1>1, <1>2, <1>3 DEF TypeOK, orderVars, IsRequest

\* Request q has begun: its copy is the row.
Begun(w, steps, handler, q) ==
    /\ IsRequest(q) /\ req' = [req EXCEPT ![w] = q]
    /\ q.script = steps \o Do("end") /\ q.handler = handler
    /\ q.base = order.status
    /\ q.copy = [status |-> order.status, payment |-> order.payment]
    /\ q.wrote = {} /\ q.trail = {} /\ q.settled = <<>>
    /\ BeginLocked(w, steps, handler) => q.locked
    /\ ~BeginLocked(w, steps, handler) => ~q.locked
    /\ q.script \in Seq(Steps) /\ q # Idle

LEMMA BeginStep ==
    ASSUME TypeOK, NEW w \in Requests, NEW steps \in Seq(Steps), NEW handler \in Seq(Steps),
           Begin(w, steps, handler) \/ BeginLocked(w, steps, handler)
    PROVE  UNCHANGED orderVars /\ \E q : Begun(w, steps, handler, q)
<1> DEFINE r == Reader(steps, handler)
           l == [r EXCEPT !.locked = TRUE]
<1>1. /\ r.script = steps \o Do("end") /\ r.handler = handler /\ r.base = order.status
      /\ r.copy = [status |-> order.status, payment |-> order.payment]
      /\ r.locked = FALSE /\ r.wrote = {} /\ r.trail = {} /\ r.settled = <<>>
  BY DEF Reader, Idle
<1>2. /\ l.script = r.script /\ l.handler = r.handler /\ l.base = r.base /\ l.copy = r.copy
      /\ l.locked = TRUE /\ l.wrote = r.wrote /\ l.trail = r.trail /\ l.settled = r.settled
  BY DEF Reader, Idle
<1>3. [do |-> "end", arg |-> Nothing] \in Steps
  BY DEF Steps
<1>4. r.script \in Seq(Steps) /\ Len(r.script) = Len(steps) + 1 /\ Len(steps) \in Nat
  <2>1. r.script = steps \o <<[do |-> "end", arg |-> Nothing]>>
    BY <1>1 DEF Do
  <2> HIDE DEF r
  <2> QED
    BY <1>3, <2>1, Appended
<1>5. r \in RequestOver({}) /\ l \in RequestOver({})
  <2>1. /\ r.copy \in Copy /\ order.status \in Statuses
    BY <1>1 DEF TypeOK, Copy
  <2>2. Idle \in RequestOver({})
    <3>1. DOMAIN Idle.settled = {}
      BY DEF Idle
    <3> QED
      BY <3>1, IdleRequest DEF IsRequest
  <2>3. r \in RequestOver({})
    BY <1>1, <1>4, <2>1, <2>2 DEF RequestOver, Reader
  <2> QED
    BY <2>3 DEF RequestOver
<1>6. DOMAIN r.settled = {} /\ DOMAIN l.settled = {}
  BY <1>1, <1>2
<1>7. IsRequest(r) /\ IsRequest(l)
  BY <1>5, <1>6 DEF IsRequest
<1>8. r # Idle /\ l # Idle
  <2>1. Len(Idle.script) = 0
    BY DEF Idle
  <2> HIDE DEF r, l
  <2> QED
    BY <1>2, <1>4, <2>1
<1>9. CASE BeginLocked(w, steps, handler)
  <2>1. req' = [req EXCEPT ![w] = l] /\ UNCHANGED orderVars
    BY <1>9 DEF BeginLocked
  <2> HIDE DEF r, l
  <2> QED
    BY <1>1, <1>2, <1>4, <1>7, <1>8, <1>9, <2>1 DEF Begun
<1>10. CASE ~BeginLocked(w, steps, handler)
  <2>1. req' = [req EXCEPT ![w] = r] /\ UNCHANGED orderVars
    BY <1>10 DEF Begin
  <2> HIDE DEF r, l
  <2> QED
    BY <1>1, <1>2, <1>4, <1>7, <1>8, <1>10, <2>1 DEF Begun
<1> QED
  BY <1>9, <1>10

\* A statement that has been worked off: r is the request with what it did.
LEMMA DoneStep ==
    ASSUME TypeOK, NEW w \in Requests, NEW r, Done(w, r), IsRequest(r),
           r.script = req[w].script
    PROVE  \E q : /\ IsRequest(q) /\ req' = [req EXCEPT ![w] = q] /\ UNCHANGED orderVars
                  /\ q.script = Tail(req[w].script) /\ q.script \in Seq(Steps)
                  /\ q.handler = r.handler /\ q.base = r.base /\ q.locked = r.locked
                  /\ q.copy = r.copy /\ q.wrote = r.wrote /\ q.trail = r.trail
                  /\ q.settled = r.settled
<1> DEFINE q == [r EXCEPT !.script = Tail(@)]
<1>1. req' = [req EXCEPT ![w] = q] /\ UNCHANGED orderVars /\ Busy(w)
  BY DEF Done
<1>2. r \in RequestOver(DOMAIN r.settled) /\ DOMAIN r.settled \subseteq Lines
  BY DEF IsRequest
<1>3. Tail(req[w].script) \in Seq(Steps)
  BY <1>1, TypedRequest, TailOf DEF Busy
<1>4. /\ q.script = Tail(req[w].script)
      /\ q.handler = r.handler /\ q.base = r.base /\ q.locked = r.locked
      /\ q.copy = r.copy /\ q.wrote = r.wrote /\ q.trail = r.trail
      /\ q.settled = r.settled
  BY <1>2 DEF RequestOver
<1>5. q \in RequestOver(DOMAIN r.settled)
  BY <1>2, <1>3, <1>4 DEF RequestOver
<1>6. IsRequest(q)
  BY <1>2, <1>4, <1>5 DEF IsRequest
<1> HIDE DEF q
<1> QED
  BY <1>1, <1>3, <1>4, <1>6

\* What each statement does to its request.
LEMMA StatementStep ==
    ASSUME TypeOK, NEW w \in Requests,
           Pays(w) \/ Touches(w) \/ SavesAll(w) \/ Moves(w) \/ Deletes(w) \/ Settles(w)
    PROVE  /\ UNCHANGED orderVars /\ Busy(w) /\ Now(w) \in Steps
           /\ Now(w).do \in OnRow => \A v \in Requests \ {w} : ~HasRow(v)
           /\ Now(w).do \in OnRow \cup OnLine
           /\ \E q : /\ IsRequest(q) /\ req' = [req EXCEPT ![w] = q]
                     /\ q.script = Tail(req[w].script) /\ q.script \in Seq(Steps)
                     /\ q.handler = req[w].handler /\ q.base = req[w].base
                     /\ q.locked = req[w].locked
                     /\ IF Now(w).do \in OnRow THEN q.wrote # {} /\ req[w].wrote \subseteq q.wrote
                        ELSE q.wrote = req[w].wrote
                     /\ "payment" \in q.wrote => "payment" \in req[w].wrote \/ Now(w).do \in {"pay", "all"}
                     /\ "status" \in q.wrote => "status" \in req[w].wrote \/ Now(w).do \in {"move", "all"}
                     /\ IF Now(w).do = "move"
                        THEN q.copy.status = Now(w).arg /\ q.trail = req[w].trail \cup {Now(w).arg}
                        ELSE q.copy.status = req[w].copy.status /\ q.trail = req[w].trail
                     /\ IF Now(w).do \in OnLine
                        THEN DOMAIN q.settled = DOMAIN req[w].settled \cup {Now(w).arg}
                        ELSE q.settled = req[w].settled
<1> DEFINE old == req[w]
<1>1. Busy(w)
  BY DEF Pays, Touches, SavesAll, Moves, Deletes, Settles
<1>2. /\ IsRequest(old) /\ old \in RequestOver(DOMAIN old.settled) /\ DOMAIN old.settled \subseteq Lines
      /\ old.script \in Seq(Steps) /\ old.copy \in Copy /\ old.wrote \in SUBSET Columns
      /\ old.trail \in SUBSET Statuses
      /\ old.settled \in [DOMAIN old.settled -> OnLine]
  BY TypedRequest
<1>3. Now(w) \in Steps
  BY <1>1, <1>2, TailOf DEF Now, Busy
<1>4. /\ Now(w).do = "pay" \/ Now(w).do = "all" => Now(w).arg \in PaymentStatuses
      /\ Now(w).do = "move" => Now(w).arg \in Statuses
      /\ Now(w).do \in OnLine => Now(w).arg \in Lines
  BY <1>3, StatementArgs
<1> DEFINE did(r) ==
             /\ IsRequest(r) /\ r.script = old.script /\ r.handler = old.handler
             /\ r.base = old.base /\ r.locked = old.locked
             /\ IF Now(w).do \in OnRow THEN r.wrote # {} /\ old.wrote \subseteq r.wrote
                ELSE r.wrote = old.wrote
             /\ "payment" \in r.wrote => "payment" \in old.wrote \/ Now(w).do \in {"pay", "all"}
             /\ "status" \in r.wrote => "status" \in old.wrote \/ Now(w).do \in {"move", "all"}
             /\ IF Now(w).do = "move"
                THEN r.copy.status = Now(w).arg /\ r.trail = old.trail \cup {Now(w).arg}
                ELSE r.copy.status = old.copy.status /\ r.trail = old.trail
             /\ IF Now(w).do \in OnLine
                THEN DOMAIN r.settled = DOMAIN old.settled \cup {Now(w).arg}
                ELSE r.settled = old.settled
<1>5. \E r : Done(w, r) /\ did(r) /\ Now(w).do \in OnRow \cup OnLine
  <2>1. CASE Pays(w)
    <3> DEFINE r == [old EXCEPT !.copy.payment = Now(w).arg, !.wrote = @ \cup {"payment"}]
    <3>1. Done(w, r) /\ Now(w).do = "pay"
      BY <2>1 DEF Pays
    <3>2. /\ r.script = old.script /\ r.handler = old.handler /\ r.base = old.base
          /\ r.locked = old.locked /\ r.settled = old.settled /\ r.trail = old.trail
          /\ r.copy.status = old.copy.status /\ r.wrote = old.wrote \cup {"payment"}
      BY <1>2 DEF RequestOver, Copy
    <3>3. r \in RequestOver(DOMAIN old.settled)
      BY <1>2, <1>4, <3>1 DEF RequestOver, Copy, Columns
    <3> HIDE DEF r
    <3>4. did(r)
      BY <1>2, <3>1, <3>2, <3>3 DEF OnRow, OnLine, IsRequest
    <3> QED
      BY <3>1, <3>4 DEF OnRow
  <2>2. CASE Touches(w)
    <3> DEFINE r == [old EXCEPT !.wrote = @ \cup {"other"}]
    <3>1. Done(w, r) /\ Now(w).do = "touch"
      BY <2>2 DEF Touches
    <3>2. /\ r.script = old.script /\ r.handler = old.handler /\ r.base = old.base
          /\ r.locked = old.locked /\ r.settled = old.settled /\ r.trail = old.trail
          /\ r.copy = old.copy /\ r.wrote = old.wrote \cup {"other"}
      BY <1>2 DEF RequestOver
    <3>3. r \in RequestOver(DOMAIN old.settled)
      BY <1>2 DEF RequestOver, Columns
    <3> HIDE DEF r
    <3>4. did(r)
      BY <1>2, <3>1, <3>2, <3>3 DEF OnRow, OnLine, IsRequest
    <3> QED
      BY <3>1, <3>4 DEF OnRow
  <2>3. CASE SavesAll(w)
    <3> DEFINE r == [old EXCEPT !.copy.payment = Now(w).arg,
                                !.wrote = @ \cup {"status", "payment", "other", "row"}]
    <3>1. Done(w, r) /\ Now(w).do = "all"
      BY <2>3 DEF SavesAll
    <3>2. /\ r.script = old.script /\ r.handler = old.handler /\ r.base = old.base
          /\ r.locked = old.locked /\ r.settled = old.settled /\ r.trail = old.trail
          /\ r.copy.status = old.copy.status
          /\ r.wrote = old.wrote \cup {"status", "payment", "other", "row"}
      BY <1>2 DEF RequestOver, Copy
    <3>3. r \in RequestOver(DOMAIN old.settled)
      BY <1>2, <1>4, <3>1 DEF RequestOver, Copy, Columns
    <3> HIDE DEF r
    <3>4. did(r)
      BY <1>2, <3>1, <3>2, <3>3 DEF OnRow, OnLine, IsRequest
    <3> QED
      BY <3>1, <3>4 DEF OnRow
  <2>4. CASE Moves(w)
    <3> DEFINE to == Now(w).arg
               r == [old EXCEPT !.copy.status = to, !.trail = @ \cup {to}, !.wrote = @ \cup {"status"}]
    <3>1. Done(w, r) /\ Now(w).do = "move"
      BY <2>4 DEF Moves
    <3>2. /\ r.script = old.script /\ r.handler = old.handler /\ r.base = old.base
          /\ r.locked = old.locked /\ r.settled = old.settled /\ r.trail = old.trail \cup {to}
          /\ r.copy.status = to /\ r.wrote = old.wrote \cup {"status"}
      BY <1>2 DEF RequestOver, Copy
    <3>3. r \in RequestOver(DOMAIN old.settled)
      BY <1>2, <1>4, <3>1 DEF RequestOver, Copy, Columns
    <3> HIDE DEF r
    <3>4. did(r)
      BY <1>2, <3>1, <3>2, <3>3 DEF OnRow, OnLine, IsRequest
    <3> QED
      BY <3>1, <3>4 DEF OnRow
  <2>5. CASE Deletes(w)
    <3> DEFINE r == [old EXCEPT !.wrote = @ \cup {"deleted"}]
    <3>1. Done(w, r) /\ Now(w).do = "delete"
      BY <2>5 DEF Deletes
    <3>2. /\ r.script = old.script /\ r.handler = old.handler /\ r.base = old.base
          /\ r.locked = old.locked /\ r.settled = old.settled /\ r.trail = old.trail
          /\ r.copy = old.copy /\ r.wrote = old.wrote \cup {"deleted"}
      BY <1>2 DEF RequestOver
    <3>3. r \in RequestOver(DOMAIN old.settled)
      BY <1>2 DEF RequestOver, Columns
    <3> HIDE DEF r
    <3>4. did(r)
      BY <1>2, <3>1, <3>2, <3>3 DEF OnRow, OnLine, IsRequest
    <3> QED
      BY <3>1, <3>4 DEF OnRow
  <2>6. CASE Settles(w)
    <3> DEFINE settled == [k \in DOMAIN old.settled \cup {Now(w).arg} |->
                             IF k = Now(w).arg THEN Now(w).do ELSE old.settled[k]]
               r == [old EXCEPT !.settled = settled]
    <3>1. Done(w, r) /\ Now(w).do \in OnLine
      BY <2>6 DEF Settles
    <3>2. /\ DOMAIN settled = DOMAIN old.settled \cup {Now(w).arg}
          /\ settled \in [DOMAIN settled -> OnLine]
      BY <1>2, <3>1 DEF OnLine
    <3> HIDE DEF settled
    <3>3. /\ r.script = old.script /\ r.handler = old.handler /\ r.base = old.base
          /\ r.locked = old.locked /\ r.settled = settled /\ r.trail = old.trail
          /\ r.copy = old.copy /\ r.wrote = old.wrote
      BY <1>2 DEF RequestOver
    <3>4. r \in RequestOver(DOMAIN settled)
      BY <1>2, <3>2 DEF RequestOver
    <3> HIDE DEF r
    <3>5. IsRequest(r)
      BY <1>2, <1>4, <3>1, <3>2, <3>3, <3>4 DEF IsRequest
    <3>6. did(r)
      BY <1>2, <3>1, <3>2, <3>3, <3>5 DEF OnRow, OnLine
    <3> QED
      BY <3>1, <3>6
  <2> QED
    BY <2>1, <2>2, <2>3, <2>4, <2>5, <2>6
<1>6. PICK r : Done(w, r) /\ did(r) /\ Now(w).do \in OnRow \cup OnLine
  BY <1>5
<1>7. /\ UNCHANGED orderVars
      /\ Now(w).do \in OnRow => \A v \in Requests \ {w} : ~HasRow(v)
  BY <1>6 DEF Done, Unblocked, WaitsFor, Busy
<1>8. PICK q : /\ IsRequest(q) /\ req' = [req EXCEPT ![w] = q]
               /\ q.script = Tail(req[w].script) /\ q.script \in Seq(Steps)
               /\ q.handler = r.handler /\ q.base = r.base /\ q.locked = r.locked
               /\ q.copy = r.copy /\ q.wrote = r.wrote /\ q.trail = r.trail
               /\ q.settled = r.settled
  BY <1>6, DoneStep
<1> QED
  BY <1>1, <1>3, <1>6, <1>7, <1>8

\* exists() writes nothing.
LEMMA CheckStep ==
    ASSUME TypeOK, NEW w \in Requests, Checks(w)
    PROVE  /\ UNCHANGED orderVars /\ Busy(w) /\ Now(w) \in Steps /\ Now(w).do = "check"
           /\ \E q : /\ IsRequest(q) /\ req' = [req EXCEPT ![w] = q]
                     /\ q.script = Tail(req[w].script) /\ q.script \in Seq(Steps)
                     /\ q.handler = req[w].handler /\ q.base = req[w].base
                     /\ q.locked = req[w].locked /\ q.copy = req[w].copy
                     /\ q.wrote = req[w].wrote /\ q.trail = req[w].trail
                     /\ q.settled = req[w].settled
<1>1. Busy(w) /\ Now(w).do = "check" /\ Done(w, req[w])
  BY DEF Checks
<1>2. IsRequest(req[w]) /\ req[w].script \in Seq(Steps) /\ UNCHANGED orderVars
  BY <1>1, TypedRequest DEF Done
<1>3. Now(w) \in Steps
  BY <1>1, <1>2, TailOf DEF Now, Busy
<1> QED
  BY <1>1, <1>2, <1>3, DoneStep

\* A query puts a statement for each ACTIVE line in its place.
LEMMA QueryStep ==
    ASSUME TypeOK, NEW w \in Requests, Queries(w)
    PROVE  /\ UNCHANGED orderVars /\ Busy(w) /\ Now(w).do \in Query
           /\ \E q :
                /\ IsRequest(q) /\ req' = [req EXCEPT ![w] = q]
                /\ q.script \in Seq(Steps)
                /\ \E f \in Seq(Steps) :
                     /\ \A i \in DOMAIN f : f[i].do \in OnLine /\ f[i].arg \in ActiveLines
                     /\ \A k \in ActiveLines : \E i \in DOMAIN f : f[i].arg = k
                     /\ q.script = f \o Tail(req[w].script)
                /\ q.handler = req[w].handler /\ q.base = req[w].base
                /\ q.locked = req[w].locked /\ q.copy = req[w].copy /\ q.wrote = req[w].wrote
                /\ q.trail = req[w].trail /\ q.settled = req[w].settled
<1> DEFINE old == req[w]
           how == Outcome(Now(w).do)
<1>1. Busy(w) /\ Now(w).do \in Query
  BY DEF Queries, Query
<1>2. /\ old \in RequestOver(DOMAIN old.settled) /\ DOMAIN old.settled \subseteq Lines
      /\ old.script \in Seq(Steps) /\ Tail(old.script) \in Seq(Steps)
  BY <1>1, TypedRequest, TailOf DEF Busy
<1>3. PICK s \in Orders(ActiveLines) :
        req' = [req EXCEPT ![w].script =
                  [i \in DOMAIN s |-> [do |-> how, arg |-> s[i]]] \o Tail(@)]
  BY DEF Queries
<1> DEFINE f == [i \in DOMAIN s |-> [do |-> how, arg |-> s[i]]]
           q == [old EXCEPT !.script = f \o Tail(@)]
<1>4. how \in OnLine
  BY <1>1 DEF OnLine, Query, Outcome
<1>5. /\ f \in Seq(Steps) /\ {s[i] : i \in DOMAIN s} = ActiveLines
      /\ DOMAIN f = DOMAIN s /\ \A i \in DOMAIN f : f[i].do = how /\ f[i].arg = s[i]
  BY <1>4, QueriedSteps
<1>6. req' = [req EXCEPT ![w] = q] /\ UNCHANGED orderVars
  BY <1>3 DEF Queries
<1> HIDE DEF f, how
<1>7. /\ q.script = f \o Tail(old.script) /\ q.handler = old.handler /\ q.base = old.base
      /\ q.settled = old.settled /\ q.wrote = old.wrote /\ q.trail = old.trail
      /\ q.copy = old.copy /\ q.locked = old.locked
  BY <1>2 DEF RequestOver
<1>8. f \o Tail(old.script) \in Seq(Steps)
  BY <1>2, <1>5, Joined
<1>9. q \in RequestOver(DOMAIN old.settled)
  BY <1>2, <1>7, <1>8 DEF RequestOver
<1>10. IsRequest(q)
  BY <1>2, <1>7, <1>9 DEF IsRequest
<1>11. /\ \A i \in DOMAIN f : f[i].do \in OnLine /\ f[i].arg \in ActiveLines
       /\ \A k \in ActiveLines : \E i \in DOMAIN f : f[i].arg = k
  BY <1>4, <1>5
<1>12. q.script \in Seq(Steps)
  BY <1>7, <1>8
<1> HIDE DEF q
<1>13. UNCHANGED orderVars /\ Busy(w) /\ Now(w).do \in Query
  BY <1>1, <1>6
<1>14. /\ f \in Seq(Steps)
       /\ \A i \in DOMAIN f : f[i].do \in OnLine /\ f[i].arg \in ActiveLines
       /\ \A k \in ActiveLines : \E i \in DOMAIN f : f[i].arg = k
       /\ q.script = f \o Tail(req[w].script)
  BY <1>5, <1>7, <1>11
<1> HIDE DEF old
<1> QED
  BY <1>6, <1>7, <1>10, <1>12, <1>13, <1>14 DEF old

\* An exception: the request ends, or goes on with its handler.
LEMMA RollBackStep ==
    ASSUME TypeOK, NEW w \in Requests, RollsBack(w)
    PROVE  /\ UNCHANGED orderVars
           /\ \E q : /\ IsRequest(q) /\ req' = [req EXCEPT ![w] = q]
                     /\ \/ q = Idle
                        \/ /\ q.script = req[w].handler /\ q.handler = <<>>
                           /\ q.base = req[w].base /\ q.copy = req[w].copy
                           /\ q.locked = req[w].locked
                           /\ q.wrote = {} /\ q.trail = {} /\ q.settled = <<>>
                           /\ q.script \in Seq(Steps) /\ q.script # <<>>
<1> DEFINE old == req[w]
           q == [old EXCEPT !.script = old.handler, !.handler = <<>>,
                            !.wrote = {}, !.trail = {}, !.settled = <<>>]
<1>1. /\ old \in RequestOver(DOMAIN old.settled) /\ old.handler \in Seq(Steps)
  BY TypedRequest
<1>2. /\ q.script = old.handler /\ q.handler = <<>> /\ q.base = old.base /\ q.copy = old.copy
      /\ q.locked = old.locked /\ q.wrote = {} /\ q.trail = {} /\ q.settled = <<>>
  BY <1>1 DEF RequestOver
<1>3. IsRequest(q)
  <2>1. DOMAIN Idle.settled = {} /\ Idle.settled \in [{} -> OnLine]
        /\ Idle.settled = <<>>
    BY DEF Idle
  <2>2. <<>> \in Seq(Steps)
    OBVIOUS
  <2>3. q \in RequestOver({})
    BY <1>1, <1>2, <2>1, <2>2 DEF RequestOver
  <2> QED
    BY <1>2, <2>1, <2>3 DEF IsRequest
<1>4. CASE old.handler = <<>>
  BY <1>4, IdleRequest DEF RollsBack
<1>5. CASE old.handler # <<>>
  <2>1. req' = [req EXCEPT ![w] = q] /\ UNCHANGED orderVars
    BY <1>5 DEF RollsBack
  <2> HIDE DEF q
  <2> QED
    BY <1>1, <1>2, <1>3, <1>5, <2>1
<1> QED
  BY <1>4, <1>5

\* COMMIT: the request is over, or begins its next transaction.
LEMMA CommitStep ==
    ASSUME TypeOK, NEW w \in Requests, Commits(w)
    PROVE  /\ TypeOK' /\ Busy(w) /\ Now(w).do = "end"
           /\ \A k \in Lines : lines'[k] = "active" => lines[k] = "active" /\ ~HasLine(w, k)
           /\ \E q : /\ req'[w] = q /\ \A v \in Requests \ {w} : req'[v] = req[v]
                     /\ \/ q = Idle
                        \/ /\ q.script = Tail(req[w].script) /\ q.handler = req[w].handler
                           /\ q.copy = req[w].copy /\ q.locked = FALSE
                           /\ q.wrote = {} /\ q.trail = {} /\ q.settled = <<>>
                           /\ q.script \in Seq(Steps)
<1> DEFINE old == req[w]
           over == IF Wrote(w, "status") THEN old.copy.status ELSE old.base
           q == [old EXCEPT !.script = Tail(@), !.locked = FALSE, !.wrote = {}, !.trail = {},
                            !.settled = <<>>, !.base = over]
<1>1. /\ old \in RequestOver(DOMAIN old.settled) /\ DOMAIN old.settled \subseteq Lines
      /\ old.script \in Seq(Steps) /\ old.copy \in Copy /\ old.base \in Statuses
      /\ old.trail \in SUBSET Statuses
      /\ old.settled \in [DOMAIN old.settled -> OnLine]
  BY TypedRequest
<1>2. Busy(w) /\ Now(w).do = "end" /\ old.script # <<>>
  BY DEF Commits, Busy
<1>3. Tail(old.script) \in Seq(Steps)
  BY <1>1, <1>2, TailOf
<1>4. over \in Statuses
  BY <1>1 DEF Copy
<1> HIDE DEF over
<1>5. /\ q.script = Tail(old.script) /\ q.handler = old.handler /\ q.base = over
      /\ q.copy = old.copy /\ q.locked = FALSE /\ q.wrote = {} /\ q.trail = {} /\ q.settled = <<>>
  BY <1>1 DEF RequestOver
<1>6. IsRequest(q)
  <2>1. DOMAIN Idle.settled = {} /\ Idle.settled \in [{} -> OnLine]
        /\ Idle.settled = <<>>
    BY DEF Idle
  <2>2. q \in RequestOver({})
    BY <1>1, <1>3, <1>4, <1>5, <2>1 DEF RequestOver
  <2> QED
    BY <1>5, <2>1, <2>2 DEF IsRequest
<1>7. req' = [req EXCEPT ![w] = IF Len(old.script) = 1 THEN Idle ELSE q]
  BY DEF Commits, over
<1> HIDE DEF q
<1>8. PICK p : /\ p = (IF Len(old.script) = 1 THEN Idle ELSE q)
               /\ req'[w] = p /\ \A v \in Requests \ {w} : req'[v] = req[v]
               /\ req' = [v \in Requests |-> req'[v]]
  BY <1>7 DEF TypeOK
<1>9. IsRequest(p)
  BY <1>6, <1>8, IdleRequest
<1>10. lines' = [k \in Lines |-> IF HasLine(w, k) THEN old.settled[k] ELSE lines[k]]
  BY DEF Commits
<1>11. TypeOK'
  <2>1. order' \in [exists : BOOLEAN, status : Statuses, payment : PaymentStatuses]
    BY <1>1 DEF Commits, TypeOK, Copy, Wrote
  <2>2. lines' \in [Lines -> OnLine \cup {"active"}]
    BY <1>1, <1>10 DEF TypeOK, HasLine
  <2>3. \A v \in Requests : IsRequest(req'[v])
    BY <1>8, <1>9 DEF TypeOK
  <2>4. past' \in SUBSET Statuses /\ overtaken' \in BOOLEAN /\ carry_away' \in BOOLEAN
    BY <1>1 DEF Commits, TypeOK, Overtakes, Wrote
  <2> QED
    BY <1>8, <2>1, <2>2, <2>3, <2>4 DEF TypeOK, IsRequest
<1>12. \A k \in Lines : lines'[k] = "active" => lines[k] = "active" /\ ~HasLine(w, k)
  BY <1>1, <1>10 DEF HasLine, OnLine
<1> QED
  BY <1>2, <1>3, <1>5, <1>8, <1>11, <1>12

\* What a script that was put together says.
LEMMA JoinedElements ==
    ASSUME NEW s \in Seq(Steps), NEW t \in Seq(Steps), NEW i \in DOMAIN (s \o t)
    PROVE  \/ i \in DOMAIN s /\ (s \o t)[i] = s[i]
           \/ /\ i > Len(s) /\ i - Len(s) \in DOMAIN t /\ (s \o t)[i] = t[i - Len(s)]
              /\ i \in Nat /\ Len(s) \in Nat
<1>1. /\ DOMAIN s = 1 .. Len(s) /\ DOMAIN t = 1 .. Len(t) /\ Len(s) \in Nat /\ Len(t) \in Nat
      /\ DOMAIN (s \o t) = 1 .. Len(s) + Len(t)
      /\ \A k \in 1 .. Len(s) : (s \o t)[k] = s[k]
      /\ \A k \in 1 .. Len(t) : (s \o t)[Len(s) + k] = t[k]
  BY Joined
<1>2. CASE i <= Len(s)
  BY <1>1, <1>2
<1>3. CASE i > Len(s)
  <2>1. i - Len(s) \in 1 .. Len(t) /\ Len(s) + (i - Len(s)) = i
    BY <1>1, <1>3
  <2> QED
    BY <1>1, <1>3, <2>1
<1> QED
  BY <1>1, <1>2, <1>3
=============================================================================
