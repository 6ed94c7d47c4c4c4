--------------------------- MODULE CheckoutProofs ---------------------------
(***************************************************************************)
(* Theorems about Checkout, for any number of concurrent requests, items,  *)
(* orders and goods, and with OrderLifecycle, as MCOrders puts the two     *)
(* together.                                                               *)
(***************************************************************************)
EXTENDS MCOrders, OrderLifecycleProofs

-----------------------------------------------------------------------------
(* Requests and what the others see of their steps.                         *)

LEMMA AwayIsProgress == Away \in Progress
BY DEF Away, Progress, Carts

\* A request that is away knows nothing that could be wrong.
LEMMA AwayKnows ==
    ASSUME NEW v \in Visits, visit[v] = Away
    PROVE  Knows(v) /\ Undisturbed(v)
BY DEF Away, Knows, Undisturbed, Under, Ordering

LEMMA ProgressFields ==
    ASSUME CheckoutTypeOK, NEW v \in Visits
    PROVE  /\ visit[v] \in Progress /\ visit[v].cart \in Carts
           /\ visit[v].lines \subseteq Items /\ visit[v].overtaken \in BOOLEAN
           /\ visit[v].missed \subseteq Goods
BY DEF CheckoutTypeOK, Progress

LEMMA ItemFields ==
    ASSUME CheckoutTypeOK, NEW i \in Items
    PROVE  /\ items[i] \in Item /\ items[i].good \in Goods
           /\ items[i].cart \in Carts \cup {"none", "deleted"}
BY DEF CheckoutTypeOK, Item

LEMMA OrderFields ==
    ASSUME CheckoutTypeOK, NEW n \in DOMAIN orders
    PROVE  /\ n \in Nat /\ orders[n] \in Order /\ orders[n].lines \subseteq Items
           /\ orders[n].coupon \in BOOLEAN /\ orders[n].overtaken \in BOOLEAN
           /\ orders[n].added \in BOOLEAN
<1>1. orders \in Seq(Order) /\ n \in 1 .. Len(orders) /\ Len(orders) \in Nat
  BY DEF CheckoutTypeOK
<1>2. orders[n] \in Order /\ n \in Nat
  BY <1>1
<1> QED
  BY <1>2 DEF Order

\* What another request's step leaves of request u.
SameBut(u, overtakes, goods) ==
    /\ visit'[u].phase = visit[u].phase /\ visit'[u].cart = visit[u].cart
    /\ visit'[u].lines = visit[u].lines
    /\ visit'[u].overtaken = (visit[u].overtaken \/ overtakes)
    /\ visit'[u].missed = visit[u].missed \cup goods

LEMMA EndsEffect ==
    ASSUME CheckoutTypeOK, NEW v \in Visits, NEW overtakes \in BOOLEAN, NEW goods \in SUBSET Goods,
           Ends(v, overtakes, goods)
    PROVE  /\ visit' \in [Visits -> Progress] /\ visit'[v] = Away
           /\ \A u \in Visits : visit'[u] = Away \/ (u # v /\ SameBut(u, overtakes, goods))
<1>1. ASSUME NEW u \in Visits
      PROVE  /\ visit'[u] \in Progress
             /\ visit'[u] = Away \/ (u # v /\ SameBut(u, overtakes, goods))
  <2>1. CASE u = v \/ Under(u, "away")
    BY <2>1, AwayIsProgress DEF Ends
  <2>2. CASE ~(u = v \/ Under(u, "away"))
    <3>1. visit'[u] = [visit[u] EXCEPT !.overtaken = @ \/ overtakes, !.missed = @ \cup goods]
      BY <2>2 DEF Ends
    <3>2. visit[u] \in Progress
      BY ProgressFields
    <3> QED
      BY <2>2, <3>1, <3>2 DEF Progress, SameBut
  <2> QED
    BY <2>1, <2>2
<1>2. visit'[v] = Away /\ DOMAIN visit' = Visits /\ visit' = [u \in Visits |-> visit'[u]]
  BY DEF Ends
<1> QED
  BY <1>1, <1>2

LEMMA ReachesEffect ==
    ASSUME CheckoutTypeOK, NEW v \in Visits, NEW phase \in {"found", "emptied"}, Reaches(v, phase)
    PROVE  /\ visit' \in [Visits -> Progress] /\ visit'[v] = [visit[v] EXCEPT !.phase = phase]
           /\ \A u \in Visits \ {v} : visit'[u] = Away \/ SameBut(u, TRUE, {})
<1>1. visit'[v] = [visit[v] EXCEPT !.phase = phase] /\ visit'[v] \in Progress
  BY ProgressFields DEF Reaches, Progress
<1>2. ASSUME NEW u \in Visits \ {v}
      PROVE  visit'[u] \in Progress /\ (visit'[u] = Away \/ SameBut(u, TRUE, {}))
  <2>1. CASE Under(u, "away")
    BY <2>1, AwayIsProgress DEF Reaches
  <2>2. CASE ~Under(u, "away")
    <3>1. visit'[u] = [visit[u] EXCEPT !.overtaken = TRUE]
      BY <2>2 DEF Reaches
    <3>2. visit[u] \in Progress
      BY ProgressFields
    <3> QED
      BY <3>1, <3>2 DEF Progress, SameBut
  <2> QED
    BY <2>1, <2>2
<1>3. visit' = [u \in Visits |-> visit'[u]]
  BY DEF Reaches
<1> QED
  BY <1>1, <1>2, <1>3

-----------------------------------------------------------------------------
(* What a step may do to a request that does not take it.                   *)

\* Steps never change what an item is of, nor take an item out of use.
Conserves ==
    /\ \A i \in Items : items'[i].good = items[i].good
    /\ \A i \in Items : items[i].cart # "none" => items'[i].cart # "none"
    /\ mixed \subseteq mixed'

\* Request u learns of what is put into carts, and, unless it is overtaken, carts and
\* orders stay as they are and items are but put into carts or deleted.
Bystander(u) ==
    \E overtakes \in BOOLEAN, goods \in SUBSET Goods :
        /\ SameBut(u, overtakes, goods)
        /\ \A i \in Items : items'[i].cart \in Carts /\ items'[i].cart # items[i].cart => items[i].good \in goods
        /\ wanted' \ goods \subseteq wanted
        /\ \A g \in wanted' \ goods :
              Active("guest") /\ g \in GoodsOf(In("guest")) => Active("guest")' /\ g \in GoodsOf(In("guest"))'
        /\ ~overtakes =>
              /\ UNCHANGED <<carts, orders>>
              /\ \A i \in Items : items'[i].cart \in {items[i].cart, "deleted"} \/ items[i].cart = "none"

LEMMA UnownedStays ==
    ASSUME Conserves, UNCHANGED orders, NEW i, Unowned(i)
    PROVE  Unowned(i)'
BY DEF Conserves, Unowned

LEMMA BystanderKnows ==
    ASSUME CheckoutTypeOK, CheckoutTypeOK', NEW u \in Visits, Knows(u), Conserves, Bystander(u)
    PROVE  Knows(u)'
<1>1. PICK overtakes \in BOOLEAN, goods \in SUBSET Goods :
        /\ SameBut(u, overtakes, goods)
        /\ \A i \in Items : items'[i].cart \in Carts /\ items'[i].cart # items[i].cart => items[i].good \in goods
        /\ wanted' \ goods \subseteq wanted
        /\ \A g \in wanted' \ goods :
              Active("guest") /\ g \in GoodsOf(In("guest")) => Active("guest")' /\ g \in GoodsOf(In("guest"))'
  BY DEF Bystander
<1>2. visit[u].lines \subseteq Items /\ visit[u].cart \in Carts
  BY ProgressFields
<1> DEFINE c == visit[u].cart
           S == visit[u].lines
<1>3. /\ visit'[u].phase = visit[u].phase /\ visit'[u].cart = c /\ visit'[u].lines = S
      /\ visit'[u].missed = visit[u].missed \cup goods
      /\ \A i \in Items : items'[i].good = items[i].good
  BY <1>1 DEF SameBut, Conserves
<1>4. \A i \in S : items'[i].cart # "none"
  BY <1>2 DEF Conserves, Knows
<1>5. \A i, j \in S : items'[i].good = items'[j].good => i = j
  BY <1>2, <1>3 DEF Knows
<1>6. Ordering(u) \/ Under(u, "into") => \A i \in In(c)' : i \in S \/ items'[i].good \in visit'[u].missed
  BY <1>1, <1>2, <1>3 DEF Knows, In
<1>7. Under(u, "priced") => Cardinality(S) >= MinLines \/ visit'[u].missed # {}
  BY <1>3 DEF Knows
<1>8. Under(u, "none") /\ wanted' \ visit'[u].missed # {} =>
        Active("guest")' /\ wanted' \ visit'[u].missed \subseteq GoodsOf(In("guest"))'
  <2> HAVE Under(u, "none") /\ wanted' \ visit'[u].missed # {}
  <2>1. wanted' \ visit'[u].missed \subseteq (wanted \ visit[u].missed) \cap (wanted' \ goods)
    BY <1>1, <1>3
  <2>2. \A g \in wanted' \ visit'[u].missed : Active("guest") /\ g \in GoodsOf(In("guest"))
    BY <2>1 DEF Knows
  <2> QED
    BY <1>1, <2>1, <2>2
<1>9. \A p : Under(u, p)' <=> Under(u, p)
  BY <1>3 DEF Under
<1>10. Ordering(u)' <=> Ordering(u)
  BY <1>9 DEF Ordering
<1> HIDE DEF c, S
<1> QED
  BY <1>3, <1>4, <1>5, <1>6, <1>7, <1>8, <1>9, <1>10 DEF Knows, c, S

LEMMA BystanderUndisturbed ==
    ASSUME CheckoutTypeOK, CheckoutTypeOK', UnusedUnowned, NEW u \in Visits,
           Knows(u), visit[u].overtaken \/ Undisturbed(u), Conserves, Bystander(u)
    PROVE  visit'[u].overtaken \/ Undisturbed(u)'
<1> SUFFICES ASSUME ~visit'[u].overtaken PROVE Undisturbed(u)'
  OBVIOUS
<1>1. PICK overtakes \in BOOLEAN, goods \in SUBSET Goods :
        /\ SameBut(u, overtakes, goods)
        /\ ~overtakes =>
              /\ UNCHANGED <<carts, orders>>
              /\ \A i \in Items : items'[i].cart \in {items[i].cart, "deleted"} \/ items[i].cart = "none"
  BY DEF Bystander
<1>2. /\ visit[u].lines \subseteq Items /\ visit[u].cart \in Carts /\ visit[u].overtaken \in BOOLEAN
  BY ProgressFields
<1>3. /\ ~visit[u].overtaken /\ Undisturbed(u) /\ carts' = carts /\ orders' = orders
      /\ visit'[u].phase = visit[u].phase /\ visit'[u].cart = visit[u].cart
      /\ visit'[u].lines = visit[u].lines
      /\ \A i \in Items : items'[i].cart \in {items[i].cart, "deleted"} \/ items[i].cart = "none"
  BY <1>1, <1>2 DEF SameBut
<1>4. \A p : Under(u, p)' <=> Under(u, p)
  BY <1>3 DEF Under
<1>5. Ordering(u)' <=> Ordering(u)
  BY <1>4 DEF Ordering
<1>6. \A c : Active(c)' <=> Active(c)
  BY <1>3 DEF Active
<1>7. \A i : Unowned(i) => Unowned(i)'
  BY <1>3, UnownedStays
<1>8. \A i \in In("user")' : i \in In("user") \/ Unowned(i)
  BY <1>3 DEF In, UnusedUnowned
<1>9. \A i \in visit[u].lines : items[i].cart # "none"
  BY DEF Knows
<1>10. Ordering(u) => \A i \in visit[u].lines : items'[i].cart \in {visit[u].cart, "deleted"}
  BY <1>2, <1>3, <1>9 DEF Undisturbed
<1>11. Usages' = Usages
  BY <1>3 DEF Usages
<1>12. Under(u, "emptied") => \A i \in In("user")' : Unowned(i)'
  BY <1>3, <1>7, <1>8 DEF Undisturbed
<1>13. Ordering(u) \/ Under(u, "into") => \A i \in visit[u].lines : Unowned(i)'
  BY <1>3, <1>7 DEF Undisturbed
<1> QED
  BY <1>3, <1>4, <1>5, <1>6, <1>10, <1>11, <1>12, <1>13 DEF Undisturbed

\* A step that takes request v keeps the invariant if it keeps what v and the carts rely
\* on; the others are bystanders.
LEMMA Assembles ==
    ASSUME CheckoutInv, CheckoutTypeOK', NEW v \in Visits, Conserves,
           \A u \in Visits \ {v} : visit'[u] = Away \/ Bystander(u),
           visit'[v] = Away \/ (Knows(v)' /\ (visit'[v].overtaken \/ Undisturbed(v)')),
           CartsUnowned', UnusedUnowned', CouponOnItsTerms', OrderedOnce', NothingForgotten'
    PROVE  CheckoutInv'
<1>1. ASSUME NEW u \in Visits, visit'[u] = Away
      PROVE  Knows(u)' /\ Undisturbed(u)'
  BY <1>1 DEF Away, Knows, Undisturbed, Under, Ordering
<1>2. ASSUME NEW u \in Visits \ {v}, Bystander(u)
      PROVE  Knows(u)' /\ (visit'[u].overtaken \/ Undisturbed(u)')
  BY <1>2, BystanderKnows, BystanderUndisturbed DEF CheckoutInv
<1>3. \A u \in Visits : Knows(u)' /\ (visit'[u].overtaken \/ Undisturbed(u)')
  BY <1>1, <1>2
<1> QED
  BY <1>3 DEF CheckoutInv

\* Nothing is ordered.
LEMMA NoOrderPlaced ==
    ASSUME CheckoutInv, Conserves, UNCHANGED orders
    PROVE  UnusedUnowned' /\ CouponOnItsTerms' /\ OrderedOnce'
<1>1. UnusedUnowned'
  BY UnownedStays DEF CheckoutInv, UnusedUnowned, Conserves
<1>2. CouponOnItsTerms'
  <2>1. CouponOnItsTerms /\ Usages' = Usages
    BY DEF CheckoutInv, Usages
  <2> QED
    BY <2>1 DEF CouponOnItsTerms
<1>3. OrderedOnce'
  BY DEF CheckoutInv, OrderedOnce, Conserves
<1> QED
  BY <1>1, <1>2, <1>3

\* Carts, items and orders stay as they are.
LEMMA NothingChanged ==
    ASSUME CheckoutInv, UNCHANGED <<carts, items, orders, wanted, mixed>>, NEW v \in Visits,
           visit' \in [Visits -> Progress],
           \A u \in Visits \ {v} : visit'[u] = Away \/ SameBut(u, FALSE, {}),
           visit'[v] = Away \/ (Knows(v)' /\ (visit'[v].overtaken \/ Undisturbed(v)'))
    PROVE  CheckoutInv'
<1>1. CheckoutTypeOK' /\ Conserves
  BY DEF CheckoutInv, CheckoutTypeOK, Conserves
<1>2. \A c : Active(c)' = Active(c) /\ In(c)' = In(c)
  BY DEF Active, In
<1>3. ASSUME NEW u \in Visits \ {v} PROVE visit'[u] = Away \/ Bystander(u)
  <2>1. GoodsOf(In("guest"))' = GoodsOf(In("guest"))
    BY <1>2 DEF GoodsOf
  <2> SUFFICES ASSUME SameBut(u, FALSE, {}) PROVE Bystander(u)
    OBVIOUS
  <2> QED
    BY <1>2, <2>1 DEF Bystander
<1>4. CartsUnowned'
  BY <1>1, <1>2, UnownedStays DEF CheckoutInv, CartsUnowned
<1>5. NothingForgotten'
  BY DEF CheckoutInv, NothingForgotten
<1> QED
  BY <1>1, <1>3, <1>4, <1>5, NoOrderPlaced, Assembles

-----------------------------------------------------------------------------
(* Steps that read.                                                         *)

\* What a request that begins, or reads on, knows.
LEMMA ReadsOn ==
    ASSUME CheckoutInv, UNCHANGED <<carts, items, orders, wanted, mixed>>, NEW v \in Visits,
           NEW p \in Progress, visit' = [visit EXCEPT ![v] = p],
           Knows(v)' /\ (p.overtaken \/ Undisturbed(v)')
    PROVE  CheckoutInv'
<1>1. visit \in [Visits -> Progress]
  BY DEF CheckoutInv, CheckoutTypeOK
<1>2. visit' \in [Visits -> Progress] /\ visit'[v] = p
  BY <1>1
<1>3. ASSUME NEW u \in Visits \ {v} PROVE SameBut(u, FALSE, {})
  <2>1. visit'[u] = visit[u] /\ visit[u].overtaken \in BOOLEAN
    BY <1>1 DEF Progress
  <2> QED
    BY <2>1 DEF SameBut
<1> QED
  BY <1>2, <1>3, NothingChanged

LEMMA ResolvesKeeps ==
    ASSUME CheckoutInv, NEW v \in Visits, NEW c \in Carts, Resolves(v, c)
    PROVE  CheckoutInv'
<1> DEFINE p == [Away EXCEPT !.phase = "found", !.cart = c,
                               !.had = IF In(c) = {} THEN "none" ELSE "some"]
<1>1. p \in Progress /\ p.phase = "found" /\ p.cart = c /\ p.lines = {} /\ p.missed = {}
  BY DEF Away, Progress
<1>2. visit' = [visit EXCEPT ![v] = p] /\ Active(c) /\ UNCHANGED <<carts, items, orders, wanted, mixed>>
  BY DEF Resolves
<1> HIDE DEF p
<1>3. visit'[v] = p
  BY <1>2 DEF CheckoutInv, CheckoutTypeOK
<1>4. Knows(v)' /\ Undisturbed(v)'
  BY <1>1, <1>2, <1>3 DEF Knows, Undisturbed, Under, Ordering, Active
<1> QED
  BY <1>1, <1>2, <1>4, ReadsOn

LEMMA FindsNoneKeeps ==
    ASSUME CheckoutInv, NEW v \in Visits, FindsNone(v)
    PROVE  CheckoutInv'
<1> DEFINE p == [Away EXCEPT !.phase = "none"]
<1>1. p \in Progress /\ p.phase = "none" /\ p.cart = "user" /\ p.lines = {} /\ p.missed = {}
  BY DEF Away, Progress, Carts
<1>2. visit' = [visit EXCEPT ![v] = p] /\ ~Active("user") /\ UNCHANGED <<carts, items, orders, wanted, mixed>>
  BY DEF FindsNone
<1> HIDE DEF p
<1>3. visit'[v] = p
  BY <1>2 DEF CheckoutInv, CheckoutTypeOK
<1>4. \A g \in wanted : Active("guest") /\ g \in GoodsOf(In("guest"))
  <2> SUFFICES ASSUME NEW g \in wanted PROVE Active("guest") /\ g \in GoodsOf(In("guest"))
    OBVIOUS
  <2>1. PICK i \in Items : items[i].good = g /\ items[i].cart \in Carts /\ Active(items[i].cart)
    BY DEF CheckoutInv, NothingForgotten, Active
  <2>2. items[i].cart = "guest"
    BY <1>2, <2>1 DEF Carts
  <2> QED
    BY <2>1, <2>2 DEF GoodsOf, In
<1>5. \A g \in wanted' : Active("guest")' /\ g \in GoodsOf(In("guest"))'
  BY <1>2, <1>4 DEF Active, GoodsOf, In
<1>6. Knows(v)' /\ Undisturbed(v)'
  BY <1>1, <1>3, <1>5 DEF Knows, Undisturbed, Under, Ordering
<1> QED
  BY <1>1, <1>2, <1>6, ReadsOn

LEMMA StartsMergeKeeps ==
    ASSUME CheckoutInv, NEW v \in Visits, StartsMerge(v)
    PROVE  CheckoutInv'
<1> DEFINE p == [Away EXCEPT !.phase = "merge", !.cart = "guest"]
<1>1. p \in Progress /\ p.phase = "merge" /\ p.cart = "guest" /\ p.lines = {} /\ p.missed = {}
  BY DEF Away, Progress, Carts
<1>2. visit' = [visit EXCEPT ![v] = p] /\ Active("guest") /\ UNCHANGED <<carts, items, orders, wanted, mixed>>
  BY DEF StartsMerge
<1> HIDE DEF p
<1>3. visit'[v] = p
  BY <1>2 DEF CheckoutInv, CheckoutTypeOK
<1>4. Knows(v)' /\ Undisturbed(v)'
  BY <1>1, <1>2, <1>3 DEF Knows, Undisturbed, Under, Ordering, Active
<1> QED
  BY <1>1, <1>2, <1>4, ReadsOn

\* The items of an active cart are distinct, in use and not owned by an order.
LEMMA CartRead ==
    ASSUME CheckoutInv, NEW c \in Carts
    PROVE  /\ In(c) \subseteq Items /\ \A i \in In(c) : items[i].cart = c /\ c # "none"
           /\ \A i, j \in In(c) : items[i].good = items[j].good => i = j
           /\ Active(c) => \A i \in In(c) : Unowned(i)
BY DEF CheckoutInv, CheckoutTypeOK, CartsUnowned, In, Carts

LEMMA ReadsLinesKeeps ==
    ASSUME CheckoutInv, NEW v \in Visits, ReadsLines(v)
    PROVE  CheckoutInv'
<1> DEFINE c == visit[v].cart
           p == [visit[v] EXCEPT !.phase = "read", !.lines = In(c)]
<1>0. visit \in [Visits -> Progress] /\ c \in Carts
  BY ProgressFields DEF CheckoutInv, CheckoutTypeOK
<1>1. /\ p \in Progress /\ p.phase = "read" /\ p.cart = c /\ p.lines = In(c)
      /\ p.missed = visit[v].missed /\ p.overtaken = visit[v].overtaken
  <2>1. visit[v] \in Progress /\ In(c) \subseteq Items
    BY <1>0, CartRead
  <2> QED
    BY <2>1 DEF Progress
<1>2. visit' = [visit EXCEPT ![v] = p] /\ Under(v, "found") /\ UNCHANGED <<carts, items, orders, wanted, mixed>>
  BY <1>0 DEF ReadsLines
<1>3. ~visit[v].overtaken => Active(c)
  BY <1>2 DEF CheckoutInv, Undisturbed
<1> HIDE DEF p
<1>4. visit'[v] = p
  BY <1>0, <1>2
<1>5. \A x : In(x)' = In(x) /\ Unowned(x)' = Unowned(x) /\ Active(x)' = Active(x)
  BY <1>2 DEF In, Unowned, Active
<1> HIDE DEF c
<1>6. Knows(v)'
  BY <1>0, <1>1, <1>2, <1>4, <1>5, CartRead DEF Knows, Under, Ordering
<1>7. ~p.overtaken => Undisturbed(v)'
  BY <1>0, <1>1, <1>2, <1>3, <1>4, <1>5, CartRead DEF Undisturbed, Under, Ordering
<1> QED
  BY <1>1, <1>2, <1>6, <1>7, ReadsOn

LEMMA UsagesFinite ==
    ASSUME CheckoutTypeOK
    PROVE  IsFiniteSet(Usages) /\ Cardinality(Usages) \in Nat
<1>1. IsFiniteSet(1 .. Len(orders)) /\ Usages \subseteq 1 .. Len(orders)
  BY FS_Interval DEF CheckoutTypeOK, Usages
<1> QED
  BY <1>1, FS_Subset, FS_CardinalityType

LEMMA ItemsFinite ==
    ASSUME NEW S \in SUBSET Items
    PROVE  IsFiniteSet(S) /\ Cardinality(S) \in Nat
<1>1. IsFiniteSet(Items)
  BY FS_Interval, CheckoutAssumption DEF Items
<1> QED
  BY <1>1, FS_Subset, FS_CardinalityType

LEMMA PricesCouponKeeps ==
    ASSUME CheckoutInv, NEW v \in Visits, PricesCoupon(v)
    PROVE  CheckoutInv'
<1> DEFINE p == [visit[v] EXCEPT !.phase = "priced"]
<1>0. visit \in [Visits -> Progress] /\ visit[v] \in Progress /\ visit[v].cart \in Carts
  BY ProgressFields DEF CheckoutInv, CheckoutTypeOK
<1>1. /\ p \in Progress /\ p.phase = "priced" /\ p.cart = visit[v].cart /\ p.lines = visit[v].lines
      /\ p.missed = visit[v].missed /\ p.overtaken = visit[v].overtaken
  BY <1>0 DEF Progress
<1>2. /\ visit' = [visit EXCEPT ![v] = p] /\ Under(v, "read") /\ Redeemable(visit[v].cart)
      /\ UNCHANGED <<carts, items, orders, wanted, mixed>>
  BY <1>0 DEF PricesCoupon, Goes
<1>3. Knows(v) /\ (visit[v].overtaken \/ Undisturbed(v)) /\ Ordering(v)
  BY <1>2 DEF CheckoutInv, Ordering
<1>4. Cardinality(visit[v].lines) >= MinLines \/ visit[v].missed # {}
  <2> SUFFICES ASSUME visit[v].missed = {} PROVE Cardinality(visit[v].lines) >= MinLines
    OBVIOUS
  <2>1. In(visit[v].cart) \subseteq visit[v].lines /\ visit[v].lines \subseteq Items
    BY <1>0, <1>3 DEF Knows, Progress
  <2>2. /\ Cardinality(In(visit[v].cart)) <= Cardinality(visit[v].lines)
        /\ Cardinality(In(visit[v].cart)) \in Nat /\ Cardinality(visit[v].lines) \in Nat
    BY <2>1, ItemsFinite, FS_Subset
  <2> QED
    BY <1>2, <2>2, CheckoutAssumption DEF Redeemable
<1> HIDE DEF p
<1>5. visit'[v] = p
  BY <1>0, <1>2
<1>6. /\ \A x : In(x)' = In(x) /\ Unowned(x)' = Unowned(x) /\ Active(x)' = Active(x)
      /\ Usages' = Usages
  BY <1>2 DEF In, Unowned, Active, Usages
<1>7. Knows(v)'
  BY <1>1, <1>2, <1>3, <1>4, <1>5, <1>6 DEF Knows, Under, Ordering
<1>8. ~p.overtaken => Undisturbed(v)'
  BY <1>1, <1>2, <1>3, <1>5, <1>6 DEF Undisturbed, Under, Ordering, Redeemable
<1> QED
  BY <1>1, <1>2, <1>7, <1>8, ReadsOn

LEMMA FindsUserCartKeeps ==
    ASSUME CheckoutInv, NEW v \in Visits, FindsUserCart(v)
    PROVE  CheckoutInv'
<1> DEFINE p == [visit[v] EXCEPT !.phase = "into", !.lines = In("guest")]
<1>0. /\ visit \in [Visits -> Progress] /\ visit[v] \in Progress /\ In("guest") \subseteq Items
      /\ "guest" \in Carts /\ "user" \in Carts
  BY ProgressFields DEF CheckoutInv, CheckoutTypeOK, In, Carts
<1>1. /\ p \in Progress /\ p.phase = "into" /\ p.cart = visit[v].cart /\ p.lines = In("guest")
      /\ p.missed = visit[v].missed /\ p.overtaken = visit[v].overtaken
  BY <1>0 DEF Progress
<1>2. /\ visit' = [visit EXCEPT ![v] = p] /\ Under(v, "merge") /\ Active("user")
      /\ UNCHANGED <<carts, items, orders, wanted, mixed>>
  BY <1>0 DEF FindsUserCart
<1>3. visit[v].cart = "guest" /\ (~visit[v].overtaken => Active("guest"))
  BY <1>2 DEF CheckoutInv, Knows, Undisturbed
<1> HIDE DEF p
<1>5. visit'[v] = p
  BY <1>0, <1>2
<1>6. \A x : In(x)' = In(x) /\ Unowned(x)' = Unowned(x) /\ Active(x)' = Active(x)
  BY <1>2 DEF In, Unowned, Active
<1>7. Knows(v)'
  BY <1>0, <1>1, <1>2, <1>3, <1>5, <1>6, CartRead DEF Knows, Under, Ordering
<1>8. ~p.overtaken => Undisturbed(v)'
  BY <1>0, <1>1, <1>2, <1>3, <1>5, <1>6, CartRead DEF Undisturbed, Under, Ordering
<1> QED
  BY <1>1, <1>2, <1>7, <1>8, ReadsOn

LEMMA LeavesKeeps ==
    ASSUME CheckoutInv, NEW v \in Visits, Leaves(v)
    PROVE  CheckoutInv'
<1>1. CheckoutTypeOK
  BY DEF CheckoutInv
<1>2. /\ visit' \in [Visits -> Progress] /\ visit'[v] = Away
      /\ \A u \in Visits : visit'[u] = Away \/ (u # v /\ SameBut(u, FALSE, {}))
  BY <1>1, EndsEffect DEF Leaves
<1> QED
  BY <1>2, NothingChanged DEF Leaves

-----------------------------------------------------------------------------
(* Steps that delete items.                                                 *)

LEMMA DeletedItems ==
    ASSUME CheckoutTypeOK, NEW S, items' = Deleted(S)
    PROVE  /\ items' \in [Items -> Item]
           /\ \A i \in Items : /\ items'[i].good = items[i].good
                               /\ items'[i].cart = IF i \in S THEN "deleted" ELSE items[i].cart
           /\ \A i, j \in Items : items'[i].cart \in Carts /\ items'[i].cart = items'[j].cart
                                     /\ items'[i].good = items'[j].good => i = j
<1>1. ASSUME NEW i \in Items
      PROVE  /\ items'[i] \in Item /\ items'[i].good = items[i].good
             /\ items'[i].cart = IF i \in S THEN "deleted" ELSE items[i].cart
  <2>1. items[i] \in Item /\ items'[i] = IF i \in S THEN [items[i] EXCEPT !.cart = "deleted"] ELSE items[i]
    BY ItemFields DEF Deleted
  <2> QED
    BY <2>1 DEF Item
<1>2. items' = [i \in Items |-> items'[i]]
  BY DEF Deleted
<1>3. items' \in [Items -> Item]
  BY <1>1, <1>2
<1>4. "deleted" \notin Carts
  BY DEF Carts
<1>5. \A i, j \in Items : items[i].cart \in Carts /\ items[i].cart = items[j].cart
                             /\ items[i].good = items[j].good => i = j
  BY DEF CheckoutTypeOK
<1> QED
  BY <1>1, <1>3, <1>4, <1>5

LEMMA RemovesKeeps ==
    ASSUME CheckoutInv, NEW v \in Visits, NEW S, Removes(v, S)
    PROVE  CheckoutInv'
<1>0. CheckoutTypeOK /\ UNCHANGED <<carts, orders, mixed>> /\ wanted' = wanted \ GoodsOf(S)
  BY DEF CheckoutInv, Removes
<1>1. /\ items' \in [Items -> Item]
      /\ \A i \in Items : /\ items'[i].good = items[i].good
                          /\ items'[i].cart = IF i \in S THEN "deleted" ELSE items[i].cart
      /\ \A i, j \in Items : items'[i].cart \in Carts /\ items'[i].cart = items'[j].cart
                                /\ items'[i].good = items'[j].good => i = j
  BY <1>0, DeletedItems DEF Removes
<1>2. /\ visit' \in [Visits -> Progress] /\ visit'[v] = Away
      /\ \A u \in Visits : visit'[u] = Away \/ (u # v /\ SameBut(u, FALSE, {}))
  BY <1>0, EndsEffect DEF Removes
<1>3. CheckoutTypeOK' /\ Conserves
  BY <1>0, <1>1, <1>2 DEF CheckoutTypeOK, Conserves
<1>4. \A i \in Items : items[i].good \in wanted' => i \notin S
  BY <1>0 DEF GoodsOf
<1>5. \A c : Active(c)' = Active(c)
  BY <1>0 DEF Active
<1>6. \A g \in wanted', c \in Carts : g \in GoodsOf(In(c)) => g \in GoodsOf(In(c))'
  BY <1>1, <1>4 DEF GoodsOf, In
<1>7. ASSUME NEW u \in Visits, SameBut(u, FALSE, {}) PROVE Bystander(u)
  <2>1. \A i \in Items : items'[i].cart \in Carts => items'[i].cart = items[i].cart
    BY <1>1 DEF Carts
  <2>2. \A i \in Items : items'[i].cart \in {items[i].cart, "deleted"}
    BY <1>1
  <2> QED
    BY <1>0, <1>5, <1>6, <1>7, <2>1, <2>2 DEF Bystander, Carts
<1>8. CartsUnowned'
  <2>1. \A i \in Items : items'[i].cart \in Carts => items'[i].cart = items[i].cart
    BY <1>1 DEF Carts
  <2> QED
    BY <1>0, <1>3, <1>5, <2>1, UnownedStays DEF CheckoutInv, CartsUnowned
<1>9. NothingForgotten'
  BY <1>0, <1>1, <1>4 DEF CheckoutInv, NothingForgotten
<1> QED
  BY <1>0, <1>2, <1>3, <1>7, <1>8, <1>9, NoOrderPlaced, Assembles

LEMMA EmptiesKeeps ==
    ASSUME CheckoutInv, NEW v \in Visits, Empties(v)
    PROVE  CheckoutInv'
<1>0. /\ CheckoutTypeOK /\ UNCHANGED <<carts, orders, mixed>> /\ wanted' = wanted \ visit[v].missed
      /\ Knows(v) /\ Under(v, "none") /\ visit[v].cart = "user"
  BY DEF CheckoutInv, Empties, Knows
<1>1. /\ items' \in [Items -> Item]
      /\ \A i \in Items : /\ items'[i].good = items[i].good
                          /\ items'[i].cart = IF i \in In("user") THEN "deleted" ELSE items[i].cart
      /\ \A i, j \in Items : items'[i].cart \in Carts /\ items'[i].cart = items'[j].cart
                                /\ items'[i].good = items'[j].good => i = j
  BY <1>0, DeletedItems DEF Empties
<1>2. /\ visit' \in [Visits -> Progress] /\ visit'[v] = [visit[v] EXCEPT !.phase = "emptied"]
      /\ \A u \in Visits \ {v} : visit'[u] = Away \/ SameBut(u, TRUE, {})
  BY <1>0, ReachesEffect DEF Empties
<1>3. CheckoutTypeOK' /\ Conserves
  BY <1>0, <1>1, <1>2 DEF CheckoutTypeOK, Conserves
<1>4. /\ \A c : Active(c)' = Active(c)
      /\ In("guest")' = In("guest") /\ In("user")' = {}
  BY <1>0, <1>1 DEF Active, In
<1>5. GoodsOf(In("guest"))' = GoodsOf(In("guest"))
  BY <1>1, <1>4 DEF GoodsOf, In
<1>6. \A i \in Items : items'[i].cart \in Carts => items'[i].cart = items[i].cart
  BY <1>1 DEF Carts
<1>7. ASSUME NEW u \in Visits, SameBut(u, TRUE, {}) PROVE Bystander(u)
  BY <1>0, <1>4, <1>5, <1>6, <1>7 DEF Bystander
<1>8. CartsUnowned'
  BY <1>0, <1>3, <1>4, <1>6, UnownedStays DEF CheckoutInv, CartsUnowned
<1>9. NothingForgotten'
  <2> SUFFICES ASSUME NEW g \in wanted'
               PROVE \E i \in Items : items'[i].good = g /\ items'[i].cart \in Carts /\ carts'[items'[i].cart] = "active"
    BY DEF NothingForgotten
  <2>1. Active("guest") /\ g \in GoodsOf(In("guest"))
    BY <1>0 DEF Knows
  <2>2. PICK i \in Items : items[i].cart = "guest" /\ items[i].good = g
    BY <2>1 DEF GoodsOf, In
  <2>3. items'[i].cart = "guest" /\ items'[i].good = g
    BY <1>1, <2>2 DEF In
  <2> QED
    BY <1>0, <2>1, <2>3 DEF Active, Carts
<1>10. Knows(v)' /\ Undisturbed(v)'
  <2>1. /\ visit'[v].phase = "emptied" /\ visit'[v].cart = "user" /\ visit'[v].lines = visit[v].lines
        /\ visit[v].lines \subseteq Items
    BY <1>0, <1>2, ProgressFields DEF Progress
  <2>2. \A i \in visit[v].lines : items'[i].cart # "none" /\ items'[i].good = items[i].good
    BY <1>0, <1>3, <2>1 DEF Knows, Conserves
  <2> QED
    BY <1>0, <1>4, <2>1, <2>2 DEF Knows, Undisturbed, Under, Ordering
<1> QED
  BY <1>0, <1>2, <1>3, <1>7, <1>8, <1>9, <1>10, NoOrderPlaced, Assembles

-----------------------------------------------------------------------------
(* Steps that put items into carts.                                         *)

LEMMA ReopensKeeps ==
    ASSUME CheckoutInv, NEW v \in Visits, Reopens(v)
    PROVE  CheckoutInv'
<1>0. /\ CheckoutTypeOK /\ UNCHANGED <<items, orders, wanted>> /\ carts' = [carts EXCEPT !["user"] = "active"]
      /\ mixed' = IF visit[v].overtaken THEN mixed \cup In("user") ELSE mixed
      /\ Knows(v) /\ Under(v, "emptied") /\ visit[v].cart = "user"
      /\ visit[v].overtaken \/ Undisturbed(v)
  BY DEF CheckoutInv, Reopens, Knows
<1>1. /\ carts' \in [Carts -> {"active", "converted", "merged", "abandoned"}]
      /\ carts'["user"] = "active" /\ carts'["guest"] = carts["guest"]
  BY <1>0 DEF CheckoutTypeOK, Carts
<1>2. /\ visit' \in [Visits -> Progress] /\ visit'[v] = [visit[v] EXCEPT !.phase = "found"]
      /\ \A u \in Visits \ {v} : visit'[u] = Away \/ SameBut(u, TRUE, {})
  BY <1>0, ReachesEffect DEF Reopens
<1>3. CheckoutTypeOK' /\ Conserves
  BY <1>0, <1>1, <1>2 DEF CheckoutTypeOK, Conserves, In
<1>4. /\ Active("guest")' = Active("guest") /\ Active("user")'
      /\ \A c : In(c)' = In(c)
  BY <1>0, <1>1 DEF Active, In
<1>5. GoodsOf(In("guest"))' = GoodsOf(In("guest"))
  BY <1>0, <1>4 DEF GoodsOf
<1>7. ASSUME NEW u \in Visits, SameBut(u, TRUE, {}) PROVE Bystander(u)
  BY <1>0, <1>4, <1>5, <1>7 DEF Bystander
<1>8. CartsUnowned'
  <2>1. \A i \in Items : items[i].cart = "user" => Unowned(i)'
    <3>1. CASE visit[v].overtaken
      BY <1>0, <3>1 DEF In, Unowned
    <3>2. CASE ~visit[v].overtaken
      <4>1. \A i \in Items : items[i].cart = "user" => Unowned(i)
        BY <1>0, <3>2 DEF Undisturbed, In
      <4> QED
        BY <1>0, <1>3, <4>1, UnownedStays
    <3> QED
      BY <3>1, <3>2
  <2>2. \A i \in Items : items[i].cart = "guest" /\ Active("guest") => Unowned(i)'
    BY <1>0, <1>3, UnownedStays DEF CheckoutInv, CartsUnowned, Carts
  <2> QED
    BY <1>0, <1>4, <2>1, <2>2 DEF CartsUnowned, Carts
<1>9. NothingForgotten'
  BY <1>0, <1>1 DEF CheckoutInv, NothingForgotten, Carts
<1>10. Knows(v)' /\ Undisturbed(v)'
  <2>1. visit'[v].phase = "found" /\ visit'[v].cart = "user" /\ visit'[v].lines = visit[v].lines
    BY <1>0, <1>2, ProgressFields DEF Progress
  <2> QED
    BY <1>0, <1>4, <2>1 DEF Knows, Undisturbed, Under, Ordering
<1> QED
  BY <1>0, <1>2, <1>3, <1>7, <1>8, <1>9, <1>10, NoOrderPlaced, Assembles

\* The item that is added, if the cart has none of the variant.
LEMMA AddsItem ==
    ASSUME CheckoutTypeOK, NEW v \in Visits, NEW g \in Goods, Adds(v, g)
    PROVE  \E i \in Items :
             /\ items'[i].cart = visit[v].cart /\ items[i].good = g
             /\ items[i].cart \in {"none", visit[v].cart}
             /\ \A j \in Items \ {i} : items'[j] = items[j]
             /\ items' \in [Items -> Item] /\ items'[i].good = g
             /\ items[i].cart = "none" => \A j \in In(visit[v].cart) : items[j].good # g
<1> DEFINE c == visit[v].cart
<1>0. c \in Carts /\ items \in [Items -> Item]
  BY ProgressFields DEF CheckoutTypeOK
<1>1. CASE g \in GoodsOf(In(c))
  <2>1. items' = items
    BY <1>1 DEF Adds
  <2>2. PICK i \in Items : items[i].cart = c /\ items[i].good = g
    BY <1>1 DEF GoodsOf, In
  <2> QED
    BY <1>0, <2>1, <2>2 DEF Carts
<1>2. CASE g \notin GoodsOf(In(c))
  <2>1. PICK i \in Items : items[i].cart = "none" /\ items[i].good = g /\ items' = [items EXCEPT ![i].cart = c]
    BY <1>2 DEF Adds
  <2>2. items[i] \in Item /\ items'[i] = [items[i] EXCEPT !.cart = c]
    BY <1>0, <2>1
  <2>3. items'[i] \in Item /\ items'[i].cart = c /\ items'[i].good = g
    BY <1>0, <2>1, <2>2 DEF Item
  <2>4. items' \in [Items -> Item] /\ \A j \in Items \ {i} : items'[j] = items[j]
    BY <1>0, <2>1, <2>3
  <2>5. \A j \in In(c) : items[j].good # g
    BY <1>2 DEF GoodsOf
  <2> QED
    BY <2>1, <2>3, <2>4, <2>5
<1> QED
  BY <1>1, <1>2

LEMMA AddsKeeps ==
    ASSUME CheckoutInv, NEW v \in Visits, NEW g \in Goods, Adds(v, g)
    PROVE  CheckoutInv'
<1> DEFINE c == visit[v].cart
<1>0. /\ CheckoutTypeOK /\ UNCHANGED <<carts, orders, mixed>>
      /\ wanted' = IF visit[v].overtaken THEN wanted ELSE wanted \cup {g}
      /\ Under(v, "found") /\ (visit[v].overtaken \/ Undisturbed(v)) /\ c \in Carts
  BY ProgressFields DEF CheckoutInv, Adds
<1>1. PICK i \in Items :
        /\ items'[i].cart = c /\ items[i].good = g /\ items[i].cart \in {"none", c}
        /\ \A j \in Items \ {i} : items'[j] = items[j]
        /\ items' \in [Items -> Item] /\ items'[i].good = g
        /\ items[i].cart = "none" => \A j \in In(c) : items[j].good # g
  BY <1>0, AddsItem
<1>2. /\ visit' \in [Visits -> Progress] /\ visit'[v] = Away
      /\ \A u \in Visits : visit'[u] = Away \/ (u # v /\ SameBut(u, FALSE, {g}))
  BY <1>0, EndsEffect DEF Adds
<1> HIDE DEF c
<1>3. CheckoutTypeOK' /\ Conserves
  <2>1. \A j, k \in Items : items'[j].cart \in Carts /\ items'[j].cart = items'[k].cart
                               /\ items'[j].good = items'[k].good => j = k
    <3>1. \A j \in Items \ {i} : items[j].cart = c => items[j].good # g
      BY <1>0, <1>1 DEF CheckoutTypeOK, In
    <3> QED
      BY <1>0, <1>1, <3>1 DEF CheckoutTypeOK
  <2>2. Conserves
    BY <1>0, <1>1 DEF Conserves, Carts
  <2> QED
    BY <1>0, <1>1, <1>2, <2>1, <2>2 DEF CheckoutTypeOK
<1>4. \A x : Active(x)' = Active(x)
  BY <1>0 DEF Active
<1>5. \A x \in Carts : In(x) \subseteq In(x)'
  BY <1>1 DEF In, Carts
<1>6. \A x \in Carts : GoodsOf(In(x)) \subseteq GoodsOf(In(x))'
  BY <1>3, <1>5 DEF GoodsOf, Conserves, In
<1>7. ASSUME NEW u \in Visits, SameBut(u, FALSE, {g}) PROVE Bystander(u)
  <2>1. wanted' \ {g} \subseteq wanted
    BY <1>0
  <2>2. \A j \in Items : items'[j].cart # items[j].cart => items[j].good = g /\ items[j].cart = "none"
    BY <1>1
  <2>3. "guest" \in Carts
    BY DEF Carts
  <2> QED
    BY <1>0, <1>4, <1>6, <1>7, <2>1, <2>2, <2>3 DEF Bystander
<1>8. CartsUnowned'
  <2>1. \A j \in Items : Active(items'[j].cart) /\ items'[j].cart \in Carts => Unowned(j)
    BY <1>0, <1>1 DEF CheckoutInv, CartsUnowned, UnusedUnowned
  <2> QED
    BY <1>0, <1>3, <1>4, <2>1, UnownedStays DEF CartsUnowned
<1>9. NothingForgotten'
  <2>1. ASSUME NEW h \in wanted, NEW j \in Items, items[j].good = h, items[j].cart \in Carts, carts[items[j].cart] = "active"
        PROVE  items'[j].good = h /\ items'[j].cart \in Carts /\ carts'[items'[j].cart] = "active"
    BY <1>0, <1>1, <2>1 DEF Carts
  <2>2. ~visit[v].overtaken => carts[c] = "active"
    BY <1>0 DEF Undisturbed, Active, c
  <2> QED
    BY <1>0, <1>1, <2>1, <2>2 DEF CheckoutInv, NothingForgotten
<1> QED
  BY <1>0, <1>2, <1>3, <1>7, <1>8, <1>9, NoOrderPlaced, Assembles

-----------------------------------------------------------------------------
(* Merging.                                                                 *)

LEMMA MergedItems ==
    ASSUME CheckoutTypeOK, NEW v \in Visits, NEW S \in SUBSET Items, NEW gone \in {{}, In("user")},
           MergesItems(v, S, gone),
           \A i, j \in S : items[i].good = items[j].good => i = j
    PROVE  LET moved == Moved(S, In("user") \ gone)
           IN  /\ items' \in [Items -> Item]
               /\ \A i \in Items :
                    /\ items'[i].good = items[i].good
                    /\ items'[i].cart = IF i \in moved THEN "user" ELSE IF i \in gone THEN "deleted" ELSE items[i].cart
               /\ \A i, j \in Items : items'[i].cart \in Carts /\ items'[i].cart = items'[j].cart
                                         /\ items'[i].good = items'[j].good => i = j
<1> DEFINE moved == Moved(S, In("user") \ gone)
           cartOf(i) == IF i \in moved THEN "user" ELSE IF i \in gone THEN "deleted" ELSE items[i].cart
<1>0. /\ moved \subseteq S
      /\ \A i \in moved, j \in In("user") \ gone : items[i].good # items[j].good
  BY DEF Moved, GoodsOf
<1>1. items' = [i \in Items |-> IF i \in moved THEN [items[i] EXCEPT !.cart = "user"] ELSE Deleted(gone)[i]]
  BY DEF MergesItems
<1> HIDE DEF moved
<1>2. ASSUME NEW i \in Items
      PROVE  items'[i] \in Item /\ items'[i].good = items[i].good /\ items'[i].cart = cartOf(i)
  <2>1. items[i] \in Item
    BY ItemFields
  <2>2. items'[i] = IF i \in moved THEN [items[i] EXCEPT !.cart = "user"]
                    ELSE IF i \in gone THEN [items[i] EXCEPT !.cart = "deleted"] ELSE items[i]
    BY <1>1 DEF Deleted
  <2> QED
    BY <2>1, <2>2 DEF Item, Carts
<1>3. items' \in [Items -> Item]
  <2> HIDE DEF cartOf
  <2> QED
    BY <1>1, <1>2
<1>4. ASSUME NEW i \in Items, NEW j \in Items, items'[i].cart \in Carts, items'[i].cart = items'[j].cart,
             items'[i].good = items'[j].good
      PROVE  i = j
  <2>1. items[i].good = items[j].good /\ cartOf(i) = cartOf(j) /\ cartOf(i) \in Carts
    BY <1>2, <1>4
  <2>2. CASE i \in moved /\ j \in moved
    BY <1>0, <2>1, <2>2
  <2>3. CASE i \notin moved /\ j \notin moved
    <3>1. items[i].cart = items[j].cart /\ items[i].cart \in Carts
      BY <2>1, <2>3 DEF Carts
    <3> QED
      BY <2>1, <3>1 DEF CheckoutTypeOK
  <2>4. ASSUME NEW x \in Items, NEW y \in Items, x \in moved, y \notin moved, cartOf(y) = "user"
        PROVE  items[x].good # items[y].good
    <3>1. y \in In("user") \ gone
      BY <2>4 DEF In
    <3> QED
      BY <1>0, <2>4, <3>1
  <2> QED
    BY <2>1, <2>2, <2>3, <2>4
<1> HIDE DEF cartOf
<1> QED
  BY <1>2, <1>3, <1>4 DEF moved, cartOf

\* A merge that moves the items S, all the guest's cart has but what v has missed, and
\* leaves the account's cart to be ordered.
LEMMA MergesItemsKeeps ==
    ASSUME CheckoutInv, NEW v \in Visits, NEW S \in SUBSET Items, NEW gone \in {{}, In("user")},
           MergesItems(v, S, gone),
           carts' \in [Carts -> {"active", "converted", "merged", "abandoned"}],
           carts'["user"] \in {"active", "converted"}, carts'["guest"] = "merged",
           \A i \in S : items[i].cart # "none",
           \A i, j \in S : items[i].good = items[j].good => i = j,
           \A i \in In("guest") : i \in S \/ items[i].good \in visit[v].missed,
           visit[v].overtaken \/ (carts'["user"] = "active" /\ \A i \in S : Unowned(i)),
           carts'["user"] = "active" => gone = In("user") \/ Active("user"),
           Active("user") => gone = {} /\ carts'["user"] = "active"
    PROVE  CheckoutInv'
<1> DEFINE moved == Moved(S, In("user") \ gone)
<1>0. /\ CheckoutTypeOK /\ UNCHANGED orders /\ GoodsOf(S) \in SUBSET Goods
      /\ wanted' = wanted \ (visit[v].missed \cup IF visit[v].overtaken THEN GoodsOf(S) ELSE {})
      /\ mixed' = IF visit[v].overtaken THEN mixed \cup moved ELSE mixed
      /\ moved \subseteq S
      /\ \A i \in S : i \in moved \/ \E j \in In("user") \ gone : items[j].good = items[i].good
  BY ItemFields DEF CheckoutInv, MergesItems, Moved, GoodsOf
<1>1. /\ items' \in [Items -> Item]
      /\ \A i \in Items :
           /\ items'[i].good = items[i].good
           /\ items'[i].cart = IF i \in moved THEN "user" ELSE IF i \in gone THEN "deleted" ELSE items[i].cart
      /\ \A i, j \in Items : items'[i].cart \in Carts /\ items'[i].cart = items'[j].cart
                                /\ items'[i].good = items'[j].good => i = j
  BY <1>0, MergedItems
<1>2. /\ visit' \in [Visits -> Progress] /\ visit'[v] = Away
      /\ \A u \in Visits : visit'[u] = Away \/ (u # v /\ SameBut(u, TRUE, GoodsOf(S)))
  BY <1>0, EndsEffect DEF MergesItems
<1> HIDE DEF moved
<1>3. CheckoutTypeOK' /\ Conserves
  <2>1. Conserves
    BY <1>0, <1>1 DEF Conserves
  <2> QED
    BY <1>0, <1>1, <1>2, <2>1 DEF CheckoutTypeOK
<1>4. \A i \in Items : items'[i].cart \in Carts => items'[i].cart = items[i].cart \/ i \in moved
  BY <1>1 DEF Carts
<1>5. \A g \in wanted' : g \in GoodsOf(In("guest")) => g \in GoodsOf(S)
  BY <1>0 DEF GoodsOf
<1>7. ASSUME NEW u \in Visits, SameBut(u, TRUE, GoodsOf(S)) PROVE Bystander(u)
  <2>1. \A i \in Items : items'[i].cart \in Carts /\ items'[i].cart # items[i].cart => items[i].good \in GoodsOf(S)
    BY <1>0, <1>4 DEF GoodsOf
  <2>2. wanted' \ GoodsOf(S) \subseteq wanted
    BY <1>0
  <2> QED
    BY <1>0, <1>5, <1>7, <2>1, <2>2 DEF Bystander
<1>8. CartsUnowned'
  <2> SUFFICES ASSUME NEW i \in Items, items'[i].cart \in Carts, carts'[items'[i].cart] = "active"
               PROVE  Unowned(i)'
    BY DEF CartsUnowned, Active
  <2>1. items'[i].cart = "user" /\ carts'["user"] = "active"
    BY DEF Carts
  <2>2. CASE i \in moved
    <3>1. CASE visit[v].overtaken
      BY <1>0, <2>2, <3>1 DEF Unowned
    <3>2. CASE ~visit[v].overtaken
      BY <1>0, <1>3, <2>2, <3>2, UnownedStays
    <3> QED
      BY <3>1, <3>2
  <2>3. CASE i \notin moved
    <3>1. items[i].cart = "user" /\ i \notin gone /\ "user" \in Carts
      BY <1>1, <2>1, <2>3 DEF Carts
    <3>2. Active("user")
      BY <2>1, <3>1 DEF In
    <3> QED
      BY <1>0, <1>3, <3>1, <3>2, UnownedStays DEF CheckoutInv, CartsUnowned
  <2> QED
    BY <2>2, <2>3
<1>9. NothingForgotten'
  <2> SUFFICES ASSUME NEW g \in wanted'
               PROVE \E i \in Items : items'[i].good = g /\ items'[i].cart \in Carts /\ carts'[items'[i].cart] = "active"
    BY DEF NothingForgotten
  <2>1. PICK i \in Items : items[i].good = g /\ items[i].cart \in Carts /\ carts[items[i].cart] = "active"
    BY <1>0 DEF CheckoutInv, NothingForgotten
  <2>2. CASE items[i].cart = "user"
    <3>1. gone = {} /\ carts'["user"] = "active"
      BY <2>1, <2>2 DEF Active
    <3>2. items'[i].cart = "user" /\ items'[i].good = g
      BY <1>1, <2>1, <2>2, <3>1
    <3> QED
      BY <3>1, <3>2 DEF Carts
  <2>3. CASE items[i].cart = "guest"
    <3>1. i \in S
      BY <1>0, <2>1, <2>3 DEF In
    <3>2. ~visit[v].overtaken
      BY <1>0, <2>1, <3>1 DEF GoodsOf
    <3>3. \E j \in Items : items'[j].good = g /\ items'[j].cart = "user"
      <4>1. CASE i \in moved
        BY <1>1, <2>1, <4>1
      <4>2. CASE i \notin moved
        <5>1. PICK j \in In("user") \ gone : items[j].good = g
          BY <1>0, <2>1, <3>1, <4>2
        <5>2. j \in Items /\ items'[j].cart = "user" /\ items'[j].good = g
          BY <1>1, <5>1 DEF In
        <5> QED
          BY <5>2
      <4> QED
        BY <4>1, <4>2
    <3> QED
      BY <3>2, <3>3 DEF Carts
  <2> QED
    BY <2>1, <2>2, <2>3 DEF Carts
<1> QED
  BY <1>0, <1>2, <1>3, <1>7, <1>8, <1>9, NoOrderPlaced, Assembles

LEMMA MergesKeeps ==
    ASSUME CheckoutInv, NEW v \in Visits, Merges(v)
    PROVE  CheckoutInv'
<1> DEFINE S == visit[v].lines
<1>0. /\ CheckoutTypeOK /\ Knows(v) /\ (visit[v].overtaken \/ Undisturbed(v)) /\ Under(v, "into")
      /\ S \in SUBSET Items /\ MergesItems(v, S, {}) /\ carts' = [carts EXCEPT !["guest"] = "merged"]
  BY ProgressFields DEF CheckoutInv, Merges
<1>1. /\ carts' \in [Carts -> {"active", "converted", "merged", "abandoned"}]
      /\ carts'["user"] = carts["user"] /\ carts["user"] \in {"active", "converted"} /\ carts'["guest"] = "merged"
  BY <1>0 DEF CheckoutTypeOK, Carts
<1>2. /\ \A i \in S : items[i].cart # "none"
      /\ \A i, j \in S : items[i].good = items[j].good => i = j
      /\ \A i \in In("guest") : i \in S \/ items[i].good \in visit[v].missed
  BY <1>0 DEF Knows
<1>3. visit[v].overtaken \/ (Active("user") /\ \A i \in S : Unowned(i))
  BY <1>0 DEF Undisturbed
<1> QED
  BY <1>0, <1>1, <1>2, <1>3, MergesItemsKeeps DEF Active

LEMMA ReopensAndMergesKeeps ==
    ASSUME CheckoutInv, NEW v \in Visits, ReopensAndMerges(v)
    PROVE  CheckoutInv'
<1> DEFINE S == In("guest")
<1>0. /\ CheckoutTypeOK /\ Knows(v) /\ (visit[v].overtaken \/ Undisturbed(v)) /\ Under(v, "merge")
      /\ ~Active("user") /\ MergesItems(v, S, In("user"))
      /\ carts' = [carts EXCEPT !["guest"] = "merged", !["user"] = "active"]
  BY DEF CheckoutInv, ReopensAndMerges
<1>1. /\ carts' \in [Carts -> {"active", "converted", "merged", "abandoned"}]
      /\ carts'["user"] = "active" /\ carts'["guest"] = "merged" /\ "guest" \in Carts
  BY <1>0 DEF CheckoutTypeOK, Carts
<1>2. visit[v].overtaken \/ Active("guest")
  BY <1>0 DEF Knows, Undisturbed
<1>3. /\ S \in SUBSET Items /\ \A i \in S : items[i].cart # "none"
      /\ \A i, j \in S : items[i].good = items[j].good => i = j
      /\ visit[v].overtaken \/ \A i \in S : Unowned(i)
  BY <1>1, <1>2, CartRead
<1> QED
  BY <1>0, <1>1, <1>3, MergesItemsKeeps

-----------------------------------------------------------------------------
(* Placing an order.                                                        *)

LEMMA PlacedOrder ==
    ASSUME CheckoutTypeOK, NEW v \in Visits, Places(v)
    PROVE  LET last == Len(orders) + 1
           IN  /\ orders' \in Seq(Order) /\ last \notin DOMAIN orders
               /\ DOMAIN orders' = DOMAIN orders \cup {last}
               /\ \A n \in DOMAIN orders : orders'[n] = orders[n]
               /\ orders'[last].lines = visit[v].lines
               /\ orders'[last].coupon = Under(v, "priced")
               /\ orders'[last].overtaken = visit[v].overtaken
               /\ orders'[last].added = (visit[v].missed # {})
<1> DEFINE made == [lines |-> visit[v].lines, coupon |-> Under(v, "priced"),
                    overtaken |-> visit[v].overtaken, added |-> visit[v].missed # {}]
<1>0. /\ made.lines = visit[v].lines /\ made.coupon = Under(v, "priced")
      /\ made.overtaken = visit[v].overtaken /\ made.added = (visit[v].missed # {})
  OBVIOUS
<1>1. made \in Order
  <2>1. /\ visit[v].lines \in SUBSET Items /\ visit[v].overtaken \in BOOLEAN
        /\ Under(v, "priced") \in BOOLEAN
    BY ProgressFields DEF Under
  <2> QED
    BY <2>1 DEF Order
<1>2. orders' = Append(orders, made) /\ orders \in Seq(Order)
  BY DEF Places, CheckoutTypeOK
<1> HIDE DEF made
<1>3. /\ orders' \in Seq(Order) /\ Len(orders) \in Nat /\ Len(orders') = Len(orders) + 1
      /\ DOMAIN orders = 1 .. Len(orders) /\ DOMAIN orders' = 1 .. Len(orders) + 1
      /\ \A n \in 1 .. Len(orders) : orders'[n] = orders[n]
      /\ orders'[Len(orders) + 1] = made
  BY <1>1, <1>2
<1>4. /\ Len(orders) + 1 \notin DOMAIN orders
      /\ DOMAIN orders' = DOMAIN orders \cup {Len(orders) + 1}
  BY <1>3
<1> QED
  BY <1>0, <1>3, <1>4

\* A coupon goes with the order if it was priced with one; the usages others see are
\* those committed before.
LEMMA PlacesKeepsCoupons ==
    ASSUME CheckoutInv, NEW v \in Visits, Places(v)
    PROVE  CouponOnItsTerms'
<1> DEFINE last == Len(orders) + 1
           Timely == {n \in Usages : ~orders[n].overtaken}
<1>0. CheckoutTypeOK /\ Knows(v) /\ (visit[v].overtaken \/ Undisturbed(v)) /\ CouponOnItsTerms
  BY DEF CheckoutInv
<1>1. /\ last \notin DOMAIN orders /\ DOMAIN orders' = DOMAIN orders \cup {last}
      /\ \A n \in DOMAIN orders : orders'[n] = orders[n]
      /\ orders'[last].lines = visit[v].lines /\ orders'[last].coupon = Under(v, "priced")
      /\ orders'[last].overtaken = visit[v].overtaken /\ orders'[last].added = (visit[v].missed # {})
  BY <1>0, PlacedOrder
<1> HIDE DEF last
<1>2. Usages' = IF Under(v, "priced") THEN Usages \cup {last} ELSE Usages
  BY <1>1 DEF Usages
<1>3. \A n \in Usages' : Cardinality(orders'[n].lines) >= MinLines \/ orders'[n].added
  BY <1>0, <1>1, <1>2 DEF Knows, CouponOnItsTerms, Usages
<1>4. /\ IsFiniteSet(Usages) /\ Cardinality(Usages) \in Nat /\ last \notin Usages
      /\ Timely \subseteq Usages
  BY <1>0, <1>1, UsagesFinite DEF Usages
<1>5. Cardinality(Timely') <= UsageLimit
  <2>1. CASE Under(v, "priced") /\ ~visit[v].overtaken
    <3>1. Cardinality(Usages) < UsageLimit
      BY <1>0, <2>1 DEF Undisturbed
    <3>2. /\ IsFiniteSet(Usages \cup {last})
          /\ Cardinality(Usages \cup {last}) = Cardinality(Usages) + 1
      BY <1>4, FS_AddElement
    <3>3. Timely' \subseteq Usages \cup {last}
      BY <1>2
    <3>4. Cardinality(Timely') <= Cardinality(Usages) + 1 /\ Cardinality(Timely') \in Nat
      BY <3>2, <3>3, FS_Subset, FS_CardinalityType
    <3> QED
      BY <1>4, <3>1, <3>4, CheckoutAssumption
  <2>2. CASE ~(Under(v, "priced") /\ ~visit[v].overtaken)
    <3>1. Timely' = Timely
      BY <1>1, <1>2, <2>2 DEF Usages
    <3> QED
      BY <1>0, <3>1 DEF CouponOnItsTerms
  <2> QED
    BY <2>1, <2>2
<1> QED
  BY <1>3, <1>5 DEF CouponOnItsTerms

LEMMA PlacesKeeps ==
    ASSUME CheckoutInv, NEW v \in Visits, Places(v)
    PROVE  CheckoutInv'
<1> DEFINE c == visit[v].cart
           S == visit[v].lines
           last == Len(orders) + 1
<1>0. /\ CheckoutTypeOK /\ Knows(v) /\ (visit[v].overtaken \/ Undisturbed(v)) /\ Ordering(v)
      /\ UNCHANGED <<items, mixed>> /\ carts' = [carts EXCEPT ![c] = "converted"]
      /\ wanted' = wanted \ (GoodsOf(S) \cup visit[v].missed)
      /\ c \in Carts /\ S \subseteq Items /\ visit[v].overtaken \in BOOLEAN
  BY ProgressFields DEF CheckoutInv, Places, Ordering
<1>1. /\ orders' \in Seq(Order) /\ last \notin DOMAIN orders
      /\ DOMAIN orders' = DOMAIN orders \cup {last}
      /\ \A n \in DOMAIN orders : orders'[n] = orders[n]
      /\ orders'[last].lines = S /\ orders'[last].overtaken = visit[v].overtaken
  BY <1>0, PlacedOrder
<1>2. /\ visit' \in [Visits -> Progress] /\ visit'[v] = Away
      /\ \A u \in Visits : visit'[u] = Away \/ (u # v /\ SameBut(u, TRUE, {}))
  BY <1>0, EndsEffect DEF Places
<1> HIDE DEF c, S, last
<1>3. CheckoutTypeOK' /\ Conserves
  BY <1>0, <1>1, <1>2 DEF CheckoutTypeOK, Conserves, Carts
<1>4. /\ \A x \in Carts : Active(x)' <=> Active(x) /\ x # c
      /\ \A x : In(x)' = In(x) /\ GoodsOf(In(x))' = GoodsOf(In(x))
  BY <1>0 DEF Active, In, GoodsOf, CheckoutTypeOK
<1>5. \A i \in In(c) : items[i].good \notin wanted'
  BY <1>0 DEF Knows, GoodsOf, c, S
<1>6. \A i \in Items : Unowned(i) /\ (i \notin S \/ visit[v].overtaken) => Unowned(i)'
  BY <1>0, <1>1 DEF Unowned
<1>7. ASSUME NEW u \in Visits, SameBut(u, TRUE, {}) PROVE Bystander(u)
  <2>1. \A g \in wanted' : Active("guest") /\ g \in GoodsOf(In("guest"))
                             => Active("guest")' /\ g \in GoodsOf(In("guest"))'
    BY <1>4, <1>5 DEF GoodsOf, Carts
  <2>2. wanted' \ {} \subseteq wanted /\ \A i \in Items : items'[i].cart = items[i].cart
    BY <1>0
  <2> QED
    BY <1>7, <2>1, <2>2 DEF Bystander
<1>8. CartsUnowned'
  <2> SUFFICES ASSUME NEW i \in Items, items[i].cart \in Carts, Active(items[i].cart), items[i].cart # c
               PROVE  Unowned(i)'
    BY <1>0, <1>4 DEF CartsUnowned, Active
  <2>1. ~visit[v].overtaken => i \notin S
    BY <1>0 DEF Undisturbed, Carts, c, S
  <2> QED
    BY <1>0, <1>6, <2>1 DEF CheckoutInv, CartsUnowned
<1>9. UnusedUnowned'
  <2>1. \A i \in S : items[i].cart # "none"
    BY <1>0 DEF Knows, S
  <2> QED
    BY <1>0, <1>6, <2>1 DEF CheckoutInv, UnusedUnowned
<1>10. OrderedOnce'
  <2>1. \A i \in S, n \in DOMAIN orders :
          i \in orders[n].lines => orders[n].overtaken \/ visit[v].overtaken \/ i \in mixed
    BY <1>0 DEF Undisturbed, Unowned, S
  <2> QED
    BY <1>0, <1>1, <2>1 DEF CheckoutInv, OrderedOnce
<1>11. NothingForgotten'
  <2> SUFFICES ASSUME NEW g \in wanted'
               PROVE \E i \in Items : items'[i].good = g /\ items'[i].cart \in Carts /\ carts'[items'[i].cart] = "active"
    BY DEF NothingForgotten
  <2>1. PICK i \in Items : items[i].good = g /\ items[i].cart \in Carts /\ Active(items[i].cart)
    BY <1>0 DEF CheckoutInv, NothingForgotten, Active
  <2>2. items[i].cart # c
    BY <1>5, <2>1 DEF In
  <2> QED
    BY <1>0, <1>4, <2>1, <2>2 DEF Active
<1> QED
  BY <1>2, <1>3, <1>7, <1>8, <1>9, <1>10, <1>11, PlacesKeepsCoupons, Assembles

\* get_cart_by_session gives up a cart: what was in it can no longer be ordered.
LEMMA ExpiresKeeps ==
    ASSUME CheckoutInv, NEW v \in Visits, Expires(v)
    PROVE  CheckoutInv'
<1>0. /\ CheckoutTypeOK /\ UNCHANGED <<items, orders, mixed>>
      /\ carts' = [carts EXCEPT !["guest"] = "abandoned"]
      /\ wanted' = wanted \ GoodsOf(In("guest"))
  BY DEF CheckoutInv, Expires
<1>1. /\ carts' \in [Carts -> {"active", "converted", "merged", "abandoned"}]
      /\ carts'["user"] = carts["user"] /\ carts'["guest"] = "abandoned"
  BY <1>0 DEF CheckoutTypeOK, Carts
<1>2. /\ visit' \in [Visits -> Progress] /\ visit'[v] = Away
      /\ \A u \in Visits : visit'[u] = Away \/ (u # v /\ SameBut(u, TRUE, {}))
  BY <1>0, EndsEffect DEF Expires
<1>3. CheckoutTypeOK' /\ Conserves
  BY <1>0, <1>1, <1>2 DEF CheckoutTypeOK, Conserves
<1>4. \A g \in wanted' : g \notin GoodsOf(In("guest"))
  BY <1>0
<1>5. ASSUME NEW u \in Visits, SameBut(u, TRUE, {}) PROVE Bystander(u)
  BY <1>0, <1>4, <1>5 DEF Bystander
<1>6. \A c \in Carts : Active(c)' => Active(c)
  BY <1>1 DEF Active, Carts
<1>7. CartsUnowned'
  BY <1>0, <1>3, <1>6, UnownedStays DEF CheckoutInv, CartsUnowned
<1>8. NothingForgotten'
  <2> SUFFICES ASSUME NEW g \in wanted'
               PROVE \E i \in Items : items'[i].good = g /\ items'[i].cart \in Carts /\ carts'[items'[i].cart] = "active"
    BY DEF NothingForgotten
  <2>1. PICK i \in Items : items[i].good = g /\ items[i].cart \in Carts /\ carts[items[i].cart] = "active"
    BY <1>0 DEF CheckoutInv, NothingForgotten
  <2>2. items[i].cart # "guest"
    BY <1>4, <2>1 DEF GoodsOf, In
  <2> QED
    BY <1>0, <1>1, <2>1, <2>2 DEF Carts
<1> QED
  BY <1>0, <1>2, <1>3, <1>5, <1>7, <1>8, NoOrderPlaced, Assembles

-----------------------------------------------------------------------------
(* The theorems.                                                            *)

LEMMA CheckoutStarts == CheckoutInit => CheckoutInv
<1> SUFFICES ASSUME CheckoutInit PROVE CheckoutInv
  OBVIOUS
<1>1. \A i \in Items : items[i].cart = "none" /\ items[i] \in Item
  BY DEF CheckoutInit, Item
<1>2. DOMAIN orders = {} /\ orders \in Seq(Order) /\ mixed = {} /\ wanted = {}
  BY DEF CheckoutInit
<1>3. \A v \in Visits : visit[v] = Away
  BY DEF CheckoutInit
<1>4. CheckoutTypeOK
  BY <1>1, <1>2, AwayIsProgress DEF CheckoutInit, CheckoutTypeOK, Carts
<1>5. CartsUnowned /\ UnusedUnowned
  BY <1>2 DEF CartsUnowned, UnusedUnowned, Unowned
<1>6. CouponOnItsTerms
  <2>1. Usages = {}
    BY <1>2 DEF Usages
  <2>2. {n \in Usages : ~orders[n].overtaken} = {}
    BY <2>1
  <2> QED
    BY <2>1, <2>2, FS_EmptySet, CheckoutAssumption DEF CouponOnItsTerms
<1>7. OrderedOnce /\ NothingForgotten
  BY <1>2 DEF OrderedOnce, NothingForgotten
<1> QED
  BY <1>3, <1>4, <1>5, <1>6, <1>7, AwayKnows DEF CheckoutInv

LEMMA CheckoutSteps == CheckoutInv /\ [CheckoutNext]_checkoutVars => CheckoutInv'
<1> SUFFICES ASSUME CheckoutInv, [CheckoutNext]_checkoutVars PROVE CheckoutInv'
  OBVIOUS
<1>1. ASSUME NEW v \in Visits, NEW c \in Carts, Resolves(v, c) PROVE CheckoutInv'
  BY <1>1, ResolvesKeeps
<1>2. ASSUME NEW v \in Visits, Expires(v) \/ FindsNone(v) \/ Empties(v) \/ Reopens(v)
      PROVE  CheckoutInv'
  BY <1>2, ExpiresKeeps, FindsNoneKeeps, EmptiesKeeps, ReopensKeeps
<1>3. ASSUME NEW v \in Visits, NEW g \in Goods, Adds(v, g) PROVE CheckoutInv'
  BY <1>3, AddsKeeps
<1>4. ASSUME NEW v \in Visits, ClearCart(v) \/ \E i \in Items : RemoveItem(v, i) PROVE CheckoutInv'
  BY <1>4, RemovesKeeps DEF ClearCart, RemoveItem
<1>5. ASSUME NEW v \in Visits, ReadsLines(v) \/ PricesCoupon(v) \/ Places(v) PROVE CheckoutInv'
  BY <1>5, ReadsLinesKeeps, PricesCouponKeeps, PlacesKeeps
<1>6. ASSUME NEW v \in Visits, StartsMerge(v) \/ FindsUserCart(v) \/ Merges(v) \/ ReopensAndMerges(v)
      PROVE  CheckoutInv'
  BY <1>6, StartsMergeKeeps, FindsUserCartKeeps, MergesKeeps, ReopensAndMergesKeeps
<1>7. ASSUME NEW v \in Visits, Leaves(v) PROVE CheckoutInv'
  BY <1>7, LeavesKeeps
<1>8. CASE UNCHANGED checkoutVars
  <2>1. CheckoutTypeOK'
    BY <1>8 DEF checkoutVars, CheckoutInv, CheckoutTypeOK
  <2>2. CartsUnowned' /\ UnusedUnowned'
    BY <1>8 DEF checkoutVars, CheckoutInv, CartsUnowned, UnusedUnowned, Unowned, Active
  <2>3. \A v \in Visits : Knows(v)' /\ (visit'[v].overtaken \/ Undisturbed(v)')
    <3>1. visit' = visit /\ wanted' = wanted
      BY <1>8 DEF checkoutVars
    <3>2. /\ \A x : In(x)' = In(x) /\ Active(x)' = Active(x) /\ Unowned(x)' = Unowned(x)
          /\ Usages' = Usages /\ GoodsOf(In("guest"))' = GoodsOf(In("guest")) /\ items' = items
      BY <1>8 DEF checkoutVars, In, Active, Unowned, Usages, GoodsOf
    <3>3. \A v : Ordering(v)' = Ordering(v) /\ \A p : Under(v, p)' = Under(v, p)
      BY <3>1 DEF Ordering, Under
    <3> SUFFICES ASSUME NEW v \in Visits PROVE Knows(v)' /\ (visit'[v].overtaken \/ Undisturbed(v)')
      OBVIOUS
    <3>4. Knows(v) /\ (visit[v].overtaken \/ Undisturbed(v))
      BY DEF CheckoutInv
    <3>5. Knows(v)'
      BY <3>1, <3>2, <3>3, <3>4 DEF Knows
    <3>6. Undisturbed(v) => Undisturbed(v)'
      BY <3>1, <3>2, <3>3 DEF Undisturbed
    <3> QED
      BY <3>1, <3>4, <3>5, <3>6
  <2>4. CouponOnItsTerms' /\ OrderedOnce' /\ NothingForgotten'
    BY <1>8 DEF checkoutVars, CheckoutInv, CouponOnItsTerms, OrderedOnce, NothingForgotten, Usages
  <2> QED
    BY <2>1, <2>2, <2>3, <2>4 DEF CheckoutInv
<1> QED
  BY <1>1, <1>2, <1>3, <1>4, <1>5, <1>6, <1>7, <1>8 DEF CheckoutNext

\* Every request on the customer's carts knows, of the cart it holds a copy of, what it
\* has read or been made to miss, whoever reopens, merges, empties or orders it meanwhile.
THEOREM CheckoutInvariance == CheckoutSpec => []CheckoutInv
BY CheckoutStarts, CheckoutSteps, PTL DEF CheckoutSpec

\* place_order: among any number of concurrent checkouts, a coupon's usage limit is
\* exceeded only by orders another checkout has overtaken, and its minimum is undercut
\* only when something was put into the cart while the order was placed.
THEOREM CouponsOnTheirTerms == CheckoutSpec => []CouponOnItsTerms
<1>1. CheckoutInv => CouponOnItsTerms
  BY DEF CheckoutInv
<1> QED
  BY <1>1, CheckoutInvariance, PTL

\* place_order: no cart item is ordered twice unless a request overtook another.
THEOREM CartsOrderedOnce == CheckoutSpec => []OrderedOnce
<1>1. CheckoutInv => OrderedOnce
  BY DEF CheckoutInv
<1> QED
  BY <1>1, CheckoutInvariance, PTL

\* merge_guest_cart, get_or_create_user_cart and place_order: what a customer was told
\* is in a cart stays in one that can be ordered, until it is ordered or removed, or the
\* session's cart expires.
THEOREM CartsForgetNothing == CheckoutSpec => []NothingForgotten
<1>1. CheckoutInv => NothingForgotten
  BY DEF CheckoutInv
<1> QED
  BY <1>1, CheckoutInvariance, PTL

\* The customer's carts and what becomes of an order, side by side as MCOrders has them.
THEOREM OrdersInvariance == OrdersSpec => []OrdersInv
<1>1. OrdersInit => OrdersInv
  BY LifecycleInit, CheckoutStarts DEF OrdersInit, OrdersInv
<1>2. OrdersInv /\ [OrdersNext]_<<vars, checkoutVars>> => OrdersInv'
  <2> SUFFICES ASSUME OrdersInv, [OrdersNext]_<<vars, checkoutVars>> PROVE OrdersInv'
    OBVIOUS
  <2>1. BoundedNext => Next
    BY DEF BoundedNext, Next
  <2>2. [Next]_vars /\ [CheckoutNext]_checkoutVars
    BY <2>1 DEF OrdersNext
  <2> QED
    BY <2>2, LifecycleNext, CheckoutSteps DEF OrdersInv
<1> QED
  BY <1>1, <1>2, PTL DEF OrdersSpec
=============================================================================
