------------------------------ MODULE Checkout ------------------------------
(***************************************************************************)
(* apps/cart/services.py, place_order of apps/orders/services.py and the   *)
(* terms of coupons: one customer's two carts, that of the session (guest) *)
(* and that of the account (user), and the orders placed from them.        *)
(*                                                                         *)
(* A view finds the cart, or reopens the account's only one, and hands its *)
(* copy to a service.  No service locks the cart or looks at its status    *)
(* again.  Quantities, prices and stock are left out, so is the coupon     *)
(* stored in the cart: a request may name one in any case.                 *)
(***************************************************************************)
EXTENDS Naturals, Sequences, FiniteSets

CONSTANTS
    Visits,     \* concurrent requests of the customer
    Goods,      \* product variants
    UsageLimit, \* the coupon's usage_limit
    MinLines,   \* its min_order_value, in lines
    MaxItems,   \* bound: rows of CartItem
    MaxOrders   \* bound: orders

ASSUME CheckoutAssumption == {UsageLimit, MinLines, MaxItems, MaxOrders} \subseteq Nat

VARIABLES
    carts,      \* the status of the two carts
    items,      \* CartItem rows
    orders,     \* the orders placed, each with the items it was made of
    visit,      \* each request's progress
    wanted,     \* history: what the customer was told is in a cart, and is not ordered
    mixed       \* history: items in carts by a request that was overtaken

checkoutVars == <<carts, items, orders, visit, wanted, mixed>>

Carts == {"user", "guest"}
Items == 1 .. MaxItems

\* phase  found: a cart is found; none: there was no active one; emptied: it is to be
\*        reopened; read, priced: an order is being placed; merge, into: a merge
\* had    the items prefetched with the cart: some, none; unread if it was reopened
\* lines  the items read, to be ordered or merged
\* overtaken, missed  history: since the request began another has closed or reopened a
\*        cart; the goods others have put into carts
Away == [phase |-> "away", cart |-> "user", had |-> "unread", lines |-> {}, overtaken |-> FALSE, missed |-> {}]

Item == [cart : Carts \cup {"none", "deleted"}, good : Goods]
Order == [lines : SUBSET Items, coupon : BOOLEAN, overtaken : BOOLEAN, added : BOOLEAN]
Progress ==
    [phase : {"away", "found", "none", "emptied", "read", "priced", "merge", "into"},
     cart : Carts, had : {"some", "none", "unread"}, lines : SUBSET Items,
     overtaken : BOOLEAN, missed : SUBSET Goods]

CheckoutTypeOK ==
    /\ carts \in [Carts -> {"active", "converted", "merged", "abandoned"}]
    /\ carts["user"] \in {"active", "converted"}
    /\ items \in [Items -> Item] /\ orders \in Seq(Order) /\ visit \in [Visits -> Progress]
    /\ wanted \subseteq Goods /\ mixed \subseteq Items
    /\ \A i, j \in Items : \* unique_together
          items[i].cart \in Carts /\ items[i].cart = items[j].cart /\ items[i].good = items[j].good => i = j

CheckoutInit ==
    /\ carts = [c \in Carts |-> "active"]
    /\ items \in [Items -> {[cart |-> "none", good |-> g] : g \in Goods}]
    /\ orders = <<>>
    /\ visit = [v \in Visits |-> Away]
    /\ wanted = {} /\ mixed = {}

-----------------------------------------------------------------------------

In(c) == {i \in Items : items[i].cart = c}
GoodsOf(S) == {items[i].good : i \in S}
Under(v, phase) == visit[v].phase = phase

Goes(v, phase) == visit' = [visit EXCEPT ![v].phase = phase]

\* Request v ends; others under way have been overtaken, or have missed the goods.
Ends(v, overtakes, goods) ==
    visit' = [u \in Visits |->
        IF u = v \/ Under(u, "away") THEN Away
        ELSE [visit[u] EXCEPT !.overtaken = @ \/ overtakes, !.missed = @ \cup goods]]

\* The same, of a step after which v goes on.
Reaches(v, phase) ==
    visit' = [u \in Visits |->
        IF u = v THEN [visit[u] EXCEPT !.phase = phase]
        ELSE IF Under(u, "away") THEN Away ELSE [visit[u] EXCEPT !.overtaken = TRUE]]

Deleted(S) == [i \in Items |-> IF i \in S THEN [items[i] EXCEPT !.cart = "deleted"] ELSE items[i]]

\* Mutant of Active: a cart is found whatever has become of it.
Present(c) == carts[c] # "merged"

\* get_cart_for_user, get_cart_by_session: status=ACTIVE
Active(c) == carts[c] = "active"

\* The view finds the cart; a guest's that is not active is left alone (bound: a session
\* has one cart).
Resolves(v, c) ==
    /\ Under(v, "away") /\ Active(c)
    /\ visit' = [visit EXCEPT ![v] = [Away EXCEPT !.phase = "found", !.cart = c,
                                        !.had = IF In(c) = {} THEN "none" ELSE "some"]]
    /\ UNCHANGED <<carts, items, orders, wanted, mixed>>

\* get_cart_by_session finds that the guest's cart has expired, and gives it up (bound: there
\* is no further one).
Expires(v) ==
    /\ Under(v, "away") /\ Active("guest")
    /\ carts' = [carts EXCEPT !["guest"] = "abandoned"]
    /\ wanted' = wanted \ GoodsOf(In("guest"))
    /\ Ends(v, TRUE, {})
    /\ UNCHANGED <<items, orders, mixed>>

\* get_or_create_user_cart: three statements, each committed by itself.
FindsNone(v) ==
    /\ Under(v, "away") /\ ~Active("user")
    /\ visit' = [visit EXCEPT ![v] = [Away EXCEPT !.phase = "none"]]
    /\ UNCHANGED <<carts, items, orders, wanted, mixed>>

Empties(v) ==
    /\ Under(v, "none")
    /\ items' = Deleted(In("user"))
    /\ wanted' = wanted \ visit[v].missed
    /\ Reaches(v, "emptied")
    /\ UNCHANGED <<carts, orders, mixed>>

Reopens(v) ==
    /\ Under(v, "emptied")
    /\ carts' = [carts EXCEPT !["user"] = "active"]
    /\ mixed' = IF visit[v].overtaken THEN mixed \cup In("user") ELSE mixed
    /\ Reaches(v, "found")
    /\ UNCHANGED <<items, orders, wanted>>

\* add_item: the item that has the variant, or one more.
Adds(v, g) ==
    LET c == visit[v].cart
        new == {i \in Items : items[i].cart = "none" /\ items[i].good = g}
    IN  /\ Under(v, "found")
        /\ IF g \in GoodsOf(In(c)) THEN items' = items
           ELSE \E i \in new : items' = [items EXCEPT ![i].cart = c]
        /\ wanted' = IF visit[v].overtaken THEN wanted ELSE wanted \cup {g}
        /\ Ends(v, FALSE, {g})
        /\ UNCHANGED <<carts, orders, mixed>>

\* remove_item, clear_cart
Removes(v, S) ==
    /\ Under(v, "found") /\ S \subseteq In(visit[v].cart)
    /\ items' = Deleted(S)
    /\ wanted' = wanted \ GoodsOf(S)
    /\ Ends(v, FALSE, {})
    /\ UNCHANGED <<carts, orders, mixed>>

RemoveItem(v, i) == Removes(v, {i})
ClearCart(v) == Removes(v, In(visit[v].cart))

\* place_order as far as it reads the items: whether there are any is answered by the
\* view's copy, and what they are by the database.
ReadsLines(v) ==
    LET now == In(visit[v].cart)
    IN  /\ Under(v, "found")
        /\ visit[v].had = "some" \/ (visit[v].had = "unread" /\ now # {})
        /\ visit' = [visit EXCEPT ![v].phase = "read", ![v].lines = now]
        /\ UNCHANGED <<carts, items, orders, wanted, mixed>>

Usages == {n \in DOMAIN orders : orders[n].coupon}

\* Mutant of Redeemable: off by one.
RedeemableOnceMore(c) == Cardinality(In(c)) >= MinLines /\ Cardinality(Usages) <= UsageLimit

\* validate_coupon: the cart is read again, and the usages committed so far are counted.
Redeemable(c) == Cardinality(In(c)) >= MinLines /\ Cardinality(Usages) < UsageLimit

PricesCoupon(v) ==
    /\ Under(v, "read") /\ Redeemable(visit[v].cart)
    /\ Goes(v, "priced")
    /\ UNCHANGED <<carts, items, orders, wanted, mixed>>

\* The rest of place_order writes the order, its items, their reservations, the cart and
\* the coupon's usage, which others see at the commit.
Places(v) ==
    LET lines == visit[v].lines
        made == [lines |-> lines, coupon |-> Under(v, "priced"), overtaken |-> visit[v].overtaken,
                 added |-> visit[v].missed # {}]
    IN  /\ Under(v, "read") \/ Under(v, "priced")
        /\ Len(orders) < MaxOrders
        /\ orders' = Append(orders, made)
        /\ carts' = [carts EXCEPT ![visit[v].cart] = "converted"]
        /\ wanted' = wanted \ (GoodsOf(lines) \cup visit[v].missed)
        /\ Ends(v, TRUE, {})
        /\ UNCHANGED <<items, mixed>>

\* merge_guest_cart, one transaction, reads the guest cart, with its items ...
StartsMerge(v) ==
    /\ Under(v, "away") /\ Active("guest") /\ In("guest") # {}
    /\ visit' = [visit EXCEPT ![v] = [Away EXCEPT !.phase = "merge", !.cart = "guest"]]
    /\ UNCHANGED <<carts, items, orders, wanted, mixed>>

\* ... then the account's, and what the guest cart holds by now ...
FindsUserCart(v) ==
    /\ Under(v, "merge") /\ Active("user")
    /\ visit' = [visit EXCEPT ![v].phase = "into", ![v].lines = In("guest")]
    /\ UNCHANGED <<carts, items, orders, wanted, mixed>>

\* Mutant of Moved: only the first item is moved.
MovedFirst(S, into) ==
    LET moved == {i \in S : items[i].good \notin GoodsOf(into)}
    IN  {i \in moved : \A j \in moved : i <= j}

\* The items of which the account's cart has none; the others raise its quantities.
Moved(S, into) == {i \in S : items[i].good \notin GoodsOf(into)}

\* ... and moves the items; it fails if one of them was deleted meanwhile.
MergesItems(v, S, gone) ==
    LET moved == Moved(S, In("user") \ gone)
    IN  /\ \A i \in S : items[i].cart # "deleted"
        /\ items' = [i \in Items |-> IF i \in moved THEN [items[i] EXCEPT !.cart = "user"] ELSE Deleted(gone)[i]]
        /\ wanted' = wanted \ (visit[v].missed \cup IF visit[v].overtaken THEN GoodsOf(S) ELSE {})
        /\ mixed' = IF visit[v].overtaken THEN mixed \cup moved ELSE mixed
        /\ Ends(v, TRUE, GoodsOf(S))
        /\ UNCHANGED orders

Merges(v) ==
    /\ Under(v, "into")
    /\ MergesItems(v, visit[v].lines, {})
    /\ carts' = [carts EXCEPT !["guest"] = "merged"]

\* If the account's cart is not active: the transaction that reopens and empties it holds
\* its row, so that all of this is seen at its commit.
ReopensAndMerges(v) ==
    /\ Under(v, "merge") /\ ~Active("user")
    /\ MergesItems(v, In("guest"), In("user"))
    /\ carts' = [carts EXCEPT !["guest"] = "merged", !["user"] = "active"]

\* The view answers, the service refuses (stock, prices, a coupon), or the worker dies.
Leaves(v) ==
    /\ ~Under(v, "away")
    /\ Ends(v, FALSE, {})
    /\ UNCHANGED <<carts, items, orders, wanted, mixed>>

CheckoutNext ==
    \E v \in Visits :
        \/ \E c \in Carts : Resolves(v, c)
        \/ Expires(v) \/ FindsNone(v) \/ Empties(v) \/ Reopens(v)
        \/ \E g \in Goods : Adds(v, g)
        \/ \E i \in Items : RemoveItem(v, i)
        \/ ClearCart(v)
        \/ ReadsLines(v) \/ PricesCoupon(v) \/ Places(v)
        \/ StartsMerge(v) \/ FindsUserCart(v) \/ Merges(v) \/ ReopensAndMerges(v)
        \/ Leaves(v)

CheckoutSpec == CheckoutInit /\ [][CheckoutNext]_checkoutVars

-----------------------------------------------------------------------------
(* Properties.                                                              *)

\* A coupon is given on its terms: beyond its usage limit only to orders whose request
\* another checkout has overtaken, and below its minimum only if something was put into
\* the cart while the order was placed.
CouponOnItsTerms ==
    /\ Cardinality({n \in Usages : ~orders[n].overtaken}) <= UsageLimit
    /\ \A n \in Usages : Cardinality(orders[n].lines) >= MinLines \/ orders[n].added

\* A cart becomes one order: no item is ordered twice, unless one of the orders was placed
\* while another request closed a cart, or the item's cart was reopened or filled by a
\* request that a checkout had overtaken.
OrderedOnce ==
    \A m, n \in DOMAIN orders : \A i \in orders[m].lines \cap orders[n].lines :
        m = n \/ orders[m].overtaken \/ orders[n].overtaken \/ i \in mixed

\* What the customer has put into a cart stays in one that can be ordered until it is
\* ordered or removed, or its guest cart expires, through every checkout, merge and
\* reopening that has not overlapped with putting it there.
NothingForgotten ==
    \A g \in wanted : \E i \in Items : items[i].good = g /\ items[i].cart \in Carts /\ carts[items[i].cart] = "active"

-----------------------------------------------------------------------------
(* What the properties rest on.                                             *)

\* An order that no checkout has overtaken is the only one that owns its items.
Unowned(i) == i \in mixed \/ \A n \in DOMAIN orders : i \in orders[n].lines => orders[n].overtaken

\* What a cart that can be ordered may still be ordered of.
CartsUnowned == \A i \in Items : items[i].cart \in Carts /\ Active(items[i].cart) => Unowned(i)
UnusedUnowned == \A i \in Items : items[i].cart = "none" => Unowned(i)

Ordering(v) == Under(v, "read") \/ Under(v, "priced")

\* What request v knows of its cart, whoever has overtaken it: what is not in the items
\* it has read was put there since.
Knows(v) ==
    /\ Under(v, "none") \/ Under(v, "emptied") => visit[v].cart = "user"
    /\ Under(v, "merge") \/ Under(v, "into") => visit[v].cart = "guest"
    /\ \A i \in visit[v].lines : items[i].cart # "none"
    /\ \A i, j \in visit[v].lines : items[i].good = items[j].good => i = j
    /\ Ordering(v) \/ Under(v, "into") =>
         \A i \in In(visit[v].cart) : i \in visit[v].lines \/ items[i].good \in visit[v].missed
    /\ Under(v, "priced") => Cardinality(visit[v].lines) >= MinLines \/ visit[v].missed # {}
    /\ Under(v, "none") /\ wanted \ visit[v].missed # {} =>
         Active("guest") /\ wanted \ visit[v].missed \subseteq GoodsOf(In("guest"))

\* What holds of a request that no checkout, merge or reopening has overtaken.
Undisturbed(v) ==
    /\ Under(v, "found") \/ Ordering(v) \/ Under(v, "merge") \/ Under(v, "into") => Active(visit[v].cart)
    /\ Under(v, "into") => Active("user")
    /\ Ordering(v) => \A i \in visit[v].lines : items[i].cart \in {visit[v].cart, "deleted"}
    /\ Ordering(v) \/ Under(v, "into") => \A i \in visit[v].lines : Unowned(i)
    /\ Under(v, "emptied") => \A i \in In("user") : Unowned(i)
    /\ Under(v, "priced") => Cardinality(Usages) < UsageLimit

\* The invariant: the three properties, and what every request under way may rely on.
CheckoutInv ==
    /\ CheckoutTypeOK
    /\ CartsUnowned /\ UnusedUnowned
    /\ \A v \in Visits : Knows(v) /\ (visit[v].overtaken \/ Undisturbed(v))
    /\ CouponOnItsTerms /\ OrderedOnce /\ NothingForgotten
=============================================================================
