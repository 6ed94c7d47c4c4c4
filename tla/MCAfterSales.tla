---------------------------- MODULE MCAfterSales ----------------------------
(* What follows a paid order, for TLC: its refunds, its returns, and a mail  *)
(* about it; the three services share no row.  Bound: an order has the one   *)
(* or the other.                                                             *)
EXTENDS Refunds, Returns, Notifications, TLC

CONSTANTS w1, w2, s1, s2, i1

Symmetry == Permutations(Workers) \cup Permutations(Staff)

\* Every variable has its type, and what each service's steps rely on holds.
AfterSalesInv == RefundsInv /\ ReturnsInv /\ MailsInv

AfterSalesInit == Init /\ ReturnsInit /\ NotificationsInit

NoRefundYet ==
    /\ order.status = "delivered"
    /\ DOMAIN rows \cup DOMAIN gateway = {} /\ \A w \in Workers : Free(w)
NoReturnYet == reached = {}
NoMailYet == mail.status = "none"

AfterSalesNext ==
    \/ NoReturnYet /\ NoMailYet /\ Next /\ UNCHANGED <<returnsVars, mailVars>>
    \/ NoRefundYet /\ NoMailYet /\ ReturnsNext /\ UNCHANGED <<vars, mailVars>>
    \/ NoRefundYet /\ NoReturnYet /\ NotificationsNext /\ UNCHANGED <<vars, returnsVars>>

AfterSalesSpec == AfterSalesInit /\ [][AfterSalesNext]_<<vars, returnsVars, mailVars>>
=============================================================================
