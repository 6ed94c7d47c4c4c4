----------------------------- MODULE MCPayments -----------------------------
(* Ways to pay a gateway, for TLC: the attempts of an online order, bounded  *)
(* as in MCGatewayPayments, or the codes a counter shows.  Bound: one of the *)
(* two, as they are not of the same order.                                   *)
EXTENDS MCGatewayPayments, Collections

paymentsVars == <<mcVars, collectVars>>

PaymentsInit == BoundedInit /\ CollectInit

NothingBought == provider = "razorpay" /\ past = {"draft", "placed"} /\ txns = <<>> /\ begun = 0 /\ \A w \in Requests : Free(w)
NothingShown == byHand = 0 /\ ~voided /\ codes = <<>> /\ errand = [w \in Tills |-> Waiting]

PaymentsNext ==
    \/ NothingShown /\ BoundedNext /\ UNCHANGED collectVars
    \/ NothingBought /\ CollectNext /\ UNCHANGED mcVars

PaymentsSpec == PaymentsInit /\ [][PaymentsNext]_paymentsVars
=============================================================================
