----------------------------- MODULE MCCheckout -----------------------------
(* Instances of Checkout for TLC: requests on one order, PayPal orders with   *)
(* quotes one cent apart and further apart.                                 *)
EXTENDS Checkout, TLC

CONSTANTS h1, h2, h3, t1, t2, t3

(* PayPal orders were opened before the requests under study, with quotes     *)
(* that differ by more than the tolerance; or none was; or three were, two    *)
(* of them with quotes within the tolerance.                                *)
OpenedBefore == (t1 :> 4) @@ (t2 :> 9)
NoneOpened   == (t1 :> 0) @@ (t2 :> 0)
OpenedThrice == (t1 :> 4) @@ (t2 :> 5) @@ (t3 :> 9)

Symmetry == Permutations(Handlers)
=============================================================================
