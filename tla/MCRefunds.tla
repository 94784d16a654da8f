------------------------------ MODULE MCRefunds -----------------------------
(* Instances of Refunds for TLC: requests on one order of four cents, for a   *)
(* quarter, a half, the whole, or a cent over.  The first two requests are   *)
(* dispatched in the same millisecond.                                      *)
EXTENDS Refunds, TLC

CONSTANTS p1, p2, p3, ms1, ms2

Stamps == (p1 :> ms1) @@ (p2 :> ms1) @@ (p3 :> ms2)
=============================================================================
