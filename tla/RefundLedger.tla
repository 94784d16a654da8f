---------------------------- MODULE RefundLedger ----------------------------
(***************************************************************************)
(* What refunds promise of one order, whoever asks for them and whatever    *)
(* fails: the amount given back only grows, stays within a cent of the      *)
(* price, and reaching it closes the order for good.                        *)
(***************************************************************************)
EXTENDS Integers

CONSTANTS Amount,   \* the price of the order, cents
          Asks      \* the amounts that may be asked for, cents

VARIABLES refunded, closed

AtPrice(total) == total - Amount \in -1..1

Init == refunded = 0 /\ closed = FALSE

(* One refund is entered, in full or in part.                               *)
Refund(cents) ==
  /\ ~closed
  /\ refunded + cents <= Amount + 1
  /\ refunded' = refunded + cents
  /\ closed' = AtPrice(refunded')

Next == \E cents \in Asks : Refund(cents)

Spec == Init /\ [][Next]_<<refunded, closed>>
=============================================================================
