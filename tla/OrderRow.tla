------------------------------ MODULE OrderRow ------------------------------
(***************************************************************************)
(* One row of payment_orders, and the bodies of the transactions of        *)
(* PaymentService that write it.  The operators are functions of a row      *)
(* record, so that each component keeps only the columns it needs and the   *)
(* columns it does not mention stay as they are.                            *)
(*                                                                         *)
(* Amounts are integer cents, as in the code after its boundary             *)
(* conversions.                                                             *)
(***************************************************************************)
EXTENDS Integers

CONSTANT Amount        \* order.amount: the price of the order, CNY cents

ASSUME AmountAssumption == Amount \in Nat \ {0}

(* The statuses of an order (enum OrderStatus) and its payment methods.    *)
Statuses == {"Expired", "Pending", "Paid", "Failed", "Refunding", "Refunded"}
Methods  == {"alipay", "paypal", "native"}

(* Amounts reported by a channel may differ by one cent (rounding).         *)
Tolerance == 1
Near(a, b) == a - b <= Tolerance /\ b - a <= Tolerance

(* Mutant: the foreign amount is not compared with the quote.                *)
AmountValidAnyQuote(r, cents, currency) ==
  currency = "USD" \/ Near(cents, Amount)

(* markPaid: the amount a channel reports is compared with the price, or    *)
(* with the foreign quote kept on the row; a quote of 0 stands for none.    *)
AmountValid(r, cents, currency) ==
  \/ currency = "CNY" /\ Near(cents, Amount)
  \/ currency = "USD" /\ r.quote # 0 /\ Near(cents, r.quote)

(* Mutant: the name sent over the WebSocket instead of the status.            *)
BookedRowNamed(r, tradeNo) == [r EXCEPT !.status = "paid", !.tradeNo = tradeNo]

BookedRow(r, tradeNo) == [r EXCEPT !.status = "Paid", !.tradeNo = tradeNo]

(* Mutant: the status is not checked again under the lock.                    *)
FailedRowAny(r) == [r EXCEPT !.status = "Failed"]

(* markFailed: only a Pending order fails.                                  *)
FailedRow(r) == IF r.status = "Pending" THEN [r EXCEPT !.status = "Failed"] ELSE r

(* Mutants: Refunding without a check, no rollback, a rollback to Failed.      *)
RefundingRowAny(r)     == [r EXCEPT !.status = "Refunding"]
RolledBackRowKept(r)   == r
RolledBackRowFailed(r) == [r EXCEPT !.status = "Failed"]

(* markRefunding and markRefundFailed silently keep any other status.       *)
RefundingRow(r) ==
  IF r.status = "Paid" THEN [r EXCEPT !.status = "Refunding"] ELSE r

RolledBackRow(r) ==
  IF r.status = "Refunding" THEN [r EXCEPT !.status = "Paid"] ELSE r

(* Mutants: no check of the total; exact comparison.                           *)
RefundAcceptedUncapped(r, cents) == r.status \in {"Paid", "Refunding"}
RefundedRowExact(r, cents, refundNo) ==
  [r EXCEPT !.refunded = r.refunded + cents,
            !.refundNo = refundNo,
            !.status   = IF r.refunded + cents = Amount
                         THEN "Refunded" ELSE r.status]

(* markRefunded: a settled refund number is a replay; otherwise the status   *)
(* must allow a refund and the running total stay within the price.         *)
RefundReplayed(r, refundNo) ==
  r.refundNo = refundNo /\ r.status = "Refunded"

RefundAccepted(r, cents) ==
  /\ r.status \in {"Paid", "Refunding"}
  /\ r.refunded + cents - Amount <= Tolerance

RefundedRow(r, cents, refundNo) ==
  [r EXCEPT !.refunded = r.refunded + cents,
            !.refundNo = refundNo,
            !.status   = IF Near(r.refunded + cents, Amount)
                         THEN "Refunded" ELSE r.status]

(* RefundService.execute: the amount asked for fits the refundable balance. *)
BalanceCovers(r, cents) == cents - (Amount - r.refunded) <= Tolerance
=============================================================================
