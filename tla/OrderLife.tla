------------------------------ MODULE OrderLife -----------------------------
(***************************************************************************)
(* A paid order between the two services that go on writing it: the refunds  *)
(* of RefundService, which gives money back in the currency that was paid,    *)
(* and PayPal's createOrder, which the cashier's switch-channel reaches       *)
(* whatever the status and the method of the order, and which replaces the   *)
(* quote that PayPal refunds are pro-rated with.  A request may stop at any   *)
(* of its awaits.                                                           *)
(***************************************************************************)
EXTENDS OrderRow, FiniteSets

CONSTANTS
  Tasks,      \* refund requests, each a process that runs once
  Requotes,   \* switch-channel requests, likewise
  Asks,       \* the amounts a refund may ask for, CNY cents
  Prices,     \* the prices in USD cents that exchange rates give
  NoNumber    \* refundTradeNo not set

ASSUME LifeAssumption ==
  Asks \subseteq Nat \ {0} /\ Prices \subseteq Nat \ {0} /\ NoNumber \notin Tasks

VARIABLES
  order,         \* the row of payment_orders
  paid,        \* by which channel it was paid, and how much in its currency
  task,        \* where each refund stands, its amount, the quote it looked up
  requote,     \* where each createOrder stands, and the entity it loaded
  given,       \* what was given back, in the currency that was paid
  pending,     \* the refunds PayPal took on and has not carried out, yet or ever
  owed,        \* what they amount to
  booked,      \* the refunds markRefunded entered
  requoted     \* was the quote replaced?

lifeVars == <<order, paid, task, requote, given, pending, owed, booked, requoted>>

Row == [status: {"Paid", "Refunding", "Refunded"}, payMethod: Methods,
        quote: Prices \union {0}, refunded: Nat, refundNo: Tasks \union {NoNumber}]

LifeTypeOK ==
  /\ order \in Row
  /\ paid \in [by: Methods, cents: Nat]
  /\ task \in [Tasks -> [at: {"idle", "mark", "dispatch", "rollback", "book", "end"},
                         cents: Asks \union {0}, quote: Prices \union {0}]]
  /\ \A h \in Requotes : requote[h].at \in {"idle", "save", "end"} /\ requote[h].copy \in Row
  /\ given \in Nat /\ pending \subseteq Tasks /\ owed \in Int
  /\ booked \subseteq Tasks
  /\ requoted \in BOOLEAN

(* An order just paid.  Alipay may have been opened by switch-channel on an   *)
(* order of another method, and so may PayPal, whose capture agrees with the  *)
(* quote to a cent; a native payment is confirmed on native orders.          *)
LifeInit ==
  /\ order \in [status: {"Paid"}, payMethod: Methods, quote: Prices \union {0},
              refunded: {0}, refundNo: {NoNumber}]
  /\ paid \in [by: Methods, cents: {Amount} \union UNION {q - 1 .. q + 1 : q \in Prices}]
  /\ AmountValid(order, paid.cents, IF paid.by = "paypal" THEN "USD" ELSE "CNY")
  /\ paid.by = "native" => order.payMethod = "native"
  /\ task = [t \in Tasks |-> [at |-> "idle", cents |-> 0, quote |-> 0]]
  /\ requote = [h \in Requotes |-> [at |-> "idle", copy |-> order]]
  /\ given = 0 /\ pending = {} /\ owed = 0
  /\ booked = {} /\ requoted = FALSE

Go(t, state) == task' = [task EXCEPT ![t].at = state]
requotes == <<paid, requote, requoted>>
money == <<given, pending, owed>>
-----------------------------------------------------------------------------
(* lookupOrder, whose entity goes on to dispatch, and the balance check.      *)
Lookup(t, cents) ==
  /\ task[t].at = "idle" /\ order.status = "Paid" /\ BalanceCovers(order, cents)
  /\ task' = [task EXCEPT ![t] = [at |-> "mark", cents |-> cents, quote |-> order.quote]]
  /\ UNCHANGED <<order, money, booked, requotes>>

MarkRefunding(t) ==
  /\ task[t].at = "mark"
  /\ order' = RefundingRow(order) /\ Go(t, "dispatch")
  /\ UNCHANGED <<money, booked, requotes>>

(* dispatch: Math.round of the share of the quote that the refund is of the   *)
(* price, for a PayPal order with a quote.                                  *)
Prorated(t) ==
  IF order.payMethod = "paypal" /\ task[t].quote # 0
    THEN (2 * task[t].cents * task[t].quote + Amount) \div (2 * Amount)
    ELSE task[t].cents

(* The gateway of the order's method gives back what was paid through it, and *)
(* no more; a native refund is a number, and the operator's hand.            *)
WithinPaid(t) == paid.by # "native" => given + Prorated(t) <= paid.cents

GatewayGives(t) ==
  \/ order.payMethod = paid.by /\ WithinPaid(t) /\ given' = given + Prorated(t)
  \/ order.payMethod = "native" /\ paid.by # "native" /\ UNCHANGED given

(* Or PayPal takes the refund on and leaves it pending, which counts as done.  *)
PayPalDefers(t) ==
  /\ order.payMethod = "paypal" /\ paid.by = "paypal" /\ WithinPaid(t)
  /\ pending' = pending \union {t} /\ owed' = owed + Prorated(t)

GatewayTakes(t) ==
  \/ GatewayGives(t) /\ UNCHANGED <<pending, owed>>
  \/ PayPalDefers(t) /\ UNCHANGED given

Dispatch(t) ==
  /\ task[t].at = "dispatch"
  /\ GatewayTakes(t) /\ Go(t, "book")
  /\ UNCHANGED <<order, booked, requotes>>

(* PayPal carries it out after all, or never; nobody asks.                    *)
PendingCompletes(t) ==
  /\ t \in pending /\ WithinPaid(t)
  /\ given' = given + Prorated(t)
  /\ pending' = pending \ {t} /\ owed' = owed - Prorated(t)
  /\ UNCHANGED <<order, task, booked, requotes>>

(* Mutant: a null answer is taken for a refund number.                       *)
DispatchFailsUnseen(t) ==
  /\ task[t].at = "dispatch" /\ order.payMethod # "native"
  /\ Go(t, "book")
  /\ UNCHANGED <<order, money, booked, requotes>>

(* The gateway refuses or is not reached; or its answer is lost.              *)
DispatchFails(t) ==
  /\ task[t].at = "dispatch" /\ order.payMethod # "native"
  /\ UNCHANGED money \/ GatewayTakes(t)
  /\ Go(t, "rollback")
  /\ UNCHANGED <<order, booked, requotes>>

MarkRefundFailed(t) ==
  /\ task[t].at = "rollback"
  /\ order' = RolledBackRow(order) /\ Go(t, "end")
  /\ UNCHANGED <<money, booked, requotes>>

MarkRefunded(t) ==
  /\ task[t].at = "book" /\ RefundAccepted(order, task[t].cents)
  /\ order' = RefundedRow(order, task[t].cents, t)
  /\ booked' = booked \union {t} /\ Go(t, "end")
  /\ UNCHANGED <<money, requotes>>

RefundRejected(t) ==
  /\ task[t].at = "book" /\ ~ RefundAccepted(order, task[t].cents) /\ Go(t, "end")
  /\ UNCHANGED <<order, money, booked, requotes>>
-----------------------------------------------------------------------------
(* createOrder loads the order and awaits the rate.                          *)
RequoteRead(h) ==
  /\ requote[h].at = "idle"
  /\ requote' = [requote EXCEPT ![h] = [at |-> "save", copy |-> order]]
  /\ UNCHANGED <<order, paid, task, money, booked, requoted>>

(* Then it saves every column as it loaded it, with the new quote.            *)
RequoteSave(h, q) ==
  /\ requote[h].at = "save"
  /\ order' = [requote[h].copy EXCEPT !.quote = q]
  /\ requote' = [requote EXCEPT ![h].at = "end"]
  /\ requoted' = (requoted \/ q # order.quote)
  /\ UNCHANGED <<paid, task, money, booked>>

Refund(t) ==
  \/ \E cents \in Asks : Lookup(t, cents)
  \/ MarkRefunding(t)
  \/ Dispatch(t)
  \/ DispatchFails(t)
  \/ MarkRefundFailed(t)
  \/ MarkRefunded(t)
  \/ RefundRejected(t)

Requote(h) == RequoteRead(h) \/ (\E q \in Prices : RequoteSave(h, q))

LifeNext ==
  \/ \E t \in Tasks : Refund(t) \/ PendingCompletes(t)
  \/ \E h \in Requotes : Requote(h)

LifeSpec == LifeInit /\ [][LifeNext]_lifeVars
-----------------------------------------------------------------------------
Short == paid.cents - given

(* What a cent of the price is worth in the currency that was paid, rounded up. *)
CentWorth == IF order.payMethod = "paypal" THEN (order.quote + Amount - 1) \div Amount
             ELSE Tolerance
Rounding == Tolerance + CentWorth + Cardinality(booked)

(* Who is refunded by the channel that was paid gets back what was paid, to a  *)
(* cent that the channel may have reported too much, a cent of the price that  *)
(* a full refund may leave, and one for each rounding, if the quote is the one *)
(* the payment was made with: whatever refunds were refused, lost, interleaved *)
(* or saved over by a createOrder (RefundService.execute, dispatch).  What     *)
(* PayPal left pending is excepted, and nothing beyond it: it may never come   *)
(* (PayPalService.refund).                                                  *)
FullyGivenBack ==
  (order.status = "Refunded" /\ order.payMethod = paid.by /\ ~ requoted) =>
    /\ Short - owed <= Rounding
    /\ pending = {} => Short <= Rounding

(* refund.service.ts:158: a refund is pro-rated with the rate captured on the  *)
(* order, whatever createOrder saves afterwards.                            *)
AtCapturedRate ==
  (order.status = "Refunded" /\ order.payMethod = paid.by /\ pending = {}) => Short <= Rounding
=============================================================================
