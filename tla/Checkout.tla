------------------------------ MODULE Checkout ------------------------------
(***************************************************************************)
(* The payment side of one order: the requests that open a channel, the     *)
(* confirmations that book a payment, and the expiry job, interleaved on    *)
(* one row of payment_orders.  Orders share nothing, so one row suffices.   *)
(*                                                                         *)
(* A request is a process that runs once; it is split into actions at the   *)
(* awaits of its handler.  A handler that loads the row and saves it later  *)
(* keeps what it loaded in copy; save writes every column of the copy.      *)
(* The bodies of markPaid and markFailed run under a row lock and are one   *)
(* action each.                                                             *)
(***************************************************************************)
EXTENDS OrderRow, FiniteSets

CONSTANTS
  Handlers,     \* the requests served, each a process that runs once
  Notifier,     \* the process serving Alipay's notification, redelivered
  Tokens,       \* PayPal orders, each with at most one capture
  AlipayTrade,  \* the Alipay trade of this order (out_trade_no is unique)
  NoTrade,      \* thirdPartyTradeNo not set
  Quotes,       \* the USD quotes an exchange rate may give, in cents
  FirstQuote,   \* [Tokens -> quote already opened upstream, 0 for none]
  Requests,     \* the kinds of request that arrive
  CronRuns,     \* whether the order may reach its expireAt
  MaxCrashes    \* bound on the restarts of the server

Procs  == Handlers \union {Notifier}

(* A native confirmation books a trade number of its own, so the request    *)
(* itself stands for it.                                                    *)
Trades == Tokens \union Handlers \union {AlipayTrade}

ASSUME ProcAssumption  == Notifier \notin Handlers
ASSUME TradeAssumption ==
  /\ Tokens \intersect Handlers = {}
  /\ AlipayTrade \notin Tokens \union Handlers
  /\ NoTrade \notin Trades
ASSUME QuoteAssumption ==
  /\ Quotes \subseteq Nat \ {0}
  /\ FirstQuote \in [Tokens -> Quotes \union {0}]
ASSUME EnvAssumption ==
  /\ Requests \subseteq {"pay", "switch", "callback", "cashier", "confirm"}
  /\ CronRuns \in BOOLEAN
  /\ MaxCrashes \in Nat

VARIABLES
  row,       \* the row of payment_orders
  pc,        \* where each process stands
  copy,      \* the entity a handler loaded and will save, Blank when none
  trade,     \* the trade a process is about to book, or to fail, else NoTrade
  usd,       \* the USD amount of each PayPal order, 0 before it exists
  alipayOpen,\* Alipay knows the order (page or QR created)
  settled,   \* the trades that really moved money
  booked,    \* the trades markPaid credited to the order
  notified,  \* the trades of the 'paid' notifications enqueued
  acked,     \* Alipay got 'success' for its notification
  expired,   \* expireAt has passed
  selected,  \* the running UPDATE of the expiry job has selected the order
  crashes

vars == <<row, pc, copy, trade, usd, alipayOpen, settled, booked,
          notified, acked, expired, selected, crashes>>

Row == [status: Statuses, payMethod: Methods,
        tradeNo: Trades \union {NoTrade}, quote: Quotes \union {0}]

(* A process at a method's name is about to open that channel.               *)
PCs == Methods \union {"idle", "savePay", "quote", "create", "capture", "query",
                        "qr", "precreate", "requery", "book", "after", "fail",
                        "done"}

Blank == [status |-> "Pending", payMethod |-> "native", tradeNo |-> NoTrade,
          quote |-> 0]

TypeOK ==
  /\ row \in Row
  /\ pc \in [Procs -> PCs]
  /\ copy \in [Handlers -> Row]
  /\ trade \in [Procs -> Trades \union {NoTrade}]
  /\ usd \in [Tokens -> Quotes \union {0}]
  /\ alipayOpen \in BOOLEAN
  /\ settled \subseteq Trades
  /\ booked \subseteq Trades
  /\ notified \subseteq Trades
  /\ acked \in BOOLEAN
  /\ expired \in BOOLEAN
  /\ selected \in BOOLEAN
  /\ crashes \in 0..MaxCrashes

(* createOrder has inserted the row; the PayPal orders of FirstQuote were    *)
(* opened since, and the row carries the quote of one of them.              *)
OpenQuotes == {FirstQuote[t] : t \in Tokens} \ {0}

Init ==
  /\ row \in [status: {"Pending"}, payMethod: Methods, tradeNo: {NoTrade},
              quote: IF OpenQuotes = {} THEN {0} ELSE OpenQuotes]
  /\ pc = [p \in Procs |-> "idle"]
  /\ copy = [h \in Handlers |-> Blank]
  /\ trade = [p \in Procs |-> NoTrade]
  /\ usd = FirstQuote
  /\ alipayOpen = FALSE
  /\ settled = {} /\ booked = {} /\ notified = {}
  /\ acked = FALSE /\ expired = FALSE /\ selected = FALSE
  /\ crashes = 0

Goto(p, label) == pc' = [pc EXCEPT ![p] = label]

upstream == <<usd, alipayOpen, settled>>
ledger   == <<booked, notified, acked>>
clock    == <<expired, selected, crashes>>
-----------------------------------------------------------------------------
(* POST /gateway/pay on an existing externalOrderNo: createOrder loads the   *)
(* order and, if it is still payable by another method, saves it with the    *)
(* method asked for.  In every case that method's channel is opened next.   *)
PayLookup(h, m) ==
  /\ "pay" \in Requests
  /\ pc[h] = "idle"
  /\ IF row.status = "Pending" /\ ~expired /\ row.payMethod # m
     THEN /\ copy' = [copy EXCEPT ![h] = [row EXCEPT !.payMethod = m]]
          /\ Goto(h, "savePay")
     ELSE UNCHANGED copy /\ Goto(h, m)
  /\ UNCHANGED <<row, trade, upstream, ledger, clock>>

PaySave(h) ==
  /\ pc[h] = "savePay"
  /\ row' = copy[h]
  /\ copy' = [copy EXCEPT ![h] = Blank]
  /\ Goto(h, copy[h].payMethod)
  /\ UNCHANGED <<trade, upstream, ledger, clock>>

(* POST /native-pay/switch-channel opens a channel without createOrder: the  *)
(* payMethod of the order is not touched.                                   *)
SwitchChannel(h, m) ==
  /\ "switch" \in Requests
  /\ pc[h] = "idle"
  /\ m \in {"alipay", "paypal"}
  /\ Goto(h, m)
  /\ UNCHANGED <<row, copy, trade, upstream, ledger, clock>>

(* Native: only the cashier's URL is returned.                              *)
OpenNative(h) ==
  /\ pc[h] = "native"
  /\ Goto(h, "done")
  /\ UNCHANGED <<row, copy, trade, upstream, ledger, clock>>

(* Alipay createPagePay: a page exists upstream for a Pending order.         *)
OpenAlipay(h) ==
  /\ pc[h] = "alipay"
  /\ alipayOpen' = (alipayOpen \/ row.status = "Pending")
  /\ Goto(h, "done")
  /\ UNCHANGED <<row, copy, trade, usd, settled, ledger, clock>>

(* PayPal createOrder loads the order whatever its status, awaits the rate,  *)
(* saves the order with the quote, then creates the order upstream, which    *)
(* may fail.                                                                *)
QuoteRead(h) ==
  /\ pc[h] = "paypal"
  /\ copy' = [copy EXCEPT ![h] = row]
  /\ Goto(h, "quote")
  /\ UNCHANGED <<row, trade, upstream, ledger, clock>>

QuoteSave(h, q) ==
  /\ pc[h] = "quote"
  /\ copy' = [copy EXCEPT ![h].quote = q]
  /\ row' = [copy[h] EXCEPT !.quote = q]
  /\ Goto(h, "create")
  /\ UNCHANGED <<trade, upstream, ledger, clock>>

PayPalCreate(h, t) ==
  /\ pc[h] = "create"
  /\ usd[t] = 0
  /\ usd' = [usd EXCEPT ![t] = copy[h].quote]
  /\ copy' = [copy EXCEPT ![h] = Blank]
  /\ Goto(h, "done")
  /\ UNCHANGED <<row, trade, alipayOpen, settled, ledger, clock>>

PayPalCreateFails(h) ==
  /\ pc[h] = "create"
  /\ copy' = [copy EXCEPT ![h] = Blank]
  /\ Goto(h, "done")
  /\ UNCHANGED <<row, trade, upstream, ledger, clock>>
-----------------------------------------------------------------------------
(* GET /paypal/callback: an unlocked look at the status, then the capture.   *)
Callback(h, t) ==
  /\ "callback" \in Requests
  /\ pc[h] = "idle"
  /\ usd[t] # 0
  /\ row.status = "Pending"
  /\ trade' = [trade EXCEPT ![h] = t]
  /\ Goto(h, "capture")
  /\ UNCHANGED <<row, copy, upstream, ledger, clock>>

(* The capture completes and the response says so.                          *)
CaptureCompleted(h) ==
  /\ pc[h] = "capture"
  /\ trade[h] \notin settled
  /\ settled' = settled \union {trade[h]}
  /\ Goto(h, "book")
  /\ UNCHANGED <<row, copy, trade, usd, alipayOpen, ledger, clock>>

(* The capture completes but the call times out, or the response lacks the   *)
(* capture's id or amount: the handler goes on to markFailed.                *)
CaptureLost(h) ==
  /\ pc[h] = "capture"
  /\ trade[h] \notin settled
  /\ settled' = settled \union {trade[h]}
  /\ Goto(h, "fail")
  /\ UNCHANGED <<row, copy, trade, usd, alipayOpen, ledger, clock>>

(* Mutant: the capture's status is not read.                                  *)
CaptureUnread(h) ==
  /\ pc[h] = "capture"
  /\ Goto(h, "book")
  /\ UNCHANGED <<row, copy, trade, upstream, ledger, clock>>

(* Declined, not completed, already captured, or never reached PayPal.       *)
CaptureRefused(h) ==
  /\ pc[h] = "capture"
  /\ Goto(h, "fail")
  /\ UNCHANGED <<row, copy, trade, upstream, ledger, clock>>

MarkFailed(h) ==
  /\ pc[h] = "fail"
  /\ row' = FailedRow(row)
  /\ trade' = [trade EXCEPT ![h] = NoTrade]
  /\ Goto(h, "done")
  /\ UNCHANGED <<copy, upstream, ledger, clock>>
-----------------------------------------------------------------------------
(* GET /native-pay/cashier: an open order is checked with Alipay first.      *)
CashierInfo(h) ==
  /\ "cashier" \in Requests
  /\ pc[h] = "idle"
  /\ row.status \notin {"Paid", "Expired", "Failed"}
  /\ ~expired
  /\ Goto(h, "query")
  /\ UNCHANGED <<row, copy, trade, upstream, ledger, clock>>

AlipayPaid(h) ==
  /\ pc[h] \in {"query", "requery"}
  /\ AlipayTrade \in settled
  /\ trade' = [trade EXCEPT ![h] = AlipayTrade]
  /\ Goto(h, "book")
  /\ UNCHANGED <<row, copy, upstream, ledger, clock>>

(* Not paid there, or the query fails: a QR code is made unless a static one  *)
(* is set, and for a Pending order only.                                    *)
AlipayUnpaid(h) ==
  /\ pc[h] \in {"query", "requery"}
  /\ \E next \in IF pc[h] = "query" THEN {"qr", "done"} ELSE {"done"} : Goto(h, next)
  /\ UNCHANGED <<row, copy, trade, upstream, ledger, clock>>

QrRead(h) ==
  /\ pc[h] = "qr"
  /\ Goto(h, IF row.status = "Pending" THEN "precreate" ELSE "done")
  /\ UNCHANGED <<row, copy, trade, upstream, ledger, clock>>

(* Alipay finds the trade already paid, which leads to the same query; or     *)
(* knows the order from now on; or the call fails.                          *)
AlipayPrecreate(h) ==
  /\ pc[h] = "precreate"
  /\ \/ AlipayTrade \in settled /\ Goto(h, "requery") /\ UNCHANGED alipayOpen
     \/ AlipayTrade \notin settled /\ Goto(h, "done") /\ alipayOpen' = TRUE
     \/ Goto(h, "done") /\ UNCHANGED alipayOpen
  /\ UNCHANGED <<row, copy, trade, usd, settled, ledger, clock>>

(* POST /native-pay/confirm: the operator has received the money; status and *)
(* channel are checked on an unlocked read, then the order is booked.        *)
ConfirmNative(h) ==
  /\ "confirm" \in Requests
  /\ pc[h] = "idle"
  /\ row.status = "Pending"
  /\ row.payMethod \notin {"alipay", "paypal"}
  /\ trade' = [trade EXCEPT ![h] = h]
  /\ settled' = settled \union {h}
  /\ Goto(h, "book")
  /\ UNCHANGED <<row, copy, usd, alipayOpen, ledger, clock>>

(* Mutant: trade_status is not read.                                          *)
NotifyAnyStatus ==
  /\ pc[Notifier] = "idle"
  /\ trade' = [trade EXCEPT ![Notifier] = AlipayTrade]
  /\ Goto(Notifier, "book")
  /\ UNCHANGED <<row, copy, upstream, ledger, clock>>

(* POST /alipay/notify with TRADE_SUCCESS, delivered again at any time.      *)
AlipayNotify ==
  /\ pc[Notifier] = "idle"
  /\ AlipayTrade \in settled
  /\ trade' = [trade EXCEPT ![Notifier] = AlipayTrade]
  /\ Goto(Notifier, "book")
  /\ UNCHANGED <<row, copy, upstream, ledger, clock>>
-----------------------------------------------------------------------------
(* Mutant: Alipay's yuan taken for cents.                                     *)
CentsUnconverted(t) ==
  CASE t \in Tokens    -> usd[t]
    [] t = AlipayTrade -> Amount \div 100
    [] OTHER           -> Amount

(* markPaid.  The amount and currency are those of the trade: PayPal reports *)
(* the USD amount its order was created with, the others the order's price.  *)
Cents(t)    == IF t \in Tokens THEN usd[t] ELSE Amount
Currency(t) == IF t \in Tokens THEN "USD" ELSE "CNY"

Valid(p) == AmountValid(row, Cents(trade[p]), Currency(trade[p]))

(* A process that has finished: a request ends, the notifier answers Alipay. *)
Finish(p, answer) ==
  /\ Goto(p, IF p = Notifier THEN "idle" ELSE "done")
  /\ trade' = [trade EXCEPT ![p] = NoTrade]
  /\ acked' = (acked \/ (p = Notifier /\ answer = "success"))

(* Mutant: the status is not checked again under the lock.                    *)
BookUnchecked(p) ==
  /\ pc[p] = "book"
  /\ Valid(p)
  /\ row' = BookedRow(row, trade[p])
  /\ booked' = booked \union {trade[p]}
  /\ Goto(p, "after")
  /\ UNCHANGED <<copy, trade, upstream, notified, acked, clock>>

Book(p) ==
  /\ pc[p] = "book"
  /\ row.status = "Pending"
  /\ Valid(p)
  /\ row' = BookedRow(row, trade[p])
  /\ booked' = booked \union {trade[p]}
  /\ Goto(p, "after")
  /\ UNCHANGED <<copy, trade, upstream, notified, acked, clock>>

(* The amount does not match: markPaid throws, the callers log it, and       *)
(* Alipay is answered 'failure'.                                            *)
BookRejected(p) ==
  /\ pc[p] = "book"
  /\ row.status = "Pending"
  /\ ~Valid(p)
  /\ Finish(p, "failure")
  /\ UNCHANGED <<row, copy, upstream, booked, notified, clock>>

(* Not Pending: nothing is written, and a Paid order is announced again.     *)
BookSkipped(p) ==
  /\ pc[p] = "book"
  /\ row.status # "Pending"
  /\ IF row.status = "Paid"
     THEN Goto(p, "after") /\ UNCHANGED <<trade, acked>>
     ELSE Finish(p, "success")
  /\ UNCHANGED <<row, copy, upstream, booked, notified, clock>>

(* After the commit the notification is enqueued with the caller's trade.    *)
Announce(p) ==
  /\ pc[p] = "after"
  /\ notified' = notified \union {trade[p]}
  /\ Finish(p, "success")
  /\ UNCHANGED <<row, copy, upstream, booked, clock>>
(* Mutant: the failure of the insert is swallowed.                            *)
AnnounceSwallowed(p) ==
  /\ pc[p] = "after"
  /\ Finish(p, "success")
  /\ UNCHANGED <<row, copy, upstream, booked, notified, clock>>

(* The insert into the queue fails: the error reaches the caller, and Alipay *)
(* is answered 'failure'.                                                   *)
AnnounceFails(p) ==
  /\ pc[p] = "after"
  /\ Finish(p, "failure")
  /\ UNCHANGED <<row, copy, upstream, booked, notified, clock>>
-----------------------------------------------------------------------------
(* The customer pays on Alipay's page, also after the order has expired.     *)
AlipayPay ==
  /\ alipayOpen
  /\ AlipayTrade \notin settled
  /\ settled' = settled \union {AlipayTrade}
  /\ UNCHANGED <<row, pc, copy, trade, usd, alipayOpen, ledger, clock>>

Expire ==
  /\ CronRuns /\ ~expired
  /\ expired' = TRUE
  /\ UNCHANGED <<row, pc, copy, trade, upstream, ledger, selected,
                 crashes>>

(* The expiry job: UPDATE ... WHERE id IN (SELECT id ... Pending, expired).   *)
(* The subquery sees the snapshot of the statement; the row is written after *)
(* waiting for its lock, by id alone.                                       *)
CleanupSelect ==
  /\ CronRuns /\ expired /\ ~selected
  /\ row.status = "Pending"
  /\ selected' = TRUE
  /\ UNCHANGED <<row, pc, copy, trade, upstream, ledger, expired,
                 crashes>>

CleanupUpdate ==
  /\ selected
  /\ row' = [row EXCEPT !.status = "Expired"]
  /\ selected' = FALSE
  /\ UNCHANGED <<pc, copy, trade, upstream, ledger, expired, crashes>>

(* A restart drops every request in flight; the database keeps what was      *)
(* committed and Alipay delivers its notification again.                    *)
Crash ==
  /\ crashes < MaxCrashes
  /\ crashes' = crashes + 1
  /\ pc' = [p \in Procs |-> IF p = Notifier \/ pc[p] = "idle"
                            THEN "idle" ELSE "done"]
  /\ copy' = [h \in Handlers |-> Blank]
  /\ trade' = [p \in Procs |-> NoTrade]
  /\ selected' = FALSE
  /\ UNCHANGED <<row, upstream, ledger, expired>>
-----------------------------------------------------------------------------
OpenChannel(h) ==
  \/ \E m \in Methods : PayLookup(h, m) \/ SwitchChannel(h, m)
  \/ PaySave(h) \/ OpenNative(h) \/ OpenAlipay(h) \/ QuoteRead(h)
  \/ \E q \in Quotes : QuoteSave(h, q)
  \/ \E t \in Tokens : PayPalCreate(h, t)
  \/ PayPalCreateFails(h)

Confirmation(h) ==
  \/ \E t \in Tokens : Callback(h, t)
  \/ CaptureCompleted(h) \/ CaptureLost(h) \/ CaptureRefused(h)
  \/ MarkFailed(h)
  \/ CashierInfo(h) \/ AlipayPaid(h) \/ AlipayUnpaid(h)
  \/ QrRead(h) \/ AlipayPrecreate(h)
  \/ ConfirmNative(h)

MarkPaid(p) ==
  Book(p) \/ BookRejected(p) \/ BookSkipped(p) \/ Announce(p) \/ AnnounceFails(p)

Next ==
  \/ \E h \in Handlers : OpenChannel(h) \/ Confirmation(h)
  \/ \E p \in Procs : MarkPaid(p)
  \/ AlipayNotify \/ AlipayPay
  \/ Expire \/ CleanupSelect \/ CleanupUpdate
  \/ Crash

(* Alipay redelivers until it reads 'success', and the event loop runs every *)
(* callback that is due; nothing else is owed to the order.                 *)
Fairness == WF_vars(AlipayNotify) /\ WF_vars(MarkPaid(Notifier))

Spec == Init /\ [][Next]_vars /\ Fairness
-----------------------------------------------------------------------------
(* PaidIsBacked: an order is Paid only on a trade that moved money and that   *)
(* markPaid credited, whichever handlers load and save the row around it     *)
(* (payment.service.ts markPaid, createOrder; paypal.service.ts createOrder). *)
PaidIsBacked == row.status = "Paid" => row.tradeNo \in settled \intersect booked

(* AnnouncedIsSettled: the merchant is told 'paid' only of trades that moved *)
(* money, and only once the order was credited with one, whatever the       *)
(* interleaving of confirmations and crashes (markPaid after its commit).   *)
AnnouncedIsSettled ==
  notified \subseteq settled /\ (notified # {} => booked # {})

(* OneBooking: one order is credited with one trade at most, however many    *)
(* callbacks, polls and confirmations race (markPaid's lock and recheck).    *)
OneBooking == Cardinality(booked) <= 1

(* PaidMatchesQuote: an order paid by PayPal carries a quote within a cent of *)
(* what was captured, which the pro-rating of refunds relies on (markPaid's  *)
(* foreign amount check).                                                   *)
PaidMatchesQuote ==
  row.status = "Paid" /\ row.tradeNo \in Tokens => Near(usd[row.tradeNo], row.quote)

(* AckedIsDecided: once Alipay has stopped delivering its notification the   *)
(* order is no longer Pending and, if Paid, the merchant's notification is   *)
(* enqueued, across crashes and failed inserts (handleNotify).               *)
AckedIsDecided ==
  acked => /\ row.status # "Pending"
           /\ row.status = "Paid" => notified # {}

(* OnlyCleanupRewrites: a decided order is rewritten by nobody but an expiry  *)
(* UPDATE that selected it while Pending (locks of markPaid and markFailed). *)
OnlyCleanupRewrites ==
  [][row.status # "Pending" => row' = row \/ (selected /\ row'.status = "Expired")]_vars

(* AlipayMoneyDecides: money taken by Alipay never leaves the order Pending   *)
(* for ever (notifications are answered 'failure' until markPaid succeeds).  *)
AlipayMoneyDecides == AlipayTrade \in settled ~> row.status # "Pending"

(* CapturedIsNotFailed: an order is not Failed while a capture the server saw *)
(* complete waits to be booked (paypal.service.ts captureOrder: do not mark  *)
(* failed, capture is real money received).                                 *)
CapturedIsNotFailed ==
  row.status = "Failed" =>
    ~ \E h \in Handlers : pc[h] = "book" /\ trade[h] \in Tokens
=============================================================================
