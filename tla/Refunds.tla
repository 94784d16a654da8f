------------------------------ MODULE Refunds -------------------------------
(***************************************************************************)
(* RefundService.execute on one paid order: refund requests of the merchant *)
(* and of the administrator, interleaved at the awaits of the handler, with *)
(* the gateway refusing, answering, taking on a refund whose answer is lost,  *)
(* or leaving one pending.  The bodies of markRefunding, markRefunded and    *)
(* markRefundFailed run under a row lock and are one action each.           *)
(***************************************************************************)
EXTENDS OrderRow, FiniteSets

CONSTANTS
  Tasks,       \* the refund requests, each a process that runs once
  Asks,        \* the amounts a request may ask for, cents
  Channels,    \* the payMethods the order may have, which choose the gateway
  StampOf,     \* [Tasks -> the time stamp that numbers its refund]
  NoNumber,    \* refundTradeNo not set
  MaxCrashes   \* bound on the restarts of the server

ASSUME AsksAssumption    == Asks \subseteq Nat \ {0}
ASSUME ChannelAssumption == Channels \subseteq Methods
ASSUME NumberAssumption  == \A p \in Tasks : NoNumber \notin {p, StampOf[p]}
ASSUME CrashAssumption   == MaxCrashes \in Nat

(* With a price of one cent an order is within tolerance of refunded before  *)
(* any refund; the properties speak of dearer orders.                       *)
ASSUME PriceAssumption   == Amount > Tolerance

VARIABLES
  row,       \* the row of payment_orders
  pc,        \* where each request stands
  cents,     \* the amount each request asked for, 0 before it is accepted
  executed,  \* the requests whose refund the gateway carried out
  returned,  \* the cents the gateway gave back in all
  pending,   \* those PayPal took on and has not carried out, yet or ever
  owed,      \* their cents
  booked,    \* the requests markRefunded entered in the order
  announced, \* the requests whose notification was enqueued
  crashes

vars == <<row, pc, cents, executed, returned, pending, owed, booked, announced, crashes>>

(* PayPal gives every refund a number of its own, for which the request        *)
(* stands; Alipay and native refunds are numbered by the time in milliseconds. *)
RefundNo(p) == IF row.payMethod = "paypal" THEN p ELSE StampOf[p]

Numbers == Tasks \union {StampOf[p] : p \in Tasks}

Row == [status: {"Paid", "Refunding", "Refunded"}, payMethod: Channels,
        refunded: Nat, refundNo: Numbers \union {NoNumber}]

(* "refused": the caller is told the upstream refund failed.  "broken": the   *)
(* handler ended in another error, or the server restarted under it.         *)
PCs == {"idle", "mark", "dispatch", "rollback", "book", "announce", "audit",
        "ok", "refused", "broken"}

TypeOK ==
  /\ row \in Row
  /\ pc \in [Tasks -> PCs]
  /\ cents \in [Tasks -> Asks \union {0}]
  /\ executed \subseteq Tasks
  /\ returned \in Nat
  /\ pending \subseteq Tasks
  /\ owed \in Int
  /\ booked \subseteq Tasks
  /\ announced \subseteq Tasks
  /\ crashes \in 0..MaxCrashes

Init ==
  /\ row \in [status: {"Paid"}, payMethod: Channels, refunded: {0},
              refundNo: {NoNumber}]
  /\ pc = [p \in Tasks |-> "idle"]
  /\ cents = [p \in Tasks |-> 0]
  /\ executed = {} /\ pending = {} /\ booked = {} /\ announced = {}
  /\ returned = 0 /\ owed = 0
  /\ crashes = 0

Goto(p, label) == pc' = [pc EXCEPT ![p] = label]

gateway == <<executed, returned, pending, owed>>
ledger  == <<booked, announced>>
-----------------------------------------------------------------------------
(* lookupOrder and the balance check, on an unlocked read.  A request they    *)
(* turn away leaves no trace.                                               *)
Accept(p, c) ==
  /\ pc[p] = "idle"
  /\ row.status = "Paid"
  /\ BalanceCovers(row, c)
  /\ cents' = [cents EXCEPT ![p] = c]
  /\ Goto(p, "mark")
  /\ UNCHANGED <<row, gateway, ledger, crashes>>

MarkRefunding(p) ==
  /\ pc[p] = "mark"
  /\ row' = RefundingRow(row)
  /\ Goto(p, "dispatch")
  /\ UNCHANGED <<cents, gateway, ledger, crashes>>

(* dispatch.  Alipay and PayPal refuse to give back more than was paid, and    *)
(* Alipay takes a number it has seen for a repetition (fund_change N); the     *)
(* native channel only makes up a number, and the operator gives the money   *)
(* back by hand.                                                            *)
GatewayAllows(p) ==
  \/ row.payMethod = "native"
  \/ /\ returned + cents[p] <= Amount
     /\ row.payMethod = "alipay" => \A q \in executed : RefundNo(q) # RefundNo(p)

GatewayGives(p) ==
  /\ GatewayAllows(p)
  /\ executed' = executed \union {p}
  /\ returned' = returned + cents[p]

(* PayPal may take a refund on without carrying it out: the answer has a       *)
(* number and the status PENDING, which the handler takes for COMPLETED.      *)
PayPalDefers(p) ==
  /\ row.payMethod = "paypal"
  /\ GatewayAllows(p)
  /\ pending' = pending \union {p}
  /\ owed' = owed + cents[p]

GatewayTakes(p) ==
  \/ GatewayGives(p) /\ UNCHANGED <<pending, owed>>
  \/ PayPalDefers(p) /\ UNCHANGED <<executed, returned>>

Dispatch(p) ==
  /\ pc[p] = "dispatch"
  /\ GatewayTakes(p)
  /\ Goto(p, "book")
  /\ UNCHANGED <<row, cents, ledger, crashes>>

(* Mutants: a null number is not noticed; an exception is not caught.          *)
DispatchRefusedUnseen(p) ==
  /\ pc[p] = "dispatch"
  /\ row.payMethod # "native"
  /\ Goto(p, "book")
  /\ UNCHANGED <<row, cents, gateway, ledger, crashes>>

DispatchRefusedUncaught(p) ==
  /\ pc[p] = "dispatch"
  /\ row.payMethod # "native"
  /\ Goto(p, "broken")
  /\ UNCHANGED <<row, cents, gateway, ledger, crashes>>

(* The gateway refuses or cannot be reached: null, or an exception.           *)
DispatchRefused(p) ==
  /\ pc[p] = "dispatch"
  /\ row.payMethod # "native"
  /\ Goto(p, "rollback")
  /\ UNCHANGED <<row, cents, gateway, ledger, crashes>>

(* The gateway takes it on, the answer is lost or unreadable: null again.      *)
DispatchLost(p) ==
  /\ pc[p] = "dispatch"
  /\ row.payMethod # "native"
  /\ GatewayTakes(p)
  /\ Goto(p, "rollback")
  /\ UNCHANGED <<row, cents, ledger, crashes>>

MarkRefundFailed(p) ==
  /\ pc[p] = "rollback"
  /\ row' = RolledBackRow(row)
  /\ Goto(p, "refused")
  /\ UNCHANGED <<cents, gateway, ledger, crashes>>

(* markRefunded: a replay, an entry in the order, or an exception that leaves *)
(* the row as it is.                                                        *)
ReplayRefund(p) ==
  /\ pc[p] = "book"
  /\ RefundReplayed(row, RefundNo(p))
  /\ Goto(p, "announce")
  /\ UNCHANGED <<row, cents, gateway, ledger, crashes>>

BookRefund(p) ==
  /\ pc[p] = "book"
  /\ ~RefundReplayed(row, RefundNo(p))
  /\ RefundAccepted(row, cents[p])
  /\ row' = RefundedRow(row, cents[p], RefundNo(p))
  /\ booked' = booked \union {p}
  /\ Goto(p, "announce")
  /\ UNCHANGED <<cents, gateway, announced, crashes>>

(* Mutant: markRefunded returns instead of throwing.                          *)
RefundRejectedSilently(p) ==
  /\ pc[p] = "book"
  /\ ~RefundReplayed(row, RefundNo(p))
  /\ ~RefundAccepted(row, cents[p])
  /\ Goto(p, "announce")
  /\ UNCHANGED <<row, cents, gateway, ledger, crashes>>

RefundRejected(p) ==
  /\ pc[p] = "book"
  /\ ~RefundReplayed(row, RefundNo(p))
  /\ ~RefundAccepted(row, cents[p])
  /\ Goto(p, "broken")
  /\ UNCHANGED <<row, cents, gateway, ledger, crashes>>

(* After the commit the notification is enqueued; an insert that fails ends   *)
(* the request in an error.  The audit log swallows its own errors.          *)
Announce(p) ==
  /\ pc[p] = "announce"
  /\ announced' = announced \union {p}
  /\ Goto(p, "audit")
  /\ UNCHANGED <<row, cents, gateway, booked, crashes>>

AnnounceFails(p) ==
  /\ pc[p] = "announce"
  /\ Goto(p, "broken")
  /\ UNCHANGED <<row, cents, gateway, ledger, crashes>>

Audit(p) ==
  /\ pc[p] = "audit"
  /\ Goto(p, "ok")
  /\ UNCHANGED <<row, cents, gateway, ledger, crashes>>

(* PayPal carries a pending refund out, after all.  Nothing in the server asks *)
(* or listens; one that PayPal gives up stays pending here.                 *)
PendingCompletes(p) ==
  /\ p \in pending
  /\ GatewayGives(p)
  /\ pending' = pending \ {p}
  /\ owed' = owed - cents[p]
  /\ UNCHANGED <<row, pc, cents, ledger, crashes>>

InFlight(p) == pc[p] \notin {"idle", "ok", "refused", "broken"}

(* A restart ends the requests in flight; no job ever resumes them.           *)
Crash ==
  /\ crashes < MaxCrashes
  /\ crashes' = crashes + 1
  /\ pc' = [p \in Tasks |-> IF InFlight(p) THEN "broken" ELSE pc[p]]
  /\ UNCHANGED <<row, cents, gateway, ledger>>
-----------------------------------------------------------------------------
(* The steps a request that was accepted takes by itself.                     *)
Proceed(p) ==
  \/ MarkRefunding(p)
  \/ Dispatch(p) \/ DispatchRefused(p) \/ DispatchLost(p)
  \/ MarkRefundFailed(p)
  \/ ReplayRefund(p) \/ BookRefund(p) \/ RefundRejected(p)
  \/ Announce(p) \/ AnnounceFails(p) \/ Audit(p)

Next ==
  \/ \E p \in Tasks : \/ \E c \in Asks : Accept(p, c)
                      \/ Proceed(p)
                      \/ PendingCompletes(p)
  \/ Crash

(* The event loop runs every callback that is due, and gateway calls end by    *)
(* an answer, an error or a timeout of their SDK.                           *)
Fairness == \A p \in Tasks : WF_vars(Proceed(p))

Spec == Init /\ [][Next]_vars /\ Fairness
-----------------------------------------------------------------------------
(* StatusMatchesBalance: an order is Refunded exactly when what it shows as   *)
(* given back is within a cent of its price, and never more, although balances are *)
(* checked on stale reads (markRefunded, execute).                          *)
StatusMatchesBalance ==
  /\ row.refunded <= Amount + Tolerance
  /\ row.status = "Refunded" <=> Near(row.refunded, Amount)

(* RecordedIsBacked: what the order shows as given back was given back, for    *)
(* each request and in total; but for the refunds that PayPal answered with  *)
(* PENDING, which are entered although they may never be carried out         *)
(* (execute: mark refunded after dispatch; PayPalService.refund).            *)
RecordedIsBacked ==
  /\ booked \subseteq executed \union pending
  /\ row.refunded <= returned + owed
  /\ row.payMethod # "paypal" \/ pending = {} => row.refunded <= returned

(* SuccessIsRecorded: a caller told 'refunded' finds its refund in the order, *)
(* announced to the merchant; where numbers collide, a full refund may stand *)
(* in for it (execute's return, markRefunded's replay check).               *)
SuccessIsRecorded ==
  \A p \in Tasks : pc[p] = "ok" =>
    /\ p \in booked \/ (row.status = "Refunded" /\ row.refundNo = RefundNo(p))
    /\ p \in announced

(* RefundingHasCause: an order is Refunding only while a request that may     *)
(* still end its refund is in flight, or because it shows something as given *)
(* back already, or a crash took the request away (markRefundFailed's purpose).   *)
RefundingHasCause ==
  row.status = "Refunding" =>
    \/ \E p \in Tasks : pc[p] \in {"dispatch", "rollback", "book"}
    \/ row.refunded > 0
    \/ crashes > 0

(* LedgerGrows: no step lowers what an order shows as given back, and a       *)
(* Refunded order never changes again (markRefunded, markRefundFailed and    *)
(* markRefunding of requests that started earlier).                         *)
LedgerGrows ==
  [][/\ row'.refunded >= row.refunded
     /\ row.status = "Refunded" => row' = row]_vars

(* Released: until a crash, an order that shows nothing as given back does    *)
(* not stay Refunding: its requests end in a refund or in a rollback (execute).       *)
Released ==
  (row.status = "Refunding" /\ row.refunded = 0)
    ~> (row.status # "Refunding" \/ row.refunded > 0 \/ crashes > 0)

(* ImplementsLedger: the handlers' interleavings implement the ledger that    *)
(* refunds promise.                                                         *)
Ledger == INSTANCE RefundLedger
            WITH refunded <- row.refunded, closed <- row.status = "Refunded"
ImplementsLedger == Ledger!Spec

(* NotStuck: when every request has been answered, with the refund or with a   *)
(* refusal, the order is not Refunding (markRefundFailed: prevents orders    *)
(* from getting permanently stuck in the Refunding state).                  *)
NotStuck ==
  (\A p \in Tasks : pc[p] \in {"idle", "ok", "refused"}) => row.status # "Refunding"
=============================================================================
