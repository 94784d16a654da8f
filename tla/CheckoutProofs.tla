--------------------------- MODULE CheckoutProofs ---------------------------
(* Theorems about Checkout for every set of requests, PayPal orders, quotes,  *)
(* kinds of request and number of crashes.                                  *)
EXTENDS Checkout, FiniteSetTheorems, TLAPS

(* The inductive invariant.  A stale copy may be saved over the row at any    *)
(* time, so the copies must be backed as the row is; and a process books     *)
(* only a trade that has settled.                                           *)
Backed(r) == r.status = "Paid" => r.tradeNo \in settled \intersect booked

Located ==
  \A p \in Procs :
    /\ pc[p] = "capture" => trade[p] \in Tokens
    /\ pc[p] \in {"book", "after"} => trade[p] \in settled
    /\ pc[p] = "after" => booked # {}

IInv ==
  /\ TypeOK
  /\ Located
  /\ Backed(row)
  /\ \A h \in Handlers : Backed(copy[h])
  /\ AnnouncedIsSettled

(* InitInv: the inductive invariant holds before the first request.           *)
LEMMA InitInv == Init => IInv
  <1> SUFFICES ASSUME Init PROVE IInv
    OBVIOUS
  <1>1. TypeOK
    <2>1. row \in Row
      BY QuoteAssumption DEF Init, Row, Statuses, OpenQuotes
    <2>2. Blank \in Row
      BY DEF Blank, Row, Statuses, Methods
    <2>3. pc \in [Procs -> PCs]
      BY DEF Init, PCs
    <2>4. usd \in [Tokens -> Quotes \union {0}] /\ crashes \in 0..MaxCrashes
      BY QuoteAssumption, EnvAssumption DEF Init
    <2>5. copy \in [Handlers -> Row] /\ trade \in [Procs -> Trades \union {NoTrade}]
      BY <2>2 DEF Init
    <2> QED
      BY <2>1, <2>3, <2>4, <2>5 DEF Init, TypeOK
  <1> QED
    BY <1>1 DEF Init, IInv, Located, Backed, Blank, AnnouncedIsSettled, Procs

(* TypeStep: every step keeps the types of the row, the copies and the        *)
(* processes' locals.                                                       *)
LEMMA TypeStep == IInv /\ [Next]_vars => TypeOK'
  <1> SUFFICES ASSUME TypeOK, Located, [Next]_vars PROVE TypeOK'
    BY DEF IInv
  <1> USE DEF TypeOK, Row, PCs, Statuses, Methods, Blank, Goto, Procs, Trades,
              upstream, ledger, clock
  <1> USE EnvAssumption, QuoteAssumption
  <1>1. ASSUME NEW h \in Handlers, OpenChannel(h)
       PROVE  TypeOK'
    <2>1. ASSUME NEW m \in Methods, PayLookup(h, m)
          PROVE  TypeOK'
      BY <2>1, <1>1 DEF PayLookup
    <2>2. ASSUME NEW m \in Methods, SwitchChannel(h, m)
          PROVE  TypeOK'
      BY <2>2, <1>1 DEF SwitchChannel
    <2>3. CASE PaySave(h)
      BY <2>3, <1>1 DEF PaySave
    <2>4. CASE OpenNative(h)
      BY <2>4, <1>1 DEF OpenNative
    <2>5. CASE OpenAlipay(h)
      BY <2>5, <1>1 DEF OpenAlipay
    <2>6. CASE QuoteRead(h)
      BY <2>6, <1>1 DEF QuoteRead
    <2>7. ASSUME NEW q \in Quotes, QuoteSave(h, q)
          PROVE  TypeOK'
      BY <2>7, <1>1 DEF QuoteSave
    <2>8. ASSUME NEW t \in Tokens, PayPalCreate(h, t)
          PROVE  TypeOK'
      BY <2>8, <1>1 DEF PayPalCreate
    <2>9. CASE PayPalCreateFails(h)
      BY <2>9, <1>1 DEF PayPalCreateFails
    <2> HIDE DEF TypeOK, Goto
    <2> QED
      BY <1>1, <2>1, <2>2, <2>3, <2>4, <2>5, <2>6, <2>7, <2>8, <2>9
         DEF OpenChannel
  <1>2. ASSUME NEW h \in Handlers, Confirmation(h)
       PROVE  TypeOK'
    <2>1. ASSUME NEW t \in Tokens, Callback(h, t)
          PROVE  TypeOK'
      BY <2>1, <1>2 DEF Callback
    <2>2. CASE CaptureCompleted(h)
      BY <2>2, <1>2 DEF CaptureCompleted, Located
    <2>3. CASE CaptureLost(h)
      BY <2>3, <1>2 DEF CaptureLost, Located
    <2>4. CASE CaptureRefused(h)
      BY <2>4, <1>2 DEF CaptureRefused
    <2>5. CASE MarkFailed(h)
      BY <2>5, <1>2 DEF MarkFailed, FailedRow
    <2>6. CASE CashierInfo(h)
      BY <2>6, <1>2 DEF CashierInfo
    <2>7. CASE AlipayPaid(h)
      BY <2>7, <1>2 DEF AlipayPaid
    <2>8. CASE AlipayUnpaid(h)
      BY <2>8, <1>2 DEF AlipayUnpaid
    <2>9. CASE QrRead(h)
      BY <2>9, <1>2 DEF QrRead
    <2>10. CASE AlipayPrecreate(h)
      <3>1. alipayOpen' \in BOOLEAN
        BY <2>10 DEF AlipayPrecreate
      <3>2. pc' \in [Procs -> PCs]
        BY <2>10, <1>2 DEF AlipayPrecreate
      <3> QED
        BY <3>1, <3>2, <2>10 DEF AlipayPrecreate
    <2>11. CASE ConfirmNative(h)
      BY <2>11, <1>2 DEF ConfirmNative
    <2> HIDE DEF TypeOK, Goto
    <2> QED
      BY <1>2, <2>1, <2>2, <2>3, <2>4, <2>5, <2>6, <2>7, <2>8, <2>9, <2>10, <2>11
         DEF Confirmation
  <1>3. ASSUME NEW p \in Procs, MarkPaid(p)
       PROVE  TypeOK'
    <2>1. CASE Book(p)
      BY <2>1, <1>3 DEF Book, BookedRow, Located
    <2>2. CASE BookRejected(p)
      BY <2>2, <1>3 DEF BookRejected, Finish
    <2>3. CASE BookSkipped(p)
      <3>1. CASE row.status = "Paid"
        BY <3>1, <2>3, <1>3 DEF BookSkipped
      <3>2. CASE row.status # "Paid"
        BY <3>2, <2>3, <1>3 DEF BookSkipped, Finish
      <3> QED
        BY <3>1, <3>2
    <2>4. CASE Announce(p)
      BY <2>4, <1>3 DEF Announce, Finish, Located
    <2>5. CASE AnnounceFails(p)
      BY <2>5, <1>3 DEF AnnounceFails, Finish
    <2> HIDE DEF TypeOK, Goto
    <2> QED
      BY <1>3, <2>1, <2>2, <2>3, <2>4, <2>5
         DEF MarkPaid
  <1>4. CASE AlipayNotify
    BY <1>4 DEF AlipayNotify
  <1>5. CASE AlipayPay
    BY <1>5 DEF AlipayPay
  <1>6. CASE Expire
    BY <1>6 DEF Expire
  <1>7. CASE CleanupSelect
    BY <1>7 DEF CleanupSelect
  <1>8. CASE CleanupUpdate
    BY <1>8 DEF CleanupUpdate
  <1>9. CASE Crash
    <2>1. pc' \in [Procs -> PCs]
      <3> HIDE DEF PCs
      <3> QED
        BY <1>9, "idle" \in PCs, "done" \in PCs DEF Crash, PCs
    <2>2. copy' \in [Handlers -> Row] /\ trade' \in [Procs -> Trades \union {NoTrade}]
      BY <1>9 DEF Crash
    <2>3. crashes' \in 0..MaxCrashes
      BY <1>9 DEF Crash
    <2> QED
      BY <1>9, <2>1, <2>2, <2>3 DEF Crash
  <1>10. CASE UNCHANGED vars
    BY <1>10 DEF vars
  <1> HIDE DEF TypeOK, Goto
  <1> QED
    BY <1>1, <1>2, <1>3, <1>4, <1>5, <1>6, <1>7, <1>8, <1>9, <1>10 DEF Next

(* BackedStep: every step keeps what it may book, save or announce backed by  *)
(* a settled trade.                                                         *)
LEMMA BackedStep ==
  IInv /\ [Next]_vars =>
    /\ Located' /\ Backed(row)'
    /\ \A h \in Handlers : Backed(copy[h])'
    /\ AnnouncedIsSettled'
  <1> DEFINE Goal == /\ Located' /\ Backed(row)'
                     /\ \A h \in Handlers : Backed(copy[h])'
                     /\ AnnouncedIsSettled'
  <1> SUFFICES ASSUME IInv, [Next]_vars PROVE Goal
    OBVIOUS
  <1> USE DEF IInv, TypeOK, Row, Located, Backed, AnnouncedIsSettled, Blank, Goto,
              Methods,
              Procs, Trades, upstream, ledger, clock
  <1> USE ProcAssumption, TradeAssumption
  <1>1. ASSUME NEW h \in Handlers, OpenChannel(h)
       PROVE  Goal
    <2>1. ASSUME NEW m \in Methods, PayLookup(h, m)
          PROVE  Goal
      BY <2>1, <1>1 DEF PayLookup
    <2>2. ASSUME NEW m \in Methods, SwitchChannel(h, m)
          PROVE  Goal
      BY <2>2, <1>1 DEF SwitchChannel
    <2>3. CASE PaySave(h)
      BY <2>3, <1>1 DEF PaySave
    <2>4. CASE OpenNative(h)
      BY <2>4, <1>1 DEF OpenNative
    <2>5. CASE OpenAlipay(h)
      BY <2>5, <1>1 DEF OpenAlipay
    <2>6. CASE QuoteRead(h)
      BY <2>6, <1>1 DEF QuoteRead
    <2>7. ASSUME NEW q \in Quotes, QuoteSave(h, q)
          PROVE  Goal
      BY <2>7, <1>1 DEF QuoteSave
    <2>8. ASSUME NEW t \in Tokens, PayPalCreate(h, t)
          PROVE  Goal
      BY <2>8, <1>1 DEF PayPalCreate
    <2>9. CASE PayPalCreateFails(h)
      BY <2>9, <1>1 DEF PayPalCreateFails
    <2> HIDE DEF Goal
    <2> QED
      BY <1>1, <2>1, <2>2, <2>3, <2>4, <2>5, <2>6, <2>7, <2>8, <2>9
         DEF OpenChannel
  <1>2. ASSUME NEW h \in Handlers, Confirmation(h)
       PROVE  Goal
    <2>1. ASSUME NEW t \in Tokens, Callback(h, t)
          PROVE  Goal
      BY <2>1, <1>2 DEF Callback
    <2>2. CASE CaptureCompleted(h)
      BY <2>2, <1>2 DEF CaptureCompleted
    <2>3. CASE CaptureLost(h)
      BY <2>3, <1>2 DEF CaptureLost
    <2>4. CASE CaptureRefused(h)
      BY <2>4, <1>2 DEF CaptureRefused
    <2>5. CASE MarkFailed(h)
      BY <2>5, <1>2 DEF MarkFailed, FailedRow
    <2>6. CASE CashierInfo(h)
      BY <2>6, <1>2 DEF CashierInfo
    <2>7. CASE AlipayPaid(h)
      BY <2>7, <1>2 DEF AlipayPaid
    <2>8. CASE AlipayUnpaid(h)
      BY <2>8, <1>2 DEF AlipayUnpaid
    <2>9. CASE QrRead(h)
      BY <2>9, <1>2 DEF QrRead
    <2>10. CASE AlipayPrecreate(h)
      BY <2>10, <1>2 DEF AlipayPrecreate
    <2>11. CASE ConfirmNative(h)
      BY <2>11, <1>2 DEF ConfirmNative
    <2> HIDE DEF Goal
    <2> QED
      BY <1>2, <2>1, <2>2, <2>3, <2>4, <2>5, <2>6, <2>7, <2>8, <2>9, <2>10, <2>11
         DEF Confirmation
  <1>3. ASSUME NEW p \in Procs, MarkPaid(p)
       PROVE  Goal
    <2>1. CASE Book(p)
      BY <2>1, <1>3 DEF Book, BookedRow
    <2>2. CASE BookRejected(p)
      BY <2>2, <1>3 DEF BookRejected, Finish
    <2>3. CASE BookSkipped(p)
      BY <2>3, <1>3 DEF BookSkipped, Finish
    <2>4. CASE Announce(p)
      BY <2>4, <1>3 DEF Announce, Finish
    <2>5. CASE AnnounceFails(p)
      BY <2>5, <1>3 DEF AnnounceFails, Finish
    <2> HIDE DEF Goal
    <2> QED
      BY <1>3, <2>1, <2>2, <2>3, <2>4, <2>5
         DEF MarkPaid
  <1>4. CASE AlipayNotify
    BY <1>4 DEF AlipayNotify
  <1>5. CASE AlipayPay
    BY <1>5 DEF AlipayPay
  <1>6. CASE Expire
    BY <1>6 DEF Expire
  <1>7. CASE CleanupSelect
    BY <1>7 DEF CleanupSelect
  <1>8. CASE CleanupUpdate
    BY <1>8 DEF CleanupUpdate
  <1>9. CASE Crash
    BY <1>9 DEF Crash
  <1>10. CASE UNCHANGED vars
    BY <1>10 DEF vars
  <1> HIDE DEF Goal
  <1> QED
    BY <1>1, <1>2, <1>3, <1>4, <1>5, <1>6, <1>7, <1>8, <1>9, <1>10 DEF Next

(* Inductive: the invariant holds in every state.                             *)
LEMMA Inductive == Spec => []IInv
  <1>1. IInv /\ [Next]_vars => IInv'
    BY TypeStep, BackedStep DEF IInv
  <1> QED
    BY InitInv, <1>1, PTL DEF Spec

(* TypeCorrect: in every instance each variable keeps its type.              *)
THEOREM TypeCorrect == Spec => []TypeOK
  BY Inductive, PTL DEF IInv

(* PaidBacked: with any number of stale saves, callbacks, confirmations and   *)
(* crashes, a Paid order stands on a trade that moved money.                *)
THEOREM PaidBacked == Spec => []PaidIsBacked
  <1>1. IInv => PaidIsBacked
    BY DEF IInv, Backed, PaidIsBacked
  <1> QED
    BY Inductive, <1>1, PTL

(* AnnouncedSettled: the merchant is told 'paid' only of settled trades.      *)
THEOREM AnnouncedSettled == Spec => []AnnouncedIsSettled
  BY Inductive, PTL DEF IInv
-----------------------------------------------------------------------------
(* What holds when no request loads the row and saves it later: the locked    *)
(* transactions and the expiry job are then the only writers.               *)
LockedOnly == Requests \intersect {"pay", "switch"} = {}

LockedInv ==
  /\ \A h \in Handlers : pc[h] \notin Methods \union {"savePay", "quote", "create"}
  /\ row.status = "Pending" => booked = {}
  /\ booked = {} \/ \E t \in Trades : booked = {t}
  /\ AckedIsDecided
  /\ PaidMatchesQuote

Rewrite == row.status # "Pending" =>
             row' = row \/ (selected /\ row'.status = "Expired")

(* LockedStep: the locked writers recheck the status, so a decided order is    *)
(* left alone, except by the expiry job.                                    *)
LEMMA LockedStep ==
  ASSUME LockedOnly
  PROVE  IInv /\ LockedInv /\ [Next]_vars => LockedInv' /\ Rewrite
  <1> DEFINE Goal == LockedInv' /\ Rewrite
  <1> SUFFICES ASSUME IInv, LockedInv, [Next]_vars PROVE Goal
    OBVIOUS
  <1> USE DEF LockedInv, IInv, TypeOK, Row, Rewrite, AckedIsDecided, PaidMatchesQuote, Goto, Methods,
              Procs, Trades, upstream, ledger, clock
  <1> USE LockedOnly, ProcAssumption DEF LockedOnly
  <1>1. ASSUME NEW h \in Handlers, OpenChannel(h)
       PROVE  Goal
    <2>1. ASSUME NEW m \in Methods, PayLookup(h, m)
          PROVE  Goal
      BY <2>1, <1>1 DEF PayLookup
    <2>2. ASSUME NEW m \in Methods, SwitchChannel(h, m)
          PROVE  Goal
      BY <2>2, <1>1 DEF SwitchChannel
    <2>3. CASE PaySave(h)
      BY <2>3, <1>1 DEF PaySave
    <2>4. CASE OpenNative(h)
      BY <2>4, <1>1 DEF OpenNative
    <2>5. CASE OpenAlipay(h)
      BY <2>5, <1>1 DEF OpenAlipay
    <2>6. CASE QuoteRead(h)
      BY <2>6, <1>1 DEF QuoteRead
    <2>7. ASSUME NEW q \in Quotes, QuoteSave(h, q)
          PROVE  Goal
      BY <2>7, <1>1 DEF QuoteSave
    <2>8. ASSUME NEW t \in Tokens, PayPalCreate(h, t)
          PROVE  Goal
      BY <2>8, <1>1 DEF PayPalCreate
    <2>9. CASE PayPalCreateFails(h)
      BY <2>9, <1>1 DEF PayPalCreateFails
    <2> HIDE DEF Goal
    <2> QED
      BY <1>1, <2>1, <2>2, <2>3, <2>4, <2>5, <2>6, <2>7, <2>8, <2>9
         DEF OpenChannel
  <1>2. ASSUME NEW h \in Handlers, Confirmation(h)
       PROVE  Goal
    <2>1. ASSUME NEW t \in Tokens, Callback(h, t)
          PROVE  Goal
      BY <2>1, <1>2 DEF Callback
    <2>2. CASE CaptureCompleted(h)
      BY <2>2, <1>2 DEF CaptureCompleted
    <2>3. CASE CaptureLost(h)
      BY <2>3, <1>2 DEF CaptureLost
    <2>4. CASE CaptureRefused(h)
      BY <2>4, <1>2 DEF CaptureRefused
    <2>5. CASE MarkFailed(h)
      BY <2>5, <1>2 DEF MarkFailed, FailedRow
    <2>6. CASE CashierInfo(h)
      BY <2>6, <1>2 DEF CashierInfo
    <2>7. CASE AlipayPaid(h)
      BY <2>7, <1>2 DEF AlipayPaid
    <2>8. CASE AlipayUnpaid(h)
      BY <2>8, <1>2 DEF AlipayUnpaid
    <2>9. CASE QrRead(h)
      BY <2>9, <1>2 DEF QrRead
    <2>10. CASE AlipayPrecreate(h)
      BY <2>10, <1>2 DEF AlipayPrecreate
    <2>11. CASE ConfirmNative(h)
      BY <2>11, <1>2 DEF ConfirmNative
    <2> HIDE DEF Goal
    <2> QED
      BY <1>2, <2>1, <2>2, <2>3, <2>4, <2>5, <2>6, <2>7, <2>8, <2>9, <2>10, <2>11
         DEF Confirmation
  <1>3. ASSUME NEW p \in Procs, MarkPaid(p)
       PROVE  Goal
    <2>1. CASE Book(p)
      <3>1. booked' = {trade[p]} /\ trade[p] \in Trades /\ row'.status = "Paid"
        BY <2>1, <1>3 DEF Book, BookedRow, Located
      <3>2. row.status = "Pending" /\ acked' = acked
        BY <2>1 DEF Book
      <3>3. pc' = [pc EXCEPT ![p] = "after"]
        BY <2>1 DEF Book
      <3>4. /\ row'.tradeNo = trade[p] /\ row'.quote = row.quote /\ usd' = usd
            /\ trade[p] \in Tokens => Near(usd[trade[p]], row.quote)
        BY <2>1 DEF Book, BookedRow, Valid, AmountValid, Cents, Currency
      <3>5. PaidMatchesQuote'
        BY <3>4 DEF PaidMatchesQuote
      <3>6. row' = row \/ row.status = "Pending"
        BY <3>2
      <3> QED
        BY <3>1, <3>2, <3>3, <3>5
    <2>2. CASE BookRejected(p)
      BY <2>2, <1>3 DEF BookRejected, Finish
    <2>3. CASE BookSkipped(p)
      <3>1. CASE row.status = "Paid"
        BY <3>1, <2>3, <1>3 DEF BookSkipped
      <3>2. CASE row.status # "Paid"
        BY <3>2, <2>3, <1>3 DEF BookSkipped, Finish
      <3> QED
        BY <3>1, <3>2
    <2>4. CASE Announce(p)
      BY <2>4, <1>3 DEF Announce, Finish, Located
    <2>5. CASE AnnounceFails(p)
      BY <2>5, <1>3 DEF AnnounceFails, Finish
    <2> HIDE DEF Goal
    <2> QED
      BY <1>3, <2>1, <2>2, <2>3, <2>4, <2>5
         DEF MarkPaid
  <1>4. CASE AlipayNotify
    BY <1>4 DEF AlipayNotify
  <1>5. CASE AlipayPay
    BY <1>5 DEF AlipayPay
  <1>6. CASE Expire
    BY <1>6 DEF Expire
  <1>7. CASE CleanupSelect
    BY <1>7 DEF CleanupSelect
  <1>8. CASE CleanupUpdate
    BY <1>8 DEF CleanupUpdate
  <1>9. CASE Crash
    BY <1>9 DEF Crash
  <1>10. CASE UNCHANGED vars
    BY <1>10 DEF vars
  <1> HIDE DEF Goal
  <1> QED
    BY <1>1, <1>2, <1>3, <1>4, <1>5, <1>6, <1>7, <1>8, <1>9, <1>10 DEF Next

(* LockedInductive: with locked writers only, the invariant holds in every     *)
(* state and every step is a permitted rewrite.                             *)
LEMMA LockedInductive ==
  ASSUME LockedOnly
  PROVE  Spec => []LockedInv /\ [][Rewrite]_vars
  <1>1. Init => LockedInv
    BY DEF Init, LockedInv, AckedIsDecided, PaidMatchesQuote, Methods, Procs
  <1>2. IInv /\ LockedInv /\ [Next]_vars => LockedInv'
    BY LockedStep
  <1>3. IInv /\ LockedInv /\ [Next]_vars => [Rewrite]_vars
    BY LockedStep
  <1> QED
    BY Inductive, <1>1, <1>2, <1>3, PTL DEF Spec

(* AtMostOneBooking: without stale saves, any number of callbacks, polls and  *)
(* confirmations credit one trade at most.                                  *)
THEOREM AtMostOneBooking ==
  ASSUME LockedOnly
  PROVE  Spec => []OneBooking
  <1>1. LockedInv => OneBooking
    <2>1. LockedInv => booked = {} \/ \E t \in Trades : booked = {t}
      BY DEF LockedInv
    <2>2. Cardinality({}) = 0
      BY FS_EmptySet
    <2>3. \A t \in Trades : Cardinality({t}) = 1
      BY FS_Singleton
    <2> QED
      BY <2>1, <2>2, <2>3 DEF OneBooking
  <1> QED
    BY LockedInductive, <1>1, PTL

(* PaidQuoted: without stale saves, an order paid by PayPal carries a quote     *)
(* within a cent of what was captured.                                      *)
THEOREM PaidQuoted ==
  ASSUME LockedOnly
  PROVE  Spec => []PaidMatchesQuote
  BY LockedInductive, PTL DEF LockedInv

(* DecidedIsFinal: without stale saves, only the expiry job rewrites a        *)
(* decided order.                                                           *)
THEOREM DecidedIsFinal ==
  ASSUME LockedOnly
  PROVE  Spec => OnlyCleanupRewrites
  BY LockedInductive DEF OnlyCleanupRewrites, Rewrite

(* AckedDecided: without stale saves, Alipay stops delivering only when the    *)
(* order is decided and its merchant's notification is enqueued.            *)
THEOREM AckedDecided ==
  ASSUME LockedOnly
  PROVE  Spec => []AckedIsDecided
  BY LockedInductive, PTL DEF LockedInv
=============================================================================
