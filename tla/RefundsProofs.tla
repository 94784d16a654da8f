---------------------------- MODULE RefundsProofs ---------------------------
(* Theorems about Refunds for every set of requests, amounts, price, channels, *)
(* refund numbers and number of crashes.                                    *)
EXTENDS Refunds, TLAPS

(* The inductive invariant: StatusMatchesBalance and RefundingHasCause, with   *)
(* what a request knows where it stands.  Its amount was accepted against    *)
(* some earlier balance, so it is at most a cent over the price; it enters   *)
(* the order only after the gateway has refunded it, or PayPal has taken it  *)
(* on.                                                                      *)
Standing ==
  \A p \in Tasks :
    /\ pc[p] # "idle" => cents[p] \in Asks /\ cents[p] <= Amount + Tolerance
    /\ pc[p] = "book" => p \in executed \union pending
    /\ p \in pending => pc[p] \notin {"idle", "mark", "dispatch"}
    /\ pc[p] \in {"announce", "audit", "ok"} =>
         p \in booked \/ (row.status = "Refunded" /\ row.refundNo = RefundNo(p))
    /\ pc[p] \in {"audit", "ok"} => p \in announced

(* What is entered was taken on; only PayPal leaves a refund pending.          *)
TakenOn ==
  /\ booked \subseteq executed \union pending
  /\ pending # {} => row.payMethod = "paypal"

IInv == TypeOK /\ Standing /\ TakenOn
        /\ StatusMatchesBalance /\ RefundingHasCause

(* InitInv: the inductive invariant holds before the first request.           *)
LEMMA InitInv == Init => IInv
  <1> SUFFICES ASSUME Init PROVE IInv
    OBVIOUS
  <1> USE PriceAssumption, CrashAssumption, AmountAssumption DEF Init, Tolerance
  <1>1. TypeOK
    BY DEF TypeOK, Row, PCs
  <1>2. StatusMatchesBalance
    BY DEF StatusMatchesBalance, Near
  <1> QED
    BY <1>1, <1>2 DEF IInv, Standing, TakenOn, RefundingHasCause

(* AmountsAreNat: what may be asked for is a number of cents.                 *)
LEMMA AmountsAreNat == \A c \in Asks \union {0} : c \in Nat
  BY AsksAssumption

(* AmountOf: the amount of a request is a number of cents.                    *)
LEMMA AmountOf ==
  ASSUME TypeOK, NEW p \in Tasks
  PROVE  cents[p] \in Nat
  <1>1. cents[p] \in Asks \union {0}
    BY DEF TypeOK
  <1> QED
    BY <1>1, AmountsAreNat

(* TypeStep: every step keeps the types.                                      *)
LEMMA TypeStep == IInv /\ [Next]_vars => TypeOK'
  <1> DEFINE Goal == TypeOK'
  <1> SUFFICES ASSUME TypeOK, Standing, [Next]_vars PROVE Goal
    BY DEF IInv
  <1> USE DEF TypeOK, Row, PCs, Goto, gateway, ledger, Numbers, RefundNo
  <1> USE AsksAssumption, CrashAssumption
  <1>1. ASSUME NEW p \in Tasks, NEW c \in Asks, Accept(p, c)
       PROVE  Goal
    BY <1>1 DEF Accept
  <1>2. ASSUME NEW p \in Tasks, Proceed(p)
       PROVE  Goal
    <2>1. CASE MarkRefunding(p)
      BY <2>1, <1>2 DEF MarkRefunding, RefundingRow
    <2>2. CASE Dispatch(p)
      <3>1. cents[p] \in Nat
        BY AmountOf
      <3> QED
        BY <3>1, <2>2, <1>2 DEF Dispatch, GatewayTakes, GatewayGives, PayPalDefers
    <2>3. CASE DispatchRefused(p)
      BY <2>3, <1>2 DEF DispatchRefused
    <2>4. CASE DispatchLost(p)
      <3>1. cents[p] \in Nat
        BY AmountOf
      <3> QED
        BY <3>1, <2>4, <1>2 DEF DispatchLost, GatewayTakes, GatewayGives, PayPalDefers
    <2>5. CASE MarkRefundFailed(p)
      BY <2>5, <1>2 DEF MarkRefundFailed, RolledBackRow
    <2>6. CASE ReplayRefund(p)
      BY <2>6, <1>2 DEF ReplayRefund, RefundReplayed
    <2>7. CASE BookRefund(p)
      <3>1. row.refunded + cents[p] \in Nat
        BY AmountOf
      <3>2. row' \in Row
        BY <3>1, <2>7, <1>2 DEF BookRefund, RefundedRow
      <3> QED
        BY <3>2, <2>7, <1>2 DEF BookRefund
    <2>8. CASE RefundRejected(p)
      BY <2>8, <1>2 DEF RefundRejected, RefundAccepted, RefundReplayed
    <2>9. CASE Announce(p)
      BY <2>9, <1>2 DEF Announce
    <2>10. CASE AnnounceFails(p)
      BY <2>10, <1>2 DEF AnnounceFails
    <2>11. CASE Audit(p)
      BY <2>11, <1>2 DEF Audit
    <2> HIDE DEF Goal
    <2> QED
      BY <1>2, <2>1, <2>2, <2>3, <2>4, <2>5, <2>6, <2>7, <2>8, <2>9, <2>10, <2>11
         DEF Proceed
  <1>3. ASSUME NEW p \in Tasks, PendingCompletes(p)
       PROVE  Goal
    <2>1. cents[p] \in Nat
      BY AmountOf
    <2> QED
      BY <2>1, <1>3 DEF PendingCompletes, GatewayGives
  <1>4. CASE Crash
    BY <1>4 DEF Crash, InFlight
  <1>5. CASE UNCHANGED vars
    BY <1>5 DEF vars
  <1> HIDE DEF Goal
  <1> QED
    BY <1>1, <1>2, <1>3, <1>4, <1>5 DEF Next

(* StandingStep: a request moves on only with what its place promises.        *)
LEMMA StandingStep ==
  IInv /\ [Next]_vars => Standing' /\ TakenOn'
  <1> DEFINE Goal == Standing' /\ TakenOn'
  <1> SUFFICES ASSUME IInv, [Next]_vars PROVE Goal
    OBVIOUS
  <1> USE DEF IInv, TypeOK, Row, Standing, TakenOn, Goto, gateway, ledger, RefundNo
  <1>1. ASSUME NEW p \in Tasks, NEW c \in Asks, Accept(p, c)
       PROVE  Goal
    BY <1>1, AsksAssumption, AmountAssumption DEF Accept, BalanceCovers, Tolerance
  <1>2. ASSUME NEW p \in Tasks, Proceed(p)
       PROVE  Goal
    <2>1. CASE MarkRefunding(p)
      BY <2>1, <1>2 DEF MarkRefunding, RefundingRow
    <2>2. CASE Dispatch(p)
      BY <2>2, <1>2 DEF Dispatch, GatewayTakes, GatewayGives, PayPalDefers
    <2>3. CASE DispatchRefused(p)
      BY <2>3, <1>2 DEF DispatchRefused
    <2>4. CASE DispatchLost(p)
      BY <2>4, <1>2 DEF DispatchLost, GatewayTakes, GatewayGives, PayPalDefers
    <2>5. CASE MarkRefundFailed(p)
      BY <2>5, <1>2 DEF MarkRefundFailed, RolledBackRow
    <2>6. CASE ReplayRefund(p)
      BY <2>6, <1>2 DEF ReplayRefund, RefundReplayed
    <2>7. CASE BookRefund(p)
      BY <2>7, <1>2 DEF BookRefund, RefundAccepted, RefundedRow
    <2>8. CASE RefundRejected(p)
      BY <2>8, <1>2 DEF RefundRejected, RefundAccepted, RefundReplayed
    <2>9. CASE Announce(p)
      BY <2>9, <1>2 DEF Announce
    <2>10. CASE AnnounceFails(p)
      BY <2>10, <1>2 DEF AnnounceFails
    <2>11. CASE Audit(p)
      BY <2>11, <1>2 DEF Audit
    <2> HIDE DEF Goal
    <2> QED
      BY <1>2, <2>1, <2>2, <2>3, <2>4, <2>5, <2>6, <2>7, <2>8, <2>9, <2>10, <2>11
         DEF Proceed
  <1>3. ASSUME NEW p \in Tasks, PendingCompletes(p)
       PROVE  Goal
    BY <1>3 DEF PendingCompletes, GatewayGives
  <1>4. CASE Crash
    BY <1>4 DEF Crash, InFlight
  <1>5. CASE UNCHANGED vars
    BY <1>5 DEF vars
  <1> HIDE DEF Goal
  <1> QED
    BY <1>1, <1>2, <1>3, <1>4, <1>5 DEF Next

(* BalanceStep: only markRefunded moves the balance, and it closes the order   *)
(* exactly when it reaches the price.                                       *)
LEMMA BalanceStep == IInv /\ [Next]_vars => StatusMatchesBalance'
  <1> DEFINE Goal == StatusMatchesBalance'
  <1> SUFFICES ASSUME IInv, [Next]_vars PROVE Goal
    OBVIOUS
  <1> USE DEF IInv, TypeOK, Row, StatusMatchesBalance, gateway, ledger
  <1> USE AmountAssumption, AsksAssumption
  <1>1. ASSUME NEW p \in Tasks, NEW c \in Asks, Accept(p, c)
       PROVE  Goal
    BY <1>1 DEF Accept
  <1>2. ASSUME NEW p \in Tasks, Proceed(p)
       PROVE  Goal
    <2>1. CASE MarkRefunding(p)
      BY <2>1, <1>2 DEF MarkRefunding, RefundingRow
    <2>2. CASE Dispatch(p)
      BY <2>2, <1>2 DEF Dispatch, GatewayTakes, GatewayGives, PayPalDefers
    <2>3. CASE DispatchRefused(p)
      BY <2>3, <1>2 DEF DispatchRefused
    <2>4. CASE DispatchLost(p)
      BY <2>4, <1>2 DEF DispatchLost, GatewayTakes, GatewayGives, PayPalDefers
    <2>5. CASE MarkRefundFailed(p)
      BY <2>5, <1>2 DEF MarkRefundFailed, RolledBackRow
    <2>6. CASE ReplayRefund(p)
      BY <2>6, <1>2 DEF ReplayRefund, RefundReplayed
    <2>7. CASE BookRefund(p)
      BY <2>7, <1>2 DEF BookRefund, RefundAccepted, RefundedRow, Near, Tolerance, Standing
    <2>8. CASE RefundRejected(p)
      BY <2>8, <1>2 DEF RefundRejected, RefundAccepted, RefundReplayed
    <2>9. CASE Announce(p)
      BY <2>9, <1>2 DEF Announce
    <2>10. CASE AnnounceFails(p)
      BY <2>10, <1>2 DEF AnnounceFails
    <2>11. CASE Audit(p)
      BY <2>11, <1>2 DEF Audit
    <2> HIDE DEF Goal
    <2> QED
      BY <1>2, <2>1, <2>2, <2>3, <2>4, <2>5, <2>6, <2>7, <2>8, <2>9, <2>10, <2>11
         DEF Proceed
  <1>3. ASSUME NEW p \in Tasks, PendingCompletes(p)
       PROVE  Goal
    BY <1>3 DEF PendingCompletes, GatewayGives
  <1>4. CASE Crash
    BY <1>4 DEF Crash, InFlight
  <1>5. CASE UNCHANGED vars
    BY <1>5 DEF vars
  <1> HIDE DEF Goal
  <1> QED
    BY <1>1, <1>2, <1>3, <1>4, <1>5 DEF Next

(* CauseStep: a request leaves the places that justify Refunding only by a     *)
(* rollback, by giving something back, or by a crash.                       *)
LEMMA CauseStep == IInv /\ [Next]_vars => RefundingHasCause'
  <1> DEFINE Goal == RefundingHasCause'
  <1> SUFFICES ASSUME IInv, [Next]_vars PROVE Goal
    OBVIOUS
  <1> USE DEF IInv, TypeOK, Row, RefundingHasCause, Goto, gateway, ledger
  <1> USE AmountAssumption, AsksAssumption
  <1>1. ASSUME NEW p \in Tasks, NEW c \in Asks, Accept(p, c)
       PROVE  Goal
    BY <1>1 DEF Accept
  <1>2. ASSUME NEW p \in Tasks, Proceed(p)
       PROVE  Goal
    <2>1. CASE MarkRefunding(p)
      BY <2>1, <1>2 DEF MarkRefunding, RefundingRow
    <2>2. CASE Dispatch(p)
      BY <2>2, <1>2 DEF Dispatch, GatewayTakes, GatewayGives, PayPalDefers
    <2>3. CASE DispatchRefused(p)
      BY <2>3, <1>2 DEF DispatchRefused
    <2>4. CASE DispatchLost(p)
      BY <2>4, <1>2 DEF DispatchLost, GatewayTakes, GatewayGives, PayPalDefers
    <2>5. CASE MarkRefundFailed(p)
      BY <2>5, <1>2 DEF MarkRefundFailed, RolledBackRow
    <2>6. CASE ReplayRefund(p)
      BY <2>6, <1>2 DEF ReplayRefund, RefundReplayed
    <2>7. CASE BookRefund(p)
      BY <2>7, <1>2 DEF BookRefund, RefundedRow, Standing
    <2>8. CASE RefundRejected(p)
      <3>1. cents[p] \in Nat /\ cents[p] <= Amount + Tolerance
        BY <2>8, AmountOf DEF RefundRejected, Standing
      <3>2. row.status = "Refunding" => row.refunded > 0
        BY <3>1, <2>8 DEF RefundRejected, RefundAccepted, Tolerance
      <3> QED
        BY <3>2, <2>8 DEF RefundRejected
    <2>9. CASE Announce(p)
      BY <2>9, <1>2 DEF Announce
    <2>10. CASE AnnounceFails(p)
      BY <2>10, <1>2 DEF AnnounceFails
    <2>11. CASE Audit(p)
      BY <2>11, <1>2 DEF Audit
    <2> HIDE DEF Goal
    <2> QED
      BY <1>2, <2>1, <2>2, <2>3, <2>4, <2>5, <2>6, <2>7, <2>8, <2>9, <2>10, <2>11
         DEF Proceed
  <1>3. ASSUME NEW p \in Tasks, PendingCompletes(p)
       PROVE  Goal
    BY <1>3 DEF PendingCompletes, GatewayGives
  <1>4. CASE Crash
    BY <1>4, CrashAssumption DEF Crash
  <1>5. CASE UNCHANGED vars
    BY <1>5 DEF vars
  <1> HIDE DEF Goal
  <1> QED
    BY <1>1, <1>2, <1>3, <1>4, <1>5 DEF Next

(* Inductive: the invariant holds in every state.                             *)
LEMMA Inductive == Spec => []IInv
  <1>1. IInv /\ [Next]_vars => IInv'
    BY TypeStep, StandingStep, BalanceStep, CauseStep DEF IInv
  <1> QED
    BY InitInv, <1>1, PTL DEF Spec
-----------------------------------------------------------------------------
(* TypeCorrect: in every instance each variable keeps its type.              *)
THEOREM TypeCorrect == Spec => []TypeOK
  BY Inductive, PTL DEF IInv

(* BalanceCorrect: no interleaving of requests checked on stale balances       *)
(* gives back more than the price and a cent, or misplaces Refunded.        *)
THEOREM BalanceCorrect == Spec => []StatusMatchesBalance
  BY Inductive, PTL DEF IInv

(* RefundingJustified: without a crash no order with nothing given back is     *)
(* left Refunding without a request that may end it.                        *)
THEOREM RefundingJustified == Spec => []RefundingHasCause
  BY Inductive, PTL DEF IInv

(* SuccessRecorded: a caller told 'refunded' finds it in the order.           *)
THEOREM SuccessRecorded == Spec => []SuccessIsRecorded
  <1>1. IInv => SuccessIsRecorded
    BY DEF IInv, Standing, SuccessIsRecorded
  <1> QED
    BY Inductive, <1>1, PTL

(* What the order shows as given back, with the refunds that wait to be        *)
(* entered, is covered by what the gateway gave back and what PayPal took on. *)
(* S adds up the amounts of a set of requests; Accept, which gives a request   *)
(* its amount, brings another S.                                            *)
Booking == {p \in Tasks : pc[p] = "book"}

Sums(S) ==
  /\ S \in [SUBSET Tasks -> Nat]
  /\ S[{}] = 0
  /\ \A A \in SUBSET Tasks : \A p \in Tasks \ A : S[A \union {p}] = S[A] + cents[p]

Covered ==
  /\ \A p \in Tasks : pc[p] = "idle" => cents[p] = 0
  /\ \E S : Sums(S) /\ row.refunded + S[Booking] <= returned + owed /\ owed = S[pending]

(* CoveredInit: no request has an amount before the first.                   *)
LEMMA CoveredInit == Init => Covered
  <1> SUFFICES ASSUME Init PROVE Covered
    OBVIOUS
  <1> DEFINE S == [A \in SUBSET Tasks |-> 0]
  <1>1. Sums(S)
    BY DEF Init, Sums
  <1>2. row.refunded + S[Booking] <= returned + owed /\ owed = S[pending]
    BY DEF Init, Booking
  <1> QED
    BY <1>1, <1>2, Zenon DEF Init, Covered

(* CoveredKept: a step that gives no request an amount.                       *)
LEMMA CoveredKept ==
  ASSUME IInv, NEW S, Sums(S), UNCHANGED cents,
         row'.refunded + S[Booking'] <= returned' + owed', owed' = S[pending'],
         \A p \in Tasks : pc'[p] = "idle" => pc[p] = "idle",
         \A p \in Tasks : pc[p] = "idle" => cents[p] = 0
  PROVE  Covered'
  <1>1. Sums(S)'
    BY DEF Sums
  <1> QED
    BY <1>1, Zenon DEF Covered

(* CoveredStep: a refund is entered only after the gateway gave it back, and   *)
(* only once.                                                               *)
LEMMA CoveredStep == IInv /\ Covered /\ [Next]_vars => Covered'
  <1> DEFINE Goal == Covered'
  <1> SUFFICES ASSUME IInv, Covered, [Next]_vars PROVE Goal
    OBVIOUS
  <1>a. PICK S : Sums(S) /\ row.refunded + S[Booking] <= returned + owed /\ owed = S[pending]
    BY Zenon DEF Covered
  <1>b. /\ row.refunded \in Nat /\ returned \in Nat /\ owed \in Int /\ pending \in SUBSET Tasks
        /\ \A p \in Tasks : pc[p] = "idle" => cents[p] = 0
        /\ \A p \in Tasks : cents[p] \in Nat
        /\ DOMAIN pc = Tasks /\ DOMAIN cents = Tasks
    BY AmountOf DEF IInv, TypeOK, Row, Covered
  <1>c. \A A \in SUBSET Tasks : S[A] \in Nat
    BY <1>a DEF Sums
  <1>d. Booking \in SUBSET Tasks
    BY DEF Booking
  <1>1. ASSUME NEW p \in Tasks, NEW c \in Asks, Accept(p, c)
        PROVE  Goal
    <2> DEFINE T == [A \in SUBSET Tasks |-> S[A] + (IF p \in A THEN c ELSE 0)]
    <2>1. /\ cents' = [cents EXCEPT ![p] = c] /\ pc' = [pc EXCEPT ![p] = "mark"]
          /\ pc[p] = "idle" /\ UNCHANGED <<row, returned, pending, owed>> /\ c \in Nat
      BY <1>1, AsksAssumption DEF Accept, Goto, gateway
    <2>2. Booking' = Booking /\ p \notin Booking
      BY <2>1, <1>b DEF Booking
    <2>3. T \in [SUBSET Tasks -> Nat] /\ T[{}] = 0
      BY <1>a, <1>c, <2>1 DEF Sums
    <2>4. ASSUME NEW A \in SUBSET Tasks, NEW q \in Tasks \ A
          PROVE  T[A \union {q}] = T[A] + cents'[q]
      <3>1. /\ S[A \union {q}] = S[A] + cents[q] /\ S[A] \in Nat
            /\ A \union {q} \in SUBSET Tasks
        BY <1>a, <1>c DEF Sums
      <3>2. CASE q = p
        <4>1. cents[q] = 0 /\ cents'[q] = c /\ p \notin A /\ p \in A \union {q}
          BY <3>2, <1>b, <2>1, <2>4
        <4> QED
          BY <3>1, <4>1, <2>1
      <3>3. CASE q # p
        <4>1. cents'[q] = cents[q] /\ (p \in A \union {q} <=> p \in A) /\ cents[q] \in Nat
          BY <3>3, <1>b, <2>1
        <4> QED
          BY <3>1, <4>1, <2>1
      <3> QED
        BY <3>2, <3>3
    <2>5. Sums(T)'
      BY <2>3, <2>4 DEF Sums
    <2>6. T[Booking'] = S[Booking] /\ T[pending'] = S[pending]
      <3>1. p \notin pending
        BY <2>1 DEF IInv, Standing
      <3> QED
        BY <2>1, <2>2, <3>1, <1>b, <1>c, <1>d
    <2>7. row'.refunded + T[Booking'] <= returned' + owed' /\ owed' = T[pending']
      BY <1>a, <2>1, <2>6
    <2>8. \A q \in Tasks : pc'[q] = "idle" => cents'[q] = 0
      BY <1>b, <2>1
    <2> HIDE DEF T
    <2> QED
      BY <2>5, <2>7, <2>8, Zenon DEF Covered
  <1>2. ASSUME NEW p \in Tasks, Proceed(p)
        PROVE  Goal
    <2>a. /\ UNCHANGED cents /\ cents[p] \in Nat
          /\ \A q \in Tasks : pc'[q] = "idle" => pc[q] = "idle"
      BY <1>2, <1>b DEF Proceed, MarkRefunding, Dispatch, DispatchRefused, DispatchLost,
         MarkRefundFailed, ReplayRefund, BookRefund, RefundRejected, Announce, AnnounceFails,
         Audit, Goto
    (* The gateway gives the amount back, or PayPal takes it on.                 *)
    <2>b. ASSUME GatewayTakes(p), pc[p] = "dispatch"
          PROVE  /\ returned' + owed' = returned + owed + cents[p] /\ owed' = S[pending']
                 /\ returned' \in Nat /\ owed' \in Int
      <3>1. CASE GatewayGives(p) /\ UNCHANGED <<pending, owed>>
        BY <3>1, <2>a, <1>a, <1>b DEF GatewayGives
      <3>2. CASE PayPalDefers(p) /\ UNCHANGED <<executed, returned>>
        <4>1. p \notin pending
          BY <2>b DEF IInv, Standing
        <4>2. S[pending \union {p}] = S[pending] + cents[p]
          BY <4>1, <1>a, <1>b DEF Sums
        <4> QED
          BY <3>2, <4>2, <2>a, <1>a, <1>b DEF PayPalDefers
      <3> QED
        BY <2>b, <3>1, <3>2 DEF GatewayTakes
    <2>1. CASE Dispatch(p)
      <3>1. /\ Booking' = Booking \union {p} /\ p \notin Booking
            /\ UNCHANGED row /\ GatewayTakes(p) /\ pc[p] = "dispatch"
        BY <2>1, <1>b DEF Dispatch, Goto, Booking
      <3>2. S[Booking'] = S[Booking] + cents[p]
        BY <3>1, <1>a, <1>d DEF Sums
      <3>3. row'.refunded + S[Booking'] <= returned' + owed' /\ owed' = S[pending']
        BY <3>1, <3>2, <2>a, <2>b, <1>a, <1>b, <1>c, <1>d
      <3> QED
        BY <3>3, <2>a, <1>a, <1>b, CoveredKept
    <2>2. CASE DispatchLost(p)
      <3>1. /\ Booking' = Booking
            /\ UNCHANGED row /\ GatewayTakes(p) /\ pc[p] = "dispatch"
        BY <2>2, <1>b DEF DispatchLost, Goto, Booking
      <3>2. row'.refunded + S[Booking'] <= returned' + owed' /\ owed' = S[pending']
        BY <3>1, <2>a, <2>b, <1>a, <1>b, <1>c, <1>d
      <3> QED
        BY <3>2, <2>a, <1>a, <1>b, CoveredKept
    <2>3. CASE BookRefund(p)
      <3>1. /\ Booking' = Booking \ {p} /\ p \in Booking
            /\ row'.refunded = row.refunded + cents[p] /\ UNCHANGED <<returned, owed, pending>>
        BY <2>3, <1>b DEF BookRefund, Goto, gateway, Booking, RefundedRow, IInv, TypeOK, Row
      <3>2. S[Booking] = S[Booking'] + cents[p]
        <4>1. Booking = Booking' \union {p} /\ Booking' \in SUBSET Tasks /\ p \notin Booking'
          BY <3>1, <1>d
        <4> QED
          BY <4>1, <1>a DEF Sums
      <3>3. row'.refunded + S[Booking'] <= returned' + owed' /\ owed' = S[pending']
        <4>1. S[Booking'] \in Nat
          BY <3>1, <1>c, <1>d
        <4> QED
          BY <3>1, <3>2, <4>1, <2>a, <1>a, <1>b
      <3> QED
        BY <3>3, <2>a, <1>a, <1>b, CoveredKept
    <2>4. CASE ReplayRefund(p) \/ RefundRejected(p)
      <3>1. Booking' = Booking \ {p} /\ p \in Booking /\ UNCHANGED <<row, returned, owed, pending>>
        BY <2>4, <1>b DEF ReplayRefund, RefundRejected, Goto, gateway, Booking
      <3>2. S[Booking] = S[Booking'] + cents[p]
        <4>1. Booking = Booking' \union {p} /\ Booking' \in SUBSET Tasks /\ p \notin Booking'
          BY <3>1, <1>d
        <4> QED
          BY <4>1, <1>a DEF Sums
      <3>3. row'.refunded + S[Booking'] <= returned' + owed' /\ owed' = S[pending']
        <4>1. S[Booking'] \in Nat
          BY <3>1, <1>c, <1>d
        <4> QED
          BY <3>1, <3>2, <4>1, <2>a, <1>a, <1>b
      <3> QED
        BY <3>3, <2>a, <1>a, <1>b, CoveredKept
    <2>5. CASE \/ MarkRefunding(p) \/ DispatchRefused(p) \/ MarkRefundFailed(p)
               \/ Announce(p) \/ AnnounceFails(p) \/ Audit(p)
      <3>1. Booking' = Booking \ {p} /\ p \notin Booking /\ UNCHANGED <<returned, owed, pending>>
            /\ row'.refunded = row.refunded
        BY <2>5, <1>b DEF MarkRefunding, DispatchRefused, MarkRefundFailed, Announce,
           AnnounceFails, Audit, Goto, gateway, Booking, RefundingRow, RolledBackRow,
           IInv, TypeOK, Row
      <3>2. Booking' = Booking
        BY <3>1
      <3> QED
        BY <3>1, <3>2, <2>a, <1>a, <1>b, CoveredKept
    <2> HIDE DEF Goal
    <2> QED
      BY <1>2, <2>1, <2>2, <2>3, <2>4, <2>5 DEF Proceed
  <1>3. ASSUME NEW p \in Tasks, PendingCompletes(p)
        PROVE  Goal
    <2>1. /\ p \in pending /\ pending' = pending \ {p} /\ Booking' = Booking
          /\ UNCHANGED <<row, pc, cents>>
          /\ returned' = returned + cents[p] /\ owed' = owed - cents[p]
      BY <1>3 DEF PendingCompletes, GatewayGives, Booking
    <2>2. pending = pending' \union {p} /\ pending' \in SUBSET Tasks /\ p \notin pending'
      BY <1>b, <2>1
    <2>3. S[pending] = S[pending'] + cents[p]
      BY <2>2, <1>a DEF Sums
    <2>4. S[pending'] \in Nat
      BY <2>2, <1>c
    <2>5. /\ row'.refunded + S[Booking'] <= returned' + owed'
          /\ owed' = S[pending']
      BY <2>1, <2>3, <2>4, <1>a, <1>b, <1>c, <1>d
    <2> QED
      BY <2>1, <2>5, <1>a, <1>b, CoveredKept
  <1>4. CASE Crash
    <2>1. Booking' = {} /\ UNCHANGED <<row, cents, returned, pending, owed>>
      BY <1>4 DEF Crash, Booking, InFlight, gateway
    <2>2. \A p \in Tasks : pc'[p] = "idle" => pc[p] = "idle"
      BY <1>4 DEF Crash
    <2>3. row'.refunded + S[Booking'] <= returned' + owed' /\ owed' = S[pending']
      BY <2>1, <1>a, <1>b, <1>c, <1>d DEF Sums
    <2> QED
      BY <2>1, <2>2, <2>3, <1>a, <1>b, CoveredKept
  <1>5. CASE UNCHANGED vars
    BY <1>5, <1>a, <1>b, CoveredKept DEF vars, Booking
  <1> HIDE DEF Goal
  <1> QED
    BY <1>1, <1>2, <1>3, <1>4, <1>5 DEF Next

(* NeverOverstated: the order never shows money as given back that the        *)
(* gateway did not give back, for each request and in total, whatever the      *)
(* order of the requests, the lost answers and the restarts (execute); but     *)
(* for what PayPal left pending (PayPalService.refund), and no more than that. *)
THEOREM NeverOverstated == Spec => []RecordedIsBacked
  <1>1. ASSUME IInv, Covered PROVE RecordedIsBacked
    <2>1. PICK S : Sums(S) /\ row.refunded + S[Booking] <= returned + owed /\ owed = S[pending]
      BY <1>1, Zenon DEF Covered
    <2>2. S[Booking] \in Nat /\ row.refunded \in Nat /\ returned \in Nat /\ owed \in Int
      BY <1>1, <2>1 DEF Sums, Booking, IInv, TypeOK, Row
    <2>3. row.refunded <= returned + owed
      BY <2>1, <2>2
    <2>4. ASSUME row.payMethod # "paypal" \/ pending = {}
          PROVE  row.refunded <= returned
      <3>1. pending = {}
        BY <1>1, <2>4 DEF IInv, TakenOn
      <3>2. owed = 0
        BY <2>1, <3>1 DEF Sums
      <3> QED
        BY <2>2, <2>3, <3>2
    <2> QED
      BY <1>1, <2>3, <2>4 DEF RecordedIsBacked, IInv, TakenOn
  <1>2. Spec => []Covered
    BY Inductive, CoveredInit, CoveredStep, PTL DEF Spec
  <1> QED
    BY <1>1, <1>2, Inductive, PTL

(* RowStep: what a step may do to the row: nothing, move an open order between *)
(* Paid and Refunding, or enter the amount of one request.                  *)
LEMMA RowStep ==
  ASSUME IInv, [Next]_vars
  PROVE  \/ row' = row
         \/ /\ row.status # "Refunded" /\ row'.status # "Refunded"
            /\ row'.refunded = row.refunded
         \/ \E p \in Tasks : cents[p] \in Asks /\ BookRefund(p)
  <1> DEFINE Goal == \/ row' = row
                     \/ /\ row.status # "Refunded" /\ row'.status # "Refunded"
                        /\ row'.refunded = row.refunded
                     \/ \E p \in Tasks : cents[p] \in Asks /\ BookRefund(p)
  <1> SUFFICES Goal
    OBVIOUS
  <1> USE DEF IInv, TypeOK, Row, gateway, ledger
  <1>1. ASSUME NEW p \in Tasks, NEW c \in Asks, Accept(p, c)
       PROVE  Goal
    BY <1>1 DEF Accept
  <1>2. ASSUME NEW p \in Tasks, Proceed(p)
       PROVE  Goal
    <2>1. CASE MarkRefunding(p)
      BY <2>1, <1>2 DEF MarkRefunding, RefundingRow
    <2>2. CASE Dispatch(p)
      BY <2>2, <1>2 DEF Dispatch, GatewayTakes, GatewayGives, PayPalDefers
    <2>3. CASE DispatchRefused(p)
      BY <2>3, <1>2 DEF DispatchRefused
    <2>4. CASE DispatchLost(p)
      BY <2>4, <1>2 DEF DispatchLost, GatewayTakes, GatewayGives, PayPalDefers
    <2>5. CASE MarkRefundFailed(p)
      BY <2>5, <1>2 DEF MarkRefundFailed, RolledBackRow
    <2>6. CASE ReplayRefund(p)
      BY <2>6, <1>2 DEF ReplayRefund, RefundReplayed
    <2>7. CASE BookRefund(p)
      <3>1. cents[p] \in Asks
        BY <2>7 DEF BookRefund, Standing
      <3> QED
        BY <3>1, <2>7, <1>2
    <2>8. CASE RefundRejected(p)
      BY <2>8, <1>2 DEF RefundRejected, RefundAccepted, RefundReplayed
    <2>9. CASE Announce(p)
      BY <2>9, <1>2 DEF Announce
    <2>10. CASE AnnounceFails(p)
      BY <2>10, <1>2 DEF AnnounceFails
    <2>11. CASE Audit(p)
      BY <2>11, <1>2 DEF Audit
    <2> HIDE DEF Goal
    <2> QED
      BY <1>2, <2>1, <2>2, <2>3, <2>4, <2>5, <2>6, <2>7, <2>8, <2>9, <2>10, <2>11
         DEF Proceed
  <1>3. ASSUME NEW p \in Tasks, PendingCompletes(p)
       PROVE  Goal
    BY <1>3 DEF PendingCompletes, GatewayGives
  <1>4. CASE Crash
    BY <1>4 DEF Crash, InFlight
  <1>5. CASE UNCHANGED vars
    BY <1>5 DEF vars
  <1> HIDE DEF Goal
  <1> QED
    BY <1>1, <1>2, <1>3, <1>4, <1>5 DEF Next

(* LedgerOnlyGrows: no step lowers the amount given back, and a Refunded       *)
(* order never changes again.                                               *)
THEOREM LedgerOnlyGrows == Spec => LedgerGrows
  <1> DEFINE Grows == /\ row'.refunded >= row.refunded
                      /\ row.status = "Refunded" => row' = row
  <1>1. IInv /\ [Next]_vars => [Grows]_vars
    <2> SUFFICES ASSUME IInv, [Next]_vars PROVE Grows
      OBVIOUS
    <2>1. row.refunded \in Nat
      BY DEF IInv, TypeOK, Row
    <2>2. ASSUME NEW p \in Tasks, cents[p] \in Asks, BookRefund(p)
          PROVE  Grows
      BY <2>1, <2>2, AsksAssumption
         DEF BookRefund, RefundAccepted, RefundedRow, IInv, TypeOK, Row
    <2> QED
      BY <2>1, <2>2, RowStep
  <1> QED
    BY Inductive, <1>1, PTL DEF Spec, LedgerGrows

(* Refinement: the handlers' interleavings implement RefundLedger; each entry  *)
(* of a refund is one step of it and everything else a stutter.             *)
THEOREM Refinement == Spec => ImplementsLedger
  <1> DEFINE lvars == <<row.refunded, row.status = "Refunded">>
  <1>1. Init => Ledger!Init
    BY DEF Init, Ledger!Init
  <1>2. IInv /\ [Next]_vars => [Ledger!Next]_lvars
    <2> SUFFICES ASSUME IInv, [Next]_vars PROVE [Ledger!Next]_lvars
      OBVIOUS
    <2>1. ASSUME NEW p \in Tasks, cents[p] \in Asks, BookRefund(p)
          PROVE  Ledger!Refund(cents[p])
      <3>1. row.refunded \in Nat /\ cents[p] \in Nat
        BY AmountOf DEF IInv, TypeOK, Row
      <3>2. row'.refunded = row.refunded + cents[p]
        BY <2>1 DEF BookRefund, RefundedRow, IInv, TypeOK, Row
      <3>3. row.status # "Refunded" /\ row.refunded + cents[p] <= Amount + 1
        BY <2>1, <3>1, AmountAssumption DEF BookRefund, RefundAccepted, Tolerance
      <3>4. row'.status = "Refunded" <=> Near(row.refunded + cents[p], Amount)
        BY <2>1, <3>3 DEF BookRefund, RefundedRow, IInv, TypeOK, Row
      <3>5. Near(row.refunded + cents[p], Amount)
              <=> Ledger!AtPrice(row.refunded + cents[p])
        BY <3>1, AmountAssumption DEF Near, Tolerance, Ledger!AtPrice
      <3>6. (row'.status = "Refunded") = Ledger!AtPrice(row'.refunded)
        BY <3>2, <3>4, <3>5 DEF Ledger!AtPrice
      <3> QED
        BY <3>2, <3>3, <3>6 DEF Ledger!Refund
    <2> QED
      BY <2>1, RowStep DEF Ledger!Next
  <1> QED
    BY Inductive, <1>1, <1>2, PTL DEF Spec, ImplementsLedger, Ledger!Spec
=============================================================================
