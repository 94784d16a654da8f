---------------------------- MODULE GatewayProofs ---------------------------
(* Theorems about Gateway, beside the administrators' edits of Merchants, for  *)
(* every set of deliveries and messages, every window and every lifetime of a *)
(* nonce that exceeds the window by more than a merchant's clock is ahead.   *)
EXTENDS Gateway, MerchantsProofs

StampOf(m) == message[m].stamp

(* The message's nonce is in the table, or its timestamp does not pass again. *)
Guarded(m) == m \in DOMAIN nonces \/ now > StampOf(m) + Window

(* What is known of a delivery where it stands: it read the clock when its    *)
(* timestamp passed, and its message is guarded once its save found the      *)
(* nonce or has entered it.                                                 *)
CallHolds(c) ==
  LET m == MessageOf[c] IN
  /\ call[c].at # "idle" \/ c \in spent => m \in DOMAIN message
  /\ call[c].at \in {"select", "write", "clean"} =>
       call[c].now <= now /\ StampOf(m) <= call[c].now + MaxSkew
  /\ c \in spent \/ (call[c].at = "write" /\ ~ call[c].fresh) => Guarded(m)
  /\ \A d \in call[c].before : MessageOf[d] # m

(* A nonce in the table outlives the timestamp it protects; who signed is in  *)
(* the table of merchants.                                                  *)
NoncesHold ==
  /\ \A m \in DOMAIN message : message[m].shop \in Known
  /\ DOMAIN nonces \subseteq DOMAIN message
  /\ \A m \in DOMAIN nonces : nonces[m] > StampOf(m) + Window
  /\ \A m \in DOMAIN message : StampOf(m) <= now + MaxSkew

AnswersHold ==
  /\ AnswerMatches
  /\ \A c \in Calls : call[c].at = "resave" => call[c].order # NoOrder

GInv == GatewayTypeOK /\ NoncesHold /\ AnswersHold /\ \A c \in Calls : CallHolds(c)

(* GatewayInitInv: the invariant holds before the first message.              *)
LEMMA GatewayInitInv == GatewayInit => GInv
  <1> SUFFICES ASSUME GatewayInit PROVE GInv
    OBVIOUS
  <1> USE ClockAssumption, CallAssumption, SecretAssumption DEF GatewayInit
  <1>1. DOMAIN message = {} /\ DOMAIN nonces = {} /\ Len(orders) = 0
    OBVIOUS
  <1>2. message \in [DOMAIN message -> [stamp: Nat, shop: Ids, secret: 0..MaxSecrets]]
        /\ nonces \in [DOMAIN nonces -> Nat]
    BY <1>1
  <1>3. GatewayTypeOK
    BY <1>1, <1>2 DEF GatewayTypeOK, Call, CallStates, NoOrder
  <1>4. NoncesHold /\ AnswersHold
    BY <1>1 DEF NoncesHold, AnswersHold, AnswerMatches, NoOrder
  <1>5. \A c \in Calls : CallHolds(c)
    BY DEF CallHolds
  <1> QED
    BY <1>3, <1>4, <1>5 DEF GInv

(* CallFields: a call with one field changed to a value of its type is a call.    *)
LEMMA CallFields ==
  ASSUME NEW r \in Call
  PROVE  /\ \A x \in CallStates : [r EXCEPT !.at = x] \in Call
         /\ \A x \in 0..MaxSecrets : [r EXCEPT !.secret = x] \in Call
         /\ \A x \in 0..MaxNow : [r EXCEPT !.now = x] \in Call
         /\ \A x \in BOOLEAN : [r EXCEPT !.fresh = x] \in Call
         /\ \A x \in 0..Len(orders) : [r EXCEPT !.order = x] \in Call
         /\ \A x \in SUBSET spent : [r EXCEPT !.before = x] \in Call
  BY DEF Call

(* Moved, Left: a delivery that moves on keeps what it has read, or forgets it. *)
LEMMA Moved ==
  ASSUME call \in [Calls -> Call], NEW c \in Calls, NEW state \in CallStates, Move(c, state)
  PROVE  call' \in [Calls -> Call]
  <1>1. [call[c] EXCEPT !.at = state] \in Call
    BY DEF Call
  <1>2. call' = [call EXCEPT ![c] = [call[c] EXCEPT !.at = state]]
    BY DEF Move
  <1> QED
    BY <1>1, <1>2

LEMMA Left ==
  ASSUME call \in [Calls -> Call], NEW c \in Calls, NEW state \in CallStates, Leave(c, state)
  PROVE  call' \in [Calls -> Call]
  <1> DEFINE left == [call[c] EXCEPT !.at = state, !.secret = 0, !.now = 0, !.fresh = FALSE]
  <1>1. left \in Call
    <2>1. 0 \in 0..MaxSecrets /\ 0 \in 0..MaxNow
      BY SecretAssumption, ClockAssumption
    <2>2. [call[c] EXCEPT !.at = state] \in Call
      BY CallFields
    <2>3. [call[c] EXCEPT !.at = state, !.secret = 0] \in Call
      BY <2>1, <2>2, CallFields
    <2>4. [call[c] EXCEPT !.at = state, !.secret = 0, !.now = 0] \in Call
      BY <2>1, <2>3, CallFields
    <2> QED
      BY <2>4, CallFields
  <1>2. call' = [call EXCEPT ![c] = left]
    BY DEF Leave
  <1> QED
    BY <1>1, <1>2

(* Grown: a call keeps its type as deliveries and orders are added.           *)
LEMMA Grown ==
  ASSUME spent \subseteq spent', orders \in Seq(Order), orders' \in Seq(Order),
         Len(orders) <= Len(orders')
  PROVE  Call \subseteq Call'
  <1>1. 0..Len(orders) \subseteq 0..Len(orders')
    OBVIOUS
  <1> QED
    BY <1>1 DEF Call

(* GatewayTypeStep: every step of a delivery, a merchant or the clock keeps    *)
(* the types, if the table of merchants is one.                             *)
LEMMA GatewayTypeStep ==
  MerchantsTypeOK /\ GInv /\ [GatewayNext]_gatewayVars => GatewayTypeOK'
  <1> DEFINE Goal == GatewayTypeOK'
  <1> SUFFICES ASSUME MerchantsTypeOK, GInv, [GatewayNext]_gatewayVars PROVE Goal
    OBVIOUS
  <1> USE ClockAssumption, CallAssumption DEF GInv, GatewayTypeOK
  <1>1. ASSUME NEW m \in Messages, NEW i \in Ids, NEW stamp \in 0..(MaxNow + MaxSkew),
               Sign(m, i, stamp)
        PROVE  Goal
    <2>1. told[i] \in 0..MaxSecrets /\ stamp \in Nat
      BY DEF MerchantsTypeOK
    <2>2. DOMAIN message' = DOMAIN message \union {m}
      BY <1>1 DEF Sign, Store
    <2>3. message' \in [DOMAIN message' -> [stamp: Nat, shop: Ids, secret: 0..MaxSecrets]]
      BY <1>1, <2>1, <2>2 DEF Sign, Store
    <2> QED
      BY <1>1, <2>2, <2>3 DEF Sign, Call
  <1>2. CASE Tick
    BY <1>2 DEF Tick, Call
  <1>3. ASSUME NEW c \in Calls, Arrive(c)
        PROVE  Goal
    <2>1. merchants[Asked(c).shop].secret \in 0..MaxSecrets
      <3>1. Asked(c).shop \in Known
        BY <1>3 DEF Arrive, Sent, Asked, NoncesHold
      <3>2. merchants[Asked(c).shop] \in Merchant
        BY <3>1 DEF MerchantsTypeOK
      <3> QED
        BY <3>2 DEF Merchant
    <2> DEFINE arrived == [call[c] EXCEPT !.at = "select", !.now = now, !.before = spent,
                             !.secret = merchants[Asked(c).shop].secret]
    <2>2. arrived \in Call
      <3>1. [call[c] EXCEPT !.at = "select"] \in Call
        BY CallFields DEF CallStates
      <3>2. [call[c] EXCEPT !.at = "select", !.now = now] \in Call
        BY <3>1, CallFields
      <3>3. [call[c] EXCEPT !.at = "select", !.now = now, !.before = spent] \in Call
        BY <3>2, CallFields
      <3> QED
        BY <2>1, <3>3, CallFields
    <2>3. call' = [call EXCEPT ![c] = arrived] \/ Move(c, "refused")
      BY <1>3 DEF Arrive
    <2>4. call' \in [Calls -> Call]
      BY <2>2, <2>3, Moved DEF CallStates
    <2> QED
      BY <1>3, <2>4 DEF Arrive, Call
  <1>4. ASSUME NEW c \in Calls, SelectNonce(c)
        PROVE  Goal
    <2> DEFINE fresh == MessageOf[c] \notin DOMAIN nonces
    <2>1. [call[c] EXCEPT !.at = "write", !.fresh = fresh] \in Call
      <3>1. [call[c] EXCEPT !.at = "write"] \in Call /\ fresh \in BOOLEAN
        BY CallFields DEF CallStates
      <3> HIDE DEF fresh
      <3> QED
        BY <3>1, CallFields
    <2>2. call' = [call EXCEPT ![c] = [call[c] EXCEPT !.at = "write", !.fresh = fresh]]
      BY <1>4 DEF SelectNonce
    <2>3. call' \in [Calls -> Call]
      BY <2>1, <2>2
    <2> QED
      BY <1>4, <2>3 DEF SelectNonce, Call
  <1>5. ASSUME NEW c \in Calls, InsertNonce(c)
        PROVE  Goal
    <2> DEFINE m == MessageOf[c]
    <2>1. call' \in [Calls -> Call]
      BY <1>5, Moved, Left DEF InsertNonce, CallStates
    <2>2. spent \subseteq spent' /\ spent' \subseteq Calls
      BY <1>5 DEF InsertNonce
    <2>3. Call \subseteq Call'
      BY <1>5, <2>2, Grown DEF InsertNonce
    <2>4. CASE m \in DOMAIN nonces
      BY <1>5, <2>1, <2>2, <2>3, <2>4 DEF InsertNonce
    <2>5. CASE m \notin DOMAIN nonces
      <3>1. call[c].now + Ttl \in Nat /\ m \in Messages
        BY DEF Call
      <3>2. nonces' = Store(nonces, m, call[c].now + Ttl)
        BY <1>5, <2>5 DEF InsertNonce
      <3>3. DOMAIN nonces' = DOMAIN nonces \union {m}
        BY <3>2 DEF Store
      <3>4. nonces' \in [DOMAIN nonces' -> Nat]
        BY <3>1, <3>2, <3>3 DEF Store
      <3> QED
        BY <1>5, <2>1, <2>2, <2>3, <3>1, <3>3, <3>4 DEF InsertNonce
    <2> QED
      BY <2>4, <2>5
  <1>6. ASSUME NEW c \in Calls, UpdateNonce(c)
        PROVE  Goal
    <2>1. DOMAIN nonces' = DOMAIN nonces /\ nonces' \in [DOMAIN nonces -> Nat]
      <3>1. call[c].now + Ttl \in Nat
        BY DEF Call
      <3> QED
        BY <1>6, <3>1 DEF UpdateNonce, Store
    <2>2. call' \in [Calls -> Call]
      BY <1>6, Moved DEF UpdateNonce, CallStates
    <2>3. spent \subseteq spent' /\ spent' \subseteq Calls
      BY <1>6 DEF UpdateNonce
    <2>4. Call \subseteq Call'
      BY <1>6, <2>3, Grown DEF UpdateNonce
    <2> QED
      BY <1>6, <2>1, <2>2, <2>3, <2>4 DEF UpdateNonce
  <1>7. ASSUME NEW c \in Calls, CleanNonces(c)
        PROVE  Goal
    <2>1. DOMAIN nonces' \subseteq DOMAIN nonces /\ nonces' \in [DOMAIN nonces' -> Nat]
      BY <1>7 DEF CleanNonces
    <2>2. call' \in [Calls -> Call]
      BY <1>7, Left DEF CleanNonces, CallStates
    <2> QED
      BY <1>7, <2>1, <2>2 DEF CleanNonces, Call
  <1>8. ASSUME NEW c \in Calls, FindOrder(c)
        PROVE  Goal
    <2>1. ASSUME NEW state \in CallStates, Len(orders) # 0,
                 call' = [call EXCEPT ![c].order = Len(orders), ![c].at = state]
          PROVE  call' \in [Calls -> Call]
      <3>1. [call[c] EXCEPT !.order = Len(orders), !.at = state] \in Call
        <4>1. Len(orders) \in 0..Len(orders)
          OBVIOUS
        <4>2. [call[c] EXCEPT !.order = Len(orders)] \in Call
          BY <4>1, CallFields
        <4> QED
          BY <4>2, CallFields
      <3>2. call' = [call EXCEPT ![c] = [call[c] EXCEPT !.order = Len(orders), !.at = state]]
        BY <2>1
      <3> QED
        BY <3>1, <3>2
    <2>2. call' \in [Calls -> Call]
      BY <1>8, <2>1, Moved DEF FindOrder, CallStates
    <2> QED
      BY <1>8, <2>2 DEF FindOrder, Call
  <1>9. ASSUME NEW c \in Calls, Resave(c)
        PROVE  Goal
    <2> DEFINE n == call[c].order
               saved == [orders[n] EXCEPT !.method = MethodOf[MessageOf[c]]]
    <2>1. n \in 1..Len(orders)
      BY <1>9 DEF Resave, AnswersHold, NoOrder, Call
    <2>2. orders[n] \in Order /\ MessageOf[c] \in Messages
      BY <2>1
    <2>3. saved \in Order
      BY <2>2 DEF Order
    <2>4. orders' = [orders EXCEPT ![n] = saved]
      BY <1>9 DEF Resave
    <2> HIDE DEF saved, n
    <2>5. orders' \in Seq(Order) /\ Len(orders') = Len(orders)
      BY <2>1, <2>3, <2>4
    <2>6. call' \in [Calls -> Call]
      BY <1>9, Moved DEF Resave, CallStates
    <2>7. Call \subseteq Call'
      BY <1>9, <2>5, Grown DEF Resave
    <2> QED
      BY <1>9, <2>5, <2>6, <2>7 DEF Resave
  <1>10. ASSUME NEW c \in Calls, InsertOrder(c)
        PROVE  Goal
    <2> DEFINE order == [amount |-> AmountOf[MessageOf[c]],
                         method |-> MethodOf[MessageOf[c]], by |-> c]
               served == [call[c] EXCEPT !.at = "done", !.order = Len(orders')]
    <2>1. order \in Order
      BY DEF Order
    <2>2. orders' = Append(orders, order)
      BY <1>10 DEF InsertOrder
    <2>3. call' = [call EXCEPT ![c] = served]
      BY <1>10 DEF InsertOrder
    <2> HIDE DEF order
    <2>4. orders' \in Seq(Order) /\ Len(orders') = Len(orders) + 1
      BY <2>1, <2>2
    <2>5. Call \subseteq Call'
      BY <1>10, <2>4, Grown DEF InsertOrder
    <2>6. call[c] \in Call' /\ Len(orders') \in 0..Len(orders')
      BY <2>4, <2>5
    <2>7. served \in Call'
      BY <2>6 DEF Call, CallStates
    <2> HIDE DEF served
    <2>8. call' \in [Calls -> Call']
      BY <2>3, <2>5, <2>7
    <2> QED
      BY <1>10, <2>4, <2>8 DEF InsertOrder
  <1>11. CASE UNCHANGED gatewayVars
    BY <1>11 DEF gatewayVars, Call
  <1> HIDE DEF Goal
  <1> QED
    BY <1>1, <1>2, <1>3, <1>4, <1>5, <1>6, <1>7, <1>8, <1>9, <1>10, <1>11
       DEF GatewayNext, Serve

(* NoncesStep: a nonce is entered with an expiry beyond its message's window,  *)
(* whichever delivery enters it.                                            *)
LEMMA NoncesStep == GInv /\ [GatewayNext]_gatewayVars /\ Known \subseteq Known' => NoncesHold'
  <1> DEFINE Goal == NoncesHold'
  <1> SUFFICES ASSUME GInv, [GatewayNext]_gatewayVars, Known \subseteq Known' PROVE Goal
    OBVIOUS
  <1> USE ClockAssumption, CallAssumption DEF GInv, GatewayTypeOK, NoncesHold, StampOf
  <1>0. now \in Nat /\ MaxSkew \in Nat /\ \A m \in DOMAIN message : message[m].stamp \in Nat
    OBVIOUS
  <1>1. ASSUME NEW m \in Messages, NEW i \in Ids, NEW stamp \in 0..(MaxNow + MaxSkew),
               Sign(m, i, stamp)
        PROVE  Goal
    <2>1. DOMAIN message' = DOMAIN message \union {m} /\ m \notin DOMAIN message
      BY <1>1 DEF Sign, Store
    <2>2. /\ message'[m].stamp = stamp /\ message'[m].shop = i
          /\ \A k \in DOMAIN message : message'[k] = message[k]
      BY <1>1, <2>1 DEF Sign, Store
    <2>3. stamp <= now + MaxSkew /\ i \in Known /\ now' = now /\ nonces' = nonces
      BY <1>0, <1>1 DEF Sign
    <2> QED
      BY <2>1, <2>2, <2>3
  <1>2. CASE Tick
    <2>1. now' = now + 1 /\ message' = message /\ nonces' = nonces
      BY <1>2 DEF Tick
    <2> QED
      BY <1>0, <2>1
  <1>3. ASSUME NEW c \in Calls, Arrive(c) \/ SelectNonce(c) \/ FindOrder(c)
                                  \/ Resave(c) \/ InsertOrder(c)
        PROVE  Goal
    <2>1. now' = now /\ message' = message /\ nonces' = nonces
      BY <1>3 DEF Arrive, SelectNonce, FindOrder, Resave, InsertOrder
    <2> QED
      BY <2>1
  <1>4. ASSUME NEW c \in Calls, InsertNonce(c) \/ UpdateNonce(c)
        PROVE  Goal
    <2> DEFINE m == MessageOf[c]
    <2>1. now' = now /\ message' = message
      BY <1>4 DEF InsertNonce, UpdateNonce
    <2>2. nonces' = nonces \/ nonces' = Store(nonces, m, call[c].now + Ttl)
      BY <1>4 DEF InsertNonce, UpdateNonce
    <2>3. m \in DOMAIN message /\ StampOf(m) <= call[c].now + MaxSkew
      BY <1>4 DEF InsertNonce, UpdateNonce, CallHolds
    <2>4. call[c].now \in Nat
      BY DEF Call
    <2>5. call[c].now + Ttl > StampOf(m) + Window
      BY <1>0, <2>3, <2>4
    <2> HIDE DEF m
    <2>6. CASE nonces' = Store(nonces, m, call[c].now + Ttl)
      <3>1. DOMAIN nonces' = DOMAIN nonces \union {m} /\ nonces'[m] = call[c].now + Ttl
        BY <2>6 DEF Store
      <3>2. \A k \in DOMAIN nonces : k # m => nonces'[k] = nonces[k]
        BY <2>6 DEF Store
      <3> QED
        BY <2>1, <2>3, <2>5, <3>1, <3>2
    <2> QED
      BY <2>1, <2>2, <2>6
  <1>5. ASSUME NEW c \in Calls, CleanNonces(c)
        PROVE  Goal
    <2>1. now' = now /\ message' = message /\ DOMAIN nonces' \subseteq DOMAIN nonces
          /\ \A m \in DOMAIN nonces' : nonces'[m] = nonces[m]
      BY <1>5 DEF CleanNonces
    <2> QED
      BY <2>1
  <1>6. CASE UNCHANGED gatewayVars
    BY <1>6 DEF gatewayVars
  <1> HIDE DEF Goal
  <1> QED
    BY <1>1, <1>2, <1>3, <1>4, <1>5, <1>6 DEF GatewayNext, Serve

(* GuardedStep: a message once guarded stays guarded: a nonce is deleted only  *)
(* when its message's timestamp does not pass any more.                     *)
LEMMA GuardedStep ==
  ASSUME GInv, [GatewayNext]_gatewayVars, NEW m \in DOMAIN message, Guarded(m)
  PROVE  m \in DOMAIN message' /\ Guarded(m)'
  <1> DEFINE Goal == m \in DOMAIN message' /\ Guarded(m)'
  <1> SUFFICES Goal
    OBVIOUS
  <1> USE ClockAssumption DEF GInv, GatewayTypeOK, NoncesHold, StampOf, Guarded
  <1>0. now \in Nat /\ message[m].stamp \in Nat
    OBVIOUS
  <1>1. ASSUME NEW k \in Messages, NEW i \in Ids, NEW stamp \in 0..(MaxNow + MaxSkew),
               Sign(k, i, stamp)
        PROVE  Goal
    BY <1>1 DEF Sign, Store
  <1>2. CASE Tick
    BY <1>0, <1>2 DEF Tick
  <1>3. ASSUME NEW c \in Calls, Serve(c), ~ CleanNonces(c)
        PROVE  Goal
    <2>1. now' = now /\ message' = message
      BY <1>3 DEF Serve, Arrive, SelectNonce, InsertNonce, UpdateNonce,
                  FindOrder, Resave, InsertOrder
    <2>2. DOMAIN nonces \subseteq DOMAIN nonces'
      BY <1>3 DEF Serve, Arrive, SelectNonce, InsertNonce, UpdateNonce,
                  FindOrder, Resave, InsertOrder, Store
    <2> QED
      BY <2>1, <2>2
  <1>4. ASSUME NEW c \in Calls, CleanNonces(c)
        PROVE  Goal
    <2>1. now' = now /\ message' = message
          /\ DOMAIN nonces' = {k \in DOMAIN nonces : ~ nonces[k] < call[c].now}
      BY <1>4 DEF CleanNonces, Expired
    <2>2. call[c].now <= now /\ call[c].now \in Nat
      BY <1>4 DEF CleanNonces, CallHolds, Call
    <2>3. CASE m \in DOMAIN nonces /\ m \notin DOMAIN nonces'
      <3>1. nonces[m] \in Nat /\ nonces[m] < now
        BY <2>1, <2>2, <2>3
      <3>2. now > message[m].stamp + Window
        BY <1>0, <2>3, <3>1
      <3> QED
        BY <2>1, <3>2
    <2> QED
      BY <2>1, <2>3
  <1>5. CASE UNCHANGED gatewayVars
    BY <1>5 DEF gatewayVars
  <1> HIDE DEF Goal
  <1> QED
    BY <1>1, <1>2, <1>3, <1>4, <1>5 DEF GatewayNext

(* Forward: the clock does not go back, and a message sent stays as it is.      *)
LEMMA Forward ==
  ASSUME GInv, [GatewayNext]_gatewayVars
  PROVE  /\ now \in Nat /\ now' \in Nat /\ now <= now'
         /\ DOMAIN message \subseteq DOMAIN message'
         /\ \A m \in DOMAIN message : StampOf(m)' = StampOf(m) /\ StampOf(m) \in Nat
  <1> DEFINE Goal == /\ now \in Nat /\ now' \in Nat /\ now <= now'
                     /\ DOMAIN message \subseteq DOMAIN message'
                     /\ \A m \in DOMAIN message : StampOf(m)' = StampOf(m) /\ StampOf(m) \in Nat
  <1> SUFFICES Goal
    OBVIOUS
  <1> USE ClockAssumption DEF GInv, GatewayTypeOK, StampOf
  <1>1. ASSUME NEW k \in Messages, NEW i \in Ids, NEW stamp \in 0..(MaxNow + MaxSkew),
               Sign(k, i, stamp)
        PROVE  Goal
    BY <1>1 DEF Sign, Store
  <1>2. CASE Tick
    BY <1>2 DEF Tick
  <1>3. ASSUME NEW c \in Calls, Serve(c)
        PROVE  Goal
    <2>1. now' = now /\ message' = message
      BY <1>3 DEF Serve, Arrive, SelectNonce, InsertNonce, UpdateNonce, CleanNonces,
                  FindOrder, Resave, InsertOrder
    <2> QED
      BY <2>1
  <1>4. CASE UNCHANGED gatewayVars
    BY <1>4 DEF gatewayVars
  <1> HIDE DEF Goal
  <1> QED
    BY <1>1, <1>2, <1>3, <1>4 DEF GatewayNext

(* Bystander: a step that leaves a delivery where it is leaves what is known   *)
(* of it true.                                                              *)
LEMMA Bystander ==
  ASSUME GInv, [GatewayNext]_gatewayVars, NEW u \in Calls,
         call'[u] = call[u], u \in spent' => u \in spent
  PROVE  CallHolds(u)'
  <1> DEFINE m == MessageOf[u]
  <1>1. CallHolds(u)
    BY DEF GInv
  <1>2. m \in DOMAIN message /\ Guarded(m) => Guarded(m)'
    BY GuardedStep
  <1>3. call[u].now \in Nat /\ MaxSkew \in Nat
    BY ClockAssumption DEF GInv, GatewayTypeOK, Call
  <1>4. m \in DOMAIN message => m \in DOMAIN message' /\ StampOf(m)' = StampOf(m)
    BY Forward
  <1>5. now \in Nat /\ now' \in Nat /\ now <= now'
    BY Forward
  <1>6. call[u].at # "idle" \/ u \in spent => m \in DOMAIN message'
    BY <1>1, <1>4 DEF CallHolds
  <1>7. call[u].at \in {"select", "write", "clean"} =>
          call[u].now <= now' /\ StampOf(m)' <= call[u].now + MaxSkew
    <2> SUFFICES ASSUME call[u].at \in {"select", "write", "clean"}
                 PROVE  call[u].now <= now' /\ StampOf(m)' <= call[u].now + MaxSkew
      OBVIOUS
    <2>1. m \in DOMAIN message /\ call[u].now <= now /\ StampOf(m) <= call[u].now + MaxSkew
      BY <1>1 DEF CallHolds
    <2>2. StampOf(m)' = StampOf(m)
      BY <1>4, <2>1
    <2> QED
      BY <1>3, <1>5, <2>1, <2>2
  <1>8. u \in spent \/ (call[u].at = "write" /\ ~ call[u].fresh) => Guarded(m)'
    BY <1>1, <1>2 DEF CallHolds
  <1>9. \A d \in call[u].before : MessageOf[d] # m
    BY <1>1 DEF CallHolds
  <1> QED
    BY <1>6, <1>7, <1>8, <1>9 DEF CallHolds

(* CallStep: a delivery moves on only with what its place promises.  On        *)
(* arrival a message that was entered before is guarded, so that either its   *)
(* timestamp or its nonce refuses it.                                       *)
LEMMA CallStep ==
  GInv /\ [GatewayNext]_gatewayVars => \A u \in Calls : CallHolds(u)'
  <1> SUFFICES ASSUME GInv, [GatewayNext]_gatewayVars, NEW u \in Calls
               PROVE  CallHolds(u)'
    OBVIOUS
  <1> USE CallAssumption DEF GInv, GatewayTypeOK
  <1> DEFINE m == MessageOf[u]
  <1>0. CallHolds(u)
    OBVIOUS
  <1>1. ASSUME NEW k \in Messages, NEW i \in Ids, NEW stamp \in 0..(MaxNow + MaxSkew),
               Sign(k, i, stamp)
        PROVE  CallHolds(u)'
    BY <1>1, Bystander DEF Sign
  <1>2. CASE Tick
    BY <1>2, Bystander DEF Tick
  <1>3. CASE UNCHANGED gatewayVars
    BY <1>3, Bystander DEF gatewayVars
  <1>4. ASSUME NEW c \in Calls, Serve(c), c # u
        PROVE  CallHolds(u)'
    <2>1. call'[u] = call[u] /\ (u \in spent' => u \in spent)
      BY <1>4 DEF Serve, Arrive, SelectNonce, InsertNonce, UpdateNonce, CleanNonces,
                  FindOrder, Resave, InsertOrder, Move, Leave
    <2> QED
      BY <2>1, Bystander
  <1>5. CASE Arrive(u)
    <2>1. now' = now /\ message' = message /\ nonces' = nonces /\ spent' = spent
          /\ m \in DOMAIN message
      BY <1>5 DEF Arrive, Sent
    <2>2. u \in spent => Guarded(m)
      BY <1>0 DEF CallHolds
    <2>3. CASE Move(u, "refused")
      BY <1>0, <2>1, <2>2, <2>3 DEF CallHolds, Move, Guarded, StampOf
    <2>4. CASE ~ Move(u, "refused")
      <3>1. /\ call'[u].at = "select" /\ call'[u].now = now /\ call'[u].before = spent
            /\ InWindow(u) /\ ~ Held(m)
        <4> DEFINE secret == merchants[Asked(u).shop].secret
        <4>1. /\ InWindow(u) /\ ~ Held(m)
              /\ call' = [call EXCEPT ![u].at = "select", ![u].now = now,
                                      ![u].secret = secret, ![u].before = spent]
          BY <1>5, <2>4, Zenon DEF Arrive
        <4> HIDE DEF secret
        <4> QED
          BY <4>1 DEF Call
      <3>2. now <= StampOf(m) + Window
        BY <3>1 DEF InWindow, Asked, StampOf
      <3>3. StampOf(m) <= now + MaxSkew /\ now \in Nat
        BY <2>1, Forward DEF NoncesHold
      <3>4. StampOf(m) \in Nat /\ Window \in Nat
        BY <2>1, Forward, ClockAssumption
      <3>5. ~ Guarded(m)
        <4>1. ~ now > StampOf(m) + Window
          BY <3>2, <3>3, <3>4
        <4>2. ASSUME m \in DOMAIN nonces PROVE FALSE
          <5>1. nonces[m] > StampOf(m) + Window /\ nonces[m] \in Nat
            BY <4>2 DEF NoncesHold
          <5>2. nonces[m] > now
            BY <3>2, <3>3, <3>4, <5>1
          <5> QED
            BY <3>1, <4>2, <5>2 DEF Held
        <4> QED
          BY <4>1, <4>2 DEF Guarded
      <3>6. \A d \in spent : MessageOf[d] # m
        BY <3>5 DEF CallHolds
      <3>7. u \notin spent
        BY <3>6
      <3> QED
        BY <2>1, <3>1, <3>3, <3>6, <3>7 DEF CallHolds, StampOf
    <2> QED
      BY <2>3, <2>4
  <1>6. CASE SelectNonce(u)
    <2>1. /\ now' = now /\ message' = message /\ nonces' = nonces /\ spent' = spent
          /\ call[u].at = "select" /\ call'[u].at = "write"
          /\ call'[u].fresh = (m \notin DOMAIN nonces)
          /\ call'[u].now = call[u].now /\ call'[u].before = call[u].before
      BY <1>6 DEF SelectNonce, Call
    <2> QED
      BY <1>0, <2>1 DEF CallHolds, Guarded, StampOf
  <1>7. CASE InsertNonce(u)
    <2>1. /\ now' = now /\ message' = message /\ call[u].at = "write"
          /\ call'[u].before = call[u].before
      BY <1>7 DEF InsertNonce, Move, Leave, Call
    <2>2. CASE m \in DOMAIN nonces
      <3>1. nonces' = nonces /\ spent' = spent /\ call'[u].at = "refused"
        BY <1>7, <2>2 DEF InsertNonce, Leave, Call
      <3> QED
        BY <1>0, <2>1, <3>1 DEF CallHolds, Guarded, StampOf
    <2>3. CASE m \notin DOMAIN nonces
      <3>1. m \in DOMAIN nonces' /\ call'[u].at = "clean" /\ call'[u].now = call[u].now
        BY <1>7, <2>3 DEF InsertNonce, Move, Store, Call
      <3> QED
        BY <1>0, <2>1, <3>1 DEF CallHolds, Guarded, StampOf
    <2> QED
      BY <2>2, <2>3
  <1>8. CASE UpdateNonce(u)
    <2>1. /\ now' = now /\ message' = message /\ call[u].at = "write" /\ ~ call[u].fresh
          /\ DOMAIN nonces' = DOMAIN nonces
          /\ call'[u].at = "clean" /\ call'[u].now = call[u].now
          /\ call'[u].before = call[u].before
      BY <1>8 DEF UpdateNonce, Move, Store, Call
    <2> QED
      BY <1>0, <2>1 DEF CallHolds, Guarded, StampOf
  <1>9. CASE CleanNonces(u)
    <2>1. /\ call[u].at = "clean" /\ spent' = spent /\ call'[u].at \in {"find", "refused"}
          /\ call'[u].before = call[u].before
      BY <1>9 DEF CleanNonces, Leave, Call
    <2>2. m \in DOMAIN message
      BY <1>0, <2>1 DEF CallHolds
    <2>3. m \in DOMAIN message'
      BY <2>2, Forward
    <2>4. Guarded(m) => Guarded(m)'
      BY <2>2, GuardedStep
    <2> HIDE DEF GInv, GatewayTypeOK
    <2> QED
      BY <1>0, <2>1, <2>3, <2>4 DEF CallHolds
  <1>10. CASE FindOrder(u) \/ Resave(u) \/ InsertOrder(u)
    <2>1. /\ now' = now /\ message' = message /\ nonces' = nonces /\ spent' = spent
          /\ call[u].at # "idle"
          /\ call'[u].at \in {"insert", "refused", "resave", "done"}
          /\ call'[u].before = call[u].before
      BY <1>10 DEF FindOrder, Resave, InsertOrder, Move, Call
    <2> QED
      BY <1>0, <2>1 DEF CallHolds, Guarded, StampOf
  <1> QED
    BY <1>1, <1>2, <1>3, <1>4, <1>5, <1>6, <1>7, <1>8, <1>9, <1>10
       DEF GatewayNext, Serve

(* AnswerStep: an order is answered only when its amount is the one signed,    *)
(* and no step changes the amount of an order that is in the table.          *)
LEMMA AnswerStep == GInv /\ [GatewayNext]_gatewayVars => AnswersHold'
  <1> DEFINE Right(u) == call[u].order # NoOrder =>
                           orders[call[u].order].amount = AmountOf[MessageOf[u]]
             Placed(u) == call[u].at = "resave" => call[u].order # NoOrder
  <1> SUFFICES ASSUME GInv, [GatewayNext]_gatewayVars, NEW u \in Calls
               PROVE  Right(u)' /\ Placed(u)'
    BY DEF AnswersHold, AnswerMatches
  <1> USE CallAssumption DEF GInv, GatewayTypeOK, NoOrder
  <1>1. Right(u) /\ Placed(u) /\ call[u].order \in 0..Len(orders) /\ Len(orders) \in Nat
    BY DEF AnswersHold, AnswerMatches, Call
  <1>2. \A n \in 1..Len(orders) : orders'[n].amount = orders[n].amount
    <2>1. ASSUME NEW c \in Calls, Resave(c)
          PROVE  \A n \in 1..Len(orders) : orders'[n].amount = orders[n].amount
      <3> TAKE n \in 1..Len(orders)
      <3> DEFINE method == MethodOf[MessageOf[c]]
      <3>1. orders' = [orders EXCEPT ![call[c].order] = [orders[call[c].order] EXCEPT
                                                          !.method = method]]
        BY <2>1 DEF Resave
      <3>2. orders[n] \in Order /\ n \in DOMAIN orders
        OBVIOUS
      <3> HIDE DEF method
      <3>3. orders'[n] = orders[n] \/ orders'[n] = [orders[n] EXCEPT !.method = method]
        BY <3>1, <3>2
      <3> QED
        BY <3>2, <3>3 DEF Order
    <2>2. ASSUME NEW c \in Calls, InsertOrder(c)
          PROVE  \A n \in 1..Len(orders) : orders'[n].amount = orders[n].amount
      <3> DEFINE order == [amount |-> AmountOf[MessageOf[c]],
                           method |-> MethodOf[MessageOf[c]], by |-> c]
      <3>1. orders' = Append(orders, order) /\ order \in Order
        BY <2>2 DEF InsertOrder, Order
      <3> HIDE DEF order
      <3> QED
        BY <3>1
    <2>3. ASSUME NEW c \in Calls, Serve(c), ~ Resave(c), ~ InsertOrder(c)
          PROVE  orders' = orders
      BY <2>3 DEF Serve, Arrive, SelectNonce, InsertNonce, UpdateNonce, CleanNonces, FindOrder
    <2>4. CASE UNCHANGED gatewayVars
      BY <2>4 DEF gatewayVars
    <2> QED
      BY <2>1, <2>2, <2>3, <2>4 DEF GatewayNext, Sign, Tick
  <1>3. ASSUME call'[u].order = call[u].order, call'[u].at = call[u].at \/ call'[u].at # "resave"
        PROVE  Right(u)' /\ Placed(u)'
    <2>1. call'[u].order # 0 => call[u].order \in 1..Len(orders)
      BY <1>1, <1>3
    <2>2. Right(u)'
      BY <1>1, <1>2, <1>3, <2>1
    <2>3. Placed(u)'
      BY <1>1, <1>3
    <2> QED
      BY <2>2, <2>3
  <1>4. ASSUME NEW c \in Calls, Serve(c), c # u
        PROVE  Right(u)' /\ Placed(u)'
    <2>1. call'[u] = call[u]
      BY <1>4 DEF Serve, Arrive, SelectNonce, InsertNonce, UpdateNonce, CleanNonces,
                  FindOrder, Resave, InsertOrder, Move, Leave
    <2> QED
      BY <2>1, <1>3
  <1>5. CASE Arrive(u) \/ SelectNonce(u) \/ InsertNonce(u) \/ UpdateNonce(u)
             \/ CleanNonces(u) \/ Resave(u)
    <2>1. call'[u].order = call[u].order /\ call'[u].at # "resave"
      <3>1. CASE Arrive(u)
        <4>1. CASE Move(u, "refused")
          BY <4>1 DEF Move, Call
        <4>2. CASE ~ Move(u, "refused")
          <5> DEFINE secret == merchants[Asked(u).shop].secret
          <5>1. call' = [call EXCEPT ![u].at = "select", ![u].now = now,
                                    ![u].secret = secret, ![u].before = spent]
            BY <3>1, <4>2, Zenon DEF Arrive
          <5> HIDE DEF secret
          <5> QED
            BY <5>1 DEF Call
        <4> QED
          BY <4>1, <4>2
      <3>2. CASE SelectNonce(u) \/ InsertNonce(u) \/ UpdateNonce(u)
                 \/ CleanNonces(u) \/ Resave(u)
        BY <3>2 DEF SelectNonce, InsertNonce, UpdateNonce, CleanNonces, Resave,
                    Move, Leave, Call
      <3> QED
        BY <1>5, <3>1, <3>2
    <2> QED
      BY <2>1, <1>3
  <1>6. CASE FindOrder(u)
    <2>1. CASE Move(u, "insert") \/ Move(u, "refused")
      <3>1. call'[u].order = call[u].order /\ call'[u].at # "resave"
        BY <2>1 DEF Move, Call
      <3> QED
        BY <3>1, <1>3
    <2>2. CASE ~ Move(u, "insert") /\ ~ Move(u, "refused")
      <3>1. /\ Len(orders) # 0 /\ orders' = orders /\ call'[u].order = Len(orders)
            /\ ~ Disagrees(u, orders[Len(orders)])
        BY <1>6, <2>2 DEF FindOrder, Call
      <3> QED
        BY <3>1 DEF Disagrees
    <2> QED
      BY <2>1, <2>2
  <1>7. CASE InsertOrder(u)
    <2> DEFINE order == [amount |-> AmountOf[MessageOf[u]],
                         method |-> MethodOf[MessageOf[u]], by |-> u]
    <2>1. orders' = Append(orders, order) /\ order \in Order
      BY <1>7 DEF InsertOrder, Order
    <2>2. call'[u].at = "done" /\ call'[u].order = Len(orders')
      BY <1>7 DEF InsertOrder, Call
    <2>3. order.amount = AmountOf[MessageOf[u]]
      OBVIOUS
    <2> HIDE DEF order
    <2>4. orders'[Len(orders')] = order
      BY <2>1
    <2> QED
      BY <2>2, <2>3, <2>4
  <1>8. CASE UNCHANGED call
    BY <1>3, <1>8
  <1> HIDE DEF Right, Placed
  <1> QED
    BY <1>4, <1>5, <1>6, <1>7, <1>8 DEF GatewayNext, Serve, Sign, Tick, gatewayVars

(* KnownGrows: no request takes a merchant from the table.                    *)
LEMMA KnownGrows == MInv /\ [MerchantsNext]_merchantVars => Known \subseteq Known'
  <1> SUFFICES ASSUME MInv, [MerchantsNext]_merchantVars PROVE Known \subseteq Known'
    OBVIOUS
  <1> USE DEF Known
  <1>1. ASSUME NEW t \in Clerks, Clerk(t)
        PROVE  Known \subseteq Known'
    BY <1>1 DEF Clerk, LoadMerchant, SelectMerchant, WriteMerchant, FindNoMerchant,
                InsertMerchant, Store
  <1>2. CASE UNCHANGED merchantVars
    BY <1>2 DEF merchantVars
  <1> QED
    BY <1>1, <1>2 DEF MerchantsNext

(* GatewayStep: every step of the deliveries, or of the merchants beside       *)
(* them, keeps both invariants.                                             *)
LEMMA GatewayStep ==
  MInv /\ GInv /\ [ShopNext]_<<merchantVars, gatewayVars>> => MInv' /\ GInv'
  <1> SUFFICES ASSUME MInv, GInv, [ShopNext]_<<merchantVars, gatewayVars>>
               PROVE  MInv' /\ GInv'
    OBVIOUS
  <1>1. [MerchantsNext]_merchantVars /\ [GatewayNext]_gatewayVars
    BY DEF ShopNext
  <1>2. MInv' /\ Known \subseteq Known'
    BY <1>1, MerchantsStep, KnownGrows
  <1>3. GatewayTypeOK'
    BY <1>1, GatewayTypeStep DEF MInv
  <1>4. NoncesHold' /\ AnswersHold' /\ \A u \in Calls : CallHolds(u)'
    BY <1>1, <1>2, NoncesStep, AnswerStep, CallStep
  <1> QED
    BY <1>2, <1>3, <1>4 DEF GInv

(* ShopAlways: both invariants hold in every state.                           *)
LEMMA ShopAlways == ShopSpec => [](MInv /\ GInv)
  <1>1. ShopInit => MInv /\ GInv
    BY MerchantsInitInv, GatewayInitInv DEF ShopInit
  <1> QED
    BY <1>1, GatewayStep, PTL DEF ShopSpec

(* NoRedelivery: a message delivered again after its nonce was entered is      *)
(* refused, however many deliveries overlap and delete each other's expired   *)
(* nonces, whatever the administrators do to the merchant meanwhile.         *)
THEOREM NoRedelivery == ShopSpec => []RedeliveryRefused
  <1>1. GInv => RedeliveryRefused
    BY DEF GInv, GatewayTypeOK, CallHolds, RedeliveryRefused
  <1> QED
    BY <1>1, ShopAlways, PTL

(* RightAnswers: every delivery that is answered is answered with an order of  *)
(* the amount its message signed.                                           *)
THEOREM RightAnswers == ShopSpec => []AnswerMatches
  <1>1. GInv => AnswerMatches
    BY DEF GInv, AnswersHold
  <1> QED
    BY <1>1, ShopAlways, PTL

(* ShopTypes: tables, deliveries and requests keep their types.               *)
THEOREM ShopTypes == ShopSpec => [](MerchantsTypeOK /\ GatewayTypeOK)
  <1>1. MInv /\ GInv => MerchantsTypeOK /\ GatewayTypeOK
    BY DEF GInv, MInv
  <1> QED
    BY <1>1, ShopAlways, PTL
=============================================================================
