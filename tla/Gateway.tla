------------------------------ MODULE Gateway -------------------------------
(***************************************************************************)
(* A merchant's signed order request: MerchantSignatureGuard with its nonce *)
(* store, then createOrder's lookup and insertion under externalOrderNo.    *)
(* The network may deliver a message several times, and a merchant may send *)
(* a second message for the same externalOrderNo.  Deliveries interleave at *)
(* their awaits, with each other and with the administrators' edits of the  *)
(* merchant.  What a channel does with the order is in module Checkout.     *)
(***************************************************************************)
EXTENDS Merchants, Sequences

CONSTANTS
  Calls,       \* deliveries, each a process that runs once
  Messages,    \* the messages signed
  MessageOf,   \* [Calls -> Messages]
  AmountOf,    \* [Messages -> the amount it asks for]
  MethodOf,    \* [Messages -> its payMethod]
  Window,      \* how far the timestamp may be from the server's clock
  Ttl,         \* how long a nonce is kept
  MaxSkew,     \* how far the merchant's clock may be ahead of the server's
  MaxNow       \* bound on the clock

ASSUME CallAssumption ==
  MessageOf \in [Calls -> Messages] /\ AmountOf \in [Messages -> Nat]

(* NONCE_TTL_MS is the window and a minute: enough for merchants whose clock *)
(* is less than a minute ahead.                                             *)
ASSUME ClockAssumption ==
  /\ {Window, Ttl, MaxSkew, MaxNow} \subseteq Nat
  /\ Window + MaxSkew < Ttl

VARIABLES
  now,       \* the server's clock
  message,   \* the messages sent: stamp, merchant and the secret that signed it
  nonces,    \* the table nonce_records: when each message's nonce expires
  call,      \* where each delivery stands
  orders,    \* the orders under the externalOrderNo, oldest first
  spent      \* the deliveries that have entered their nonce

gatewayVars == <<now, message, nonces, call, orders, spent>>

NoOrder == 0
CallStates == {"idle", "select", "write", "clean", "find", "insert",
               "resave", "done", "refused"}

Order == [amount: Nat, method: {MethodOf[m] : m \in Messages}, by: Calls]

(* What a delivery has read: the secret, the clock, whether its nonce was     *)
(* absent, and the place of the order it answers with.                      *)
Call == [at: CallStates, secret: 0..MaxSecrets, now: 0..MaxNow, fresh: BOOLEAN,
         order: 0..Len(orders), before: SUBSET spent]

GatewayTypeOK ==
  /\ now \in 0..MaxNow
  /\ DOMAIN message \subseteq Messages
  /\ message \in [DOMAIN message -> [stamp: Nat, shop: Ids, secret: 0..MaxSecrets]]
  /\ DOMAIN nonces \subseteq Messages /\ nonces \in [DOMAIN nonces -> Nat]
  /\ orders \in Seq(Order)
  /\ spent \subseteq Calls
  /\ call \in [Calls -> Call]

GatewayInit ==
  /\ now = 0
  /\ message = <<>> /\ nonces = <<>> /\ orders = <<>> /\ spent = {}
  /\ call = [c \in Calls |->
       [at |-> "idle", secret |-> 0, now |-> 0, fresh |-> FALSE,
        order |-> NoOrder, before |-> {}]]

Sent(c) == MessageOf[c] \in DOMAIN message
Asked(c) == message[MessageOf[c]]
Move(c, state) == call' = [call EXCEPT ![c].at = state]

(* As Move, when what the guard has read is not used any more.               *)
Leave(c, state) ==
  call' = [call EXCEPT ![c].at = state, ![c].secret = 0, ![c].now = 0, ![c].fresh = FALSE]

(* The merchant signs with the secret it was told, by its own clock.         *)
Sign(m, i, stamp) ==
  /\ m \notin DOMAIN message /\ i \in Known
  /\ stamp \in {now, now + MaxSkew}
  /\ message' = Store(message, m, [stamp |-> stamp, shop |-> i, secret |-> told[i]])
  /\ UNCHANGED <<now, nonces, call, orders, spent>>

Tick ==
  /\ now < MaxNow
  /\ now' = now + 1
  /\ UNCHANGED <<message, nonces, call, orders, spent>>
-----------------------------------------------------------------------------
InWindow(c) == now <= Asked(c).stamp + Window /\ Asked(c).stamp <= now + Window

Held(m) == m \in DOMAIN nonces /\ nonces[m] > now

(* canActivate's queries for the active merchant and, in the turn of the      *)
(* timestamp's check, for the nonce: they are taken to be answered within     *)
(* the minute by which Ttl exceeds Window.                                  *)
Arrive(c) ==
  LET row == merchants[Asked(c).shop] IN
  /\ call[c].at = "idle" /\ Sent(c)
  /\ IF row.active /\ InWindow(c) /\ ~ Held(MessageOf[c])
       THEN call' = [call EXCEPT ![c].at = "select", ![c].now = now,
                                 ![c].secret = row.secret, ![c].before = spent]
       ELSE Move(c, "refused")
  /\ UNCHANGED <<now, message, nonces, orders, spent>>

(* save, its first query: is there a row under this key?                     *)
SelectNonce(c) ==
  /\ call[c].at = "select"
  /\ call' = [call EXCEPT ![c].at = "write", ![c].fresh = MessageOf[c] \notin DOMAIN nonces]
  /\ UNCHANGED <<now, message, nonces, orders, spent>>

(* save, INSERT of a row it did not find: the primary key refuses a second    *)
(* one, and tryConsume takes that for a repetition.                         *)
InsertNonce(c) ==
  LET m == MessageOf[c] IN
  /\ call[c].at = "write" /\ call[c].fresh
  /\ IF m \in DOMAIN nonces
       THEN Leave(c, "refused") /\ UNCHANGED <<nonces, spent>>
       ELSE /\ nonces' = Store(nonces, m, call[c].now + Ttl)
            /\ spent' = spent \union {c}
            /\ Move(c, "clean")
  /\ UNCHANGED <<now, message, orders>>

(* save, UPDATE of a row it found; one deleted meanwhile is not missed.       *)
UpdateNonce(c) ==
  LET m == MessageOf[c] IN
  /\ call[c].at = "write" /\ ~ call[c].fresh
  /\ nonces' = IF m \in DOMAIN nonces THEN Store(nonces, m, call[c].now + Ttl) ELSE nonces
  /\ spent' = spent \union {c}
  /\ Move(c, "clean")
  /\ UNCHANGED <<now, message, orders>>

(* Mutant: the records of older calls are deleted.                           *)
ExpiredEarly(c) == {m \in DOMAIN nonces : nonces[m] < call[c].now + Ttl}

(* The expired records are deleted, whoever's they are; then the signature is *)
(* verified with the secret loaded on arrival.                              *)
Expired(c) == {m \in DOMAIN nonces : nonces[m] < call[c].now}

CleanNonces(c) ==
  /\ call[c].at = "clean"
  /\ nonces' = [m \in DOMAIN nonces \ Expired(c) |-> nonces[m]]
  /\ Leave(c, IF call[c].secret = Asked(c).secret THEN "find" ELSE "refused")
  /\ UNCHANGED <<now, message, orders, spent>>
-----------------------------------------------------------------------------
DisagreesNever(c, order) == FALSE   \* mutant: the amounts are not compared
Disagrees(c, order) == order.amount # AmountOf[MessageOf[c]]

(* createOrder looks for the newest order under the merchant's number.  One   *)
(* of another amount is refused; a live Pending one of another method is     *)
(* saved with the new method; any other is the answer.                      *)
FindOrder(c) ==
  LET m == MessageOf[c]  n == Len(orders) IN
  /\ call[c].at = "find"
  /\ IF n = 0 THEN Move(c, "insert")
     ELSE IF Disagrees(c, orders[n]) THEN Move(c, "refused")
     ELSE \E live \in BOOLEAN :
            call' = [call EXCEPT ![c].order = n,
              ![c].at = IF live /\ orders[n].method # MethodOf[m] THEN "resave" ELSE "done"]
  /\ UNCHANGED <<now, message, nonces, orders, spent>>

Resave(c) ==
  /\ call[c].at = "resave"
  /\ orders' = [orders EXCEPT ![call[c].order].method = MethodOf[MessageOf[c]]]
  /\ Move(c, "done")
  /\ UNCHANGED <<now, message, nonces, spent>>

(* A new id and number each time: nothing in the table refuses a second order *)
(* under the same externalOrderNo.                                          *)
InsertOrder(c) ==
  LET m == MessageOf[c] IN
  /\ call[c].at = "insert"
  /\ orders' = Append(orders, [amount |-> AmountOf[m], method |-> MethodOf[m], by |-> c])
  /\ call' = [call EXCEPT ![c].at = "done", ![c].order = Len(orders')]
  /\ UNCHANGED <<now, message, nonces, spent>>

Serve(c) ==
  \/ Arrive(c)
  \/ SelectNonce(c)
  \/ InsertNonce(c)
  \/ UpdateNonce(c)
  \/ CleanNonces(c)
  \/ FindOrder(c)
  \/ Resave(c)
  \/ InsertOrder(c)

GatewayNext ==
  \/ \E m \in Messages, i \in Ids, stamp \in 0..(MaxNow + MaxSkew) : Sign(m, i, stamp)
  \/ Tick
  \/ \E c \in Calls : Serve(c)

ShopNext ==
  \/ GatewayNext /\ UNCHANGED merchantVars
  \/ MerchantsNext /\ UNCHANGED gatewayVars

ShopInit == MerchantsInit /\ GatewayInit
ShopSpec == ShopInit /\ [][ShopNext]_<<merchantVars, gatewayVars>>
-----------------------------------------------------------------------------
(* A message delivered again after its nonce was entered is refused, at any   *)
(* later time: as long as its timestamp passes, no deletion of expired       *)
(* records, by whichever request, takes its nonce away.                     *)
RedeliveryRefused ==
  \A c \in spent : \A d \in call[c].before : MessageOf[d] # MessageOf[c]

(* A delivery is answered with an order of the amount it signed, whatever     *)
(* other deliveries inserted under the same number meanwhile.               *)
AnswerMatches ==
  \A c \in Calls : call[c].order # NoOrder =>
    orders[call[c].order].amount = AmountOf[MessageOf[c]]

(* server/README.md:101: order creation is idempotent on                     *)
(* (merchantId, externalOrderNo).                                           *)
OneOrderPerKey == Len(orders) <= 1
=============================================================================
