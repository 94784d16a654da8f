------------------------------ MODULE MCServer ------------------------------
(***************************************************************************)
(* The server beside the payments: merchants with their signed requests,     *)
(* settings with the exchange rate, the back office, and a paid order with    *)
(* its refunds; and the administration pages.  The five share no state, so a  *)
(* behaviour exercises one cast of processes of one of them; the casts are    *)
(* the small groups whose steps can disturb each other.                      *)
(***************************************************************************)
EXTENDS Gateway, Rates, BackOffice, Console, OrderLife, TLC

CONSTANTS a, b, c,                                    \* administrators' edits
          first, again, other, wrong, switch,          \* deliveries
          early, late, dear, swapped,                          \* the messages delivered
          s1, s2, w1, w2, q1, q2,                      \* instances, writes, quotes
          o1, o2, t1, t2, t3,                          \* orders, their trades, a stray
          bill1, bill2, erase, reset, stats,           \* back office requests
          f1, f2, submit1, submit2, press,             \* filters and deeds
          ann, bob, k1, k2, k3, g1, g2,               \* editors, settings, groups
          half, whole, requoting                       \* refunds, a switch-channel

VARIABLE cast

MCMessageOf == (first :> early @@ again :> early @@ other :> late @@ wrong :> dear
                  @@ switch :> swapped)
MCAmountOf == (early :> 1 @@ late :> 1 @@ dear :> 2 @@ swapped :> 1)
MCMethodOf == (early :> "native" @@ late :> "native" @@ dear :> "native" @@ swapped :> "alipay")

MCDefault == [k \in Keys |-> 1]

MCTradeOf == (o1 :> t1 @@ o2 :> t2)
Line(o, t, amount) == [number |-> o, trade |-> t, amount |-> amount]
MCBills == {<<Line(o1, t1, 10), Line(o2, t3, 11)>>, <<Line(o1, t3, 12)>>,
            <<Line(o2, t3, 10), Line(o2, t1, 10)>>}
MCKindOf == (bill1 :> "upload" @@ bill2 :> "upload" @@ erase :> "delete"
               @@ reset :> "reset" @@ stats :> "stats")

MCGroupOf == (k1 :> g1 @@ k2 :> g1 @@ k3 :> g2)

Nobody == [clerks |-> {}, calls |-> {}, servers |-> {}, writes |-> {}, quotes |-> {},
           desks |-> {}, numbers |-> {}, handled |-> {},
           filters |-> {}, turns |-> {}, deeds |-> {}, hands |-> {},
           refunds |-> {}, requotes |-> {}]

Casts ==
  {[Nobody EXCEPT !.clerks = {a, b, c}],
   [Nobody EXCEPT !.clerks = {a}, !.calls = {first, again, other}],
   [Nobody EXCEPT !.clerks = {a}, !.calls = {first, wrong}],
   [Nobody EXCEPT !.clerks = {a}, !.calls = {first, switch}],
   [Nobody EXCEPT !.clerks = {a, b}, !.calls = {first}],
   [Nobody EXCEPT !.servers = {s1, s2}, !.writes = {w1}],
   [Nobody EXCEPT !.servers = {s1}, !.writes = {w1, w2}],
   [Nobody EXCEPT !.servers = {s1}, !.writes = {w1}, !.quotes = {q1, q2}],
   [Nobody EXCEPT !.desks = {bill1, bill2}, !.numbers = {o1, o2}],
   [Nobody EXCEPT !.desks = {bill1, erase}, !.numbers = {o1}, !.handled = {o1}],
   [Nobody EXCEPT !.desks = {erase, reset}, !.numbers = {o1, o2}, !.handled = {o1}],
   [Nobody EXCEPT !.desks = {erase, stats}, !.numbers = {o1, o2}],
   [Nobody EXCEPT !.desks = {stats}, !.numbers = {o1, o2}, !.handled = {o1}],
   [Nobody EXCEPT !.filters = {f1, f2}, !.turns = {1, 2}],
   [Nobody EXCEPT !.filters = {f1}, !.turns = {1}, !.deeds = {submit1, submit2}],
   [Nobody EXCEPT !.filters = {f1, f2}, !.turns = {1}, !.deeds = {press}],
   [Nobody EXCEPT !.hands = {<<ann, k1>>, <<bob, k2>>}],
   [Nobody EXCEPT !.hands = {<<ann, k1>>, <<ann, k3>>}],
   [Nobody EXCEPT !.refunds = {half, whole}, !.requotes = {requoting}]}

(* A cast is of processes that the parts have.                               *)
ASSUME CastAssumption ==
  \A x \in Casts :
    /\ x.clerks \subseteq Clerks /\ x.calls \subseteq Calls
    /\ x.servers \subseteq Servers /\ x.writes \subseteq Writes /\ x.quotes \subseteq Quotes
    /\ x.desks \subseteq Desks /\ x.numbers \union x.handled \subseteq Numbers
    /\ x.filters \subseteq Filters /\ x.turns \subseteq 1..Turns /\ x.deeds \subseteq Deeds
    /\ x.hands \subseteq Editors \X Fields
    /\ x.refunds \subseteq Tasks /\ x.requotes \subseteq Requotes

Init ==
  /\ ShopInit /\ RatesInit /\ OfficeInit /\ ConsoleInit
  /\ screen.view.filter = f1 /\ settings = [k \in Fields |-> 1]
  /\ LifeInit /\ cast \in Casts
  /\ cast.refunds = {} => order.payMethod = "alipay" /\ order.quote = 0 /\ paid.cents = Amount

Shop ==
  \/ /\ cast.calls # {} /\ UNCHANGED merchantVars
     /\ \/ \E d \in cast.calls, i \in Ids, stamp \in 0..(MaxNow + MaxSkew) :
             Sign(MessageOf[d], i, stamp)
        \/ Tick
        \/ \E d \in cast.calls : Serve(d)
  \/ /\ \E t \in cast.clerks : Clerk(t)
     /\ UNCHANGED gatewayVars

Rating ==
  \/ \E s \in cast.servers : Instance(s)
  \/ \E w \in cast.writes, s \in cast.servers : Update(w, s)
  \/ \E q \in cast.quotes, s \in cast.servers : Ask(q, s)
  \/ cast.quotes # {} /\ Pass

Back ==
  \/ \E o \in cast.numbers : Trade(o)
  \/ \E o \in cast.handled : Handle(o)
  \/ \E t \in cast.desks : Office(t)

Pages ==
  \/ \E f \in cast.filters, p \in cast.turns : Look(f, p)
  \/ cast.filters # {} /\ List
  \/ cast.filters # {} /\ cast.deeds \subseteq Modal /\ Again
  \/ cast.deeds # {} /\ cast.deeds \subseteq Modal /\ (OpenDialog \/ CloseDialog \/ Elsewhere)
  \/ \E d \in cast.deeds : Deed(d)

Life ==
  \/ \E t \in cast.refunds : Refund(t) \/ PendingCompletes(t)
  \/ \E h \in cast.requotes : Requote(h)

Others ==
  \/ Shop /\ UNCHANGED <<ratesVars, officeVars, screenVars, sheetVars>>
  \/ Rating /\ UNCHANGED <<merchantVars, gatewayVars, officeVars, screenVars, sheetVars>>
  \/ Back /\ UNCHANGED <<merchantVars, gatewayVars, ratesVars, screenVars, sheetVars>>
  \/ /\ Pages
     /\ UNCHANGED <<merchantVars, gatewayVars, ratesVars, officeVars, sheetVars>>
  \/ /\ \E hand \in cast.hands : Settings(hand[1]) \/ Edit(hand[1], hand[2])
     /\ UNCHANGED <<merchantVars, gatewayVars, ratesVars, officeVars, screenVars>>

Next ==
  /\ UNCHANGED cast
  /\ \/ Others /\ UNCHANGED lifeVars
     \/ /\ Life
        /\ UNCHANGED <<merchantVars, gatewayVars, ratesVars, officeVars, screenVars, sheetVars>>

vars == <<merchantVars, gatewayVars, ratesVars, officeVars, screenVars, sheetVars, lifeVars, cast>>
Spec == Init /\ [][Next]_vars

(* The values of every variable of the parts that the cast moves are of their  *)
(* types; the others keep their initial values.                             *)
ServerTypeOK ==
  /\ cast.clerks # {} => MerchantsTypeOK /\ GatewayTypeOK
  /\ cast.servers # {} => RatesTypeOK
  /\ cast.desks # {} => OfficeTypeOK
  /\ cast.filters # {} \/ cast.hands # {} => ConsoleTypeOK
  /\ cast.refunds # {} => LifeTypeOK
=============================================================================
