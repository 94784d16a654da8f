------------------------------ MODULE MCClient ------------------------------
(***************************************************************************)
(* The web client: the pages a customer pays on, and the administrator's     *)
(* session in two tabs.  They share no state, so a behaviour exercises one    *)
(* cast of one of them: a page with a form, or the tabs.                     *)
(***************************************************************************)
EXTENDS CashierPages, Session, TLC

CONSTANTS desktop, phone, wallet, scanner, touch,   \* pages and native forms
          t1, t2                                      \* tabs

ASSUME CastAssumption ==
  {desktop, phone} \subseteq Pages /\ {wallet, scanner, touch} \subseteq Forms
    /\ {t1, t2} \subseteq Tabs

VARIABLE cast

MCPageOf == (wallet :> desktop @@ scanner :> desktop @@ touch :> phone)

Nobody == [pages |-> {}, forms |-> {}, tabs |-> {}]

Casts ==
  {[Nobody EXCEPT !.pages = {desktop}, !.forms = {wallet}],
   [Nobody EXCEPT !.pages = {desktop}, !.forms = {scanner}],
   [Nobody EXCEPT !.pages = {phone}, !.forms = {touch}],
   [Nobody EXCEPT !.tabs = {t1, t2}]}

vars == <<cashierVars, sessionVars, cast>>

Init == CashierInit /\ SessionInit /\ cast \in Casts

Paying(A) == cast.pages # {} /\ A /\ UNCHANGED <<sessionVars, cast>>
Signing(A) == cast.tabs # {} /\ A /\ UNCHANGED <<cashierVars, cast>>

Next ==
  \/ Paying(OrderMoves)
  \/ \E p \in cast.pages : Paying(Page(p))
  \/ \E k \in cast.forms : Paying(Form(k))
  \/ \E x \in cast.tabs : Signing(Tab(x))
  \/ \E k \in Tokens : Signing(Expire(k))

(* An order's time passes; a page's timer fires and its requests are answered, *)
(* and of infinitely many some are answered and received.                    *)
Fairness ==
  /\ WF_vars(Paying(Late))
  /\ WF_vars(\E p \in cast.pages : Paying(Poll(p)))
  /\ SF_vars(\E p \in cast.pages : Paying(Answer(p)))
  /\ WF_vars(\E p \in cast.pages : Paying(Receive(p, "pending")))
  /\ SF_vars(\E p \in cast.pages, answer \in Decided : Paying(Receive(p, answer)))

Spec == Init /\ [][Next]_vars /\ Fairness

(* The values of every variable of both parts are of their types.            *)
ClientTypeOK == CashierTypeOK /\ SessionTypeOK
=============================================================================
