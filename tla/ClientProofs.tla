----------------------------- MODULE ClientProofs ----------------------------
(* Theorems about the web client: about Session for every set of tabs and     *)
(* number of logins, about CashierPages for every set of pages and forms and  *)
(* every number of requests under way, and about both as MCClient joins them. *)
EXTENDS MCClient, TLAPS

-----------------------------------------------------------------------------
(* Session.                                                                 *)

TabFields == {"path", "loggedIn", "loading", "check", "submitting", "denied", "leaving",
              "renewed"}

(* A logout whose cookie was cleared, with no login since, finds none left.   *)
SessionInv ==
  /\ token \in Tokens /\ cookie \in Tokens /\ issued \in Tokens /\ expired \subseteq Tokens
  /\ DOMAIN tab = Tabs
  /\ \A x \in Tabs :
       /\ DOMAIN tab[x] = TabFields
       /\ tab[x].path \in {"closed", "login", "admin"}
       /\ tab[x].check \in {"none", "asked", "found", "refused"}
       /\ tab[x].leaving \in {"none", "sent", "cleared", "lost"}
  /\ \A x \in Tabs : tab[x].loading => tab[x].check # "none"
  /\ \A x \in Tabs :
       tab[x].leaving = "cleared" /\ ~ tab[x].renewed => cookie = None
  /\ NothingLeft

(* SessionInitInv: the invariant holds before the first tab is opened.        *)
LEMMA SessionInitInv == SessionInit => SessionInv
  BY LoginAssumption
     DEF SessionInit, SessionInv, NothingLeft, TabFields, Tokens, None

(* SessionStep: every step keeps the invariant.                              *)
LEMMA SessionStep == SessionInv /\ [SessionNext]_sessionVars => SessionInv'
  <1> DEFINE Goal == SessionInv'
  <1> SUFFICES ASSUME SessionInv, [SessionNext]_sessionVars PROVE Goal
    OBVIOUS
  <1> USE LoginAssumption DEF SessionInv, NothingLeft, TabFields, Tokens, None, Update
  <1>1. ASSUME NEW x \in Tabs, Tab(x)
        PROVE  Goal
    <2>1. ASSUME NEW path \in {"login", "admin"}, Mount(x, path)
          PROVE  Goal
      <3>1. /\ tab' = [tab EXCEPT ![x] = tab'[x]]
            /\ DOMAIN tab'[x] = TabFields
            /\ tab'[x].path = path /\ tab'[x].leaving = "none"
            /\ tab'[x].check = IF token = None THEN "asked" ELSE "none"
        BY <2>1 DEF Mount
      <3>2. tab'[x].loading => token = None
        BY <2>1 DEF Mount
      <3>3. UNCHANGED <<token, cookie, issued, expired, signedOut>>
        BY <2>1 DEF Mount
      <3> QED
        BY <3>1, <3>2, <3>3
    <2>2. CASE SessionAsked(x)
      BY <2>2 DEF SessionAsked
    <2>3. CASE SessionChecked(x)
      BY <2>3 DEF SessionChecked, Checked
    <2>4. CASE RequireAuth(x)
      BY <2>4 DEF RequireAuth
    <2>5. CASE HandleSubmit(x)
      BY <2>5 DEF HandleSubmit
    <2>6. CASE LoggedIn(x)
      BY <2>6 DEF LoggedIn
    <2>7. CASE LoginRefused(x)
      BY <2>7 DEF LoginRefused
    <2>8. CASE RequestDenied(x)
      BY <2>8 DEF RequestDenied
    <2>9. CASE Logout(x)
      BY <2>9 DEF Logout
    <2>10. CASE LogoutAnswered(x)
      BY <2>10 DEF LogoutAnswered
    <2>11. CASE LogoutEnds(x)
      <3>1. signedOut' => signedOut \/ (tab[x].leaving = "cleared" /\ ~ tab[x].renewed)
        BY <2>11, Zenon DEF LogoutEnds
      <3>2. /\ token' = None /\ UNCHANGED <<cookie, issued, expired>>
            /\ Update(x, [tab[x] EXCEPT !.leaving = "none", !.loggedIn = FALSE])
        BY <2>11 DEF LogoutEnds, Removed
      <3> QED
        BY <3>1, <3>2
    <2> HIDE DEF Goal
    <2> QED
      BY <1>1, <2>1, <2>2, <2>3, <2>4, <2>5, <2>6, <2>7, <2>8, <2>9, <2>10, <2>11
         DEF Tab
  <1>2. ASSUME NEW k \in Tokens, Expire(k)
        PROVE  Goal
    BY <1>2 DEF Expire
  <1>3. CASE UNCHANGED sessionVars
    BY <1>3 DEF sessionVars
  <1> HIDE DEF Goal
  <1> QED
    BY <1>1, <1>2, <1>3 DEF SessionNext

(* SessionHolds: the invariant of the session holds in every state.          *)
LEMMA SessionHolds == SessionSpec => []SessionInv
  BY SessionInitInv, SessionStep, PTL DEF SessionSpec

SignedOK == signedOut \in BOOLEAN

(* SignedStep: signedOut stays a Boolean.                                     *)
LEMMA SignedStep == SignedOK /\ [SessionNext]_sessionVars => SignedOK'
  BY DEF SignedOK, SessionNext, sessionVars, Tab, Mount, SessionAsked, SessionChecked, RequireAuth,
         HandleSubmit, LoggedIn, LoginRefused, RequestDenied, Logout, LogoutAnswered,
         LogoutEnds, Expire

(* SessionTypes: the variables of Session keep their types, and a tab that     *)
(* shows that it is loading has asked for the session (AuthContext's effect). *)
THEOREM SessionTypes == SessionSpec => []SessionTypeOK
  <1>1. SessionInit => SignedOK
    BY DEF SignedOK, SessionInit
  <1>2. SessionInv /\ SignedOK => SessionTypeOK
    BY Zenon DEF SignedOK, SessionInv, SessionTypeOK
  <1> QED
    BY <1>1, <1>2, SignedStep, SessionHolds, PTL DEF SessionSpec

(* NothingRemains: after a logout that the server carried out, with no login   *)
(* since, neither the token nor the cookie is left (AuthContext's logout).    *)
THEOREM NothingRemains == SessionSpec => []NothingLeft
  <1>1. SessionInv => NothingLeft
    BY DEF SessionInv
  <1> QED
    BY <1>1, SessionHolds, PTL
-----------------------------------------------------------------------------
(* CashierPages.                                                             *)

Statuses == {"Pending", "Paid", "Failed", "Expired", "Refunding", "Refunded"}

(* What the marks of an order say of its status.                             *)
OrderOK ==
  /\ DOMAIN order = {"status", "late", "booked", "refunded"}
  /\ order.status \in Statuses
  /\ order.status \in {"Paid", "Refunding", "Refunded"} => order.booked
  /\ order.status \in {"Refunding", "Refunded"} => order.refunded
  /\ order.booked /\ ~ order.refunded => order.status = "Paid"
  /\ order.status = "Expired" => order.late

(* The order is decided, or its time is over.                                *)
Over == order.booked \/ order.late \/ order.status = "Failed"

(* What an answer tells stays true.                                          *)
Supported(answer) ==
  /\ answer = "paid" => order.booked
  /\ answer = "expired" => order.late
  /\ answer = "failed" => order.status = "Failed"

PageFields == {"at", "info", "error", "polling", "ticking", "success", "astray"}

PageShape(p) ==
  /\ DOMAIN page[p] = PageFields
  /\ page[p].info \in Answers \union {"none"}
  /\ page[p].at \in {"new", "open", "closed"}
  /\ flight[p] \in [Stages -> Nat]
  /\ Flying(p) <= MaxFlight
  /\ page[p].at = "new" => Flying(p) = 0 /\ page[p].info = "none"
  /\ pushes[p] \subseteq {"paid", "failed", "refunded"}
  /\ page[p].polling => page[p].at = "open" /\ page[p].info \notin Decided
  /\ page[p].ticking \/ p \in joined \/ pushes[p] # {} => page[p].at = "open"

(* What is shown and on its way is true; a page stopped for a reason; the      *)
(* decision is shown, or asked for, or on its way.                          *)
PageTruth(p) ==
  /\ \A answer \in Decided :
       flight[p][answer] > 0 \/ page[p].info = answer => Supported(answer)
  /\ pushes[p] # {} => Over
  /\ Open(p) /\ ~ page[p].polling => Over
  /\ Open(p) /\ ~ page[p].polling /\ ~ page[p].astray /\ ~ order.refunded =>
       \/ page[p].info \in Decided \/ page[p].success
       \/ flight[p]["sent"] + flight[p]["paid"] + flight[p]["expired"]
            + flight[p]["failed"] > 0

FormTruth(k) == form[k] \in FormStates /\ (form[k] = "confirmed" => Over)

CashierInv ==
  /\ OrderOK
  /\ DOMAIN page = Pages /\ DOMAIN flight = Pages /\ DOMAIN pushes = Pages
  /\ DOMAIN form = Forms
  /\ \A p \in Pages : PageShape(p) /\ PageTruth(p)
  /\ \A k \in Forms : FormTruth(k)

(* CashierInitInv: the invariant holds before a page is opened.               *)
LEMMA CashierInitInv == CashierInit => CashierInv
  <1> SUFFICES ASSUME CashierInit PROVE CashierInv
    OBVIOUS
  <1>1. OrderOK
    BY DEF CashierInit, OrderOK, Statuses
  <1>2. ASSUME NEW p \in Pages PROVE PageShape(p) /\ PageTruth(p)
    BY FlightAssumption
       DEF CashierInit, PageShape, PageTruth, PageFields, Flying, Open, Answers, Decided, Stages
  <1>3. ASSUME NEW k \in Forms PROVE FormTruth(k)
    BY DEF CashierInit, FormTruth, FormStates
  <1> QED
    BY <1>1, <1>2, <1>3 DEF CashierInv, CashierInit

(* What a step does to the order is never taken back.                         *)
Onward ==
  /\ order.booked => order'.booked
  /\ order.late => order'.late
  /\ order.refunded => order'.refunded
  /\ order.status = "Failed" => order'.status = "Failed"

(* OrderStep: every step keeps the order's marks and goes onward.             *)
LEMMA OrderStep ==
  CashierInv /\ [CashierNext]_cashierVars => OrderOK' /\ Onward
  <1> DEFINE Goal == OrderOK' /\ Onward
  <1> SUFFICES ASSUME OrderOK, [CashierNext]_cashierVars PROVE Goal
    BY DEF CashierInv
  <1> USE DEF OrderOK, Onward, Statuses
  <1>1. CASE UNCHANGED order
    BY <1>1
  <1>2. CASE order.status = "Pending" /\ order' = Booked
    BY <1>2 DEF Booked
  <1>3. CASE MarkFailed
    BY <1>3 DEF MarkFailed
  <1>4. CASE Refund
    BY <1>4 DEF Refund
  <1>5. CASE Late
    BY <1>5 DEF Late
  <1>6. CASE CleanUp
    BY <1>6 DEF CleanUp
  <1> HIDE DEF Goal, OrderOK, Onward
  <1>7. UNCHANGED order \/ (order.status = "Pending" /\ order' = Booked)
          \/ MarkFailed \/ Refund \/ Late \/ CleanUp
    BY DEF CashierNext, OrderMoves, MarkPaid, Page, Form, Answer, AnswerAfterQuery,
           OpenPage, ClosePage, Subscribe, Disconnect, Poll, Receive, FetchFails,
           PushArrives, CountdownEnds, Confirm, ConfirmCheck, ConfirmBook,
           ConfirmAnswered, ScannerTimer, ConfirmLost, cashierVars
  <1> QED
    BY <1>1, <1>2, <1>3, <1>4, <1>5, <1>6, <1>7

(* PageFrame: a page that a step leaves alone, but for a true push.           *)
LEMMA PageFrame ==
  ASSUME NEW q \in Pages, PageShape(q), PageTruth(q), Onward,
         page'[q] = page[q], flight'[q] = flight[q], q \in joined' => q \in joined,
         pushes'[q] \subseteq {"paid", "failed", "refunded"},
         pushes'[q] # {} => pushes[q] # {} \/ (Open(q) /\ Over')
  PROVE  PageShape(q)' /\ PageTruth(q)'
  <1>1. PageShape(q)'
    BY DEF PageShape, Flying, Open
  <1>2. \A answer : Supported(answer) => Supported(answer)'
    BY DEF Supported, Onward
  <1>3. Over => Over'
    BY DEF Over, Onward
  <1>4. PageTruth(q)'
    BY <1>2, <1>3 DEF PageTruth, Open, Onward
  <1> QED
    BY <1>1, <1>4

(* PushReaches: a pushed status reaches the pages in the room, which are open. *)
LEMMA PushReaches ==
  ASSUME CashierInv, NEW status \in {"paid", "failed", "refunded"}, Push(status), Over',
         NEW q \in Pages
  PROVE  /\ pushes'[q] \subseteq {"paid", "failed", "refunded"}
         /\ pushes'[q] # {} => pushes[q] # {} \/ (Open(q) /\ Over')
  BY DEF CashierInv, PageShape, Push, Open

(* InfoTrue: getCashierInfo answers what is true of the order, and a decision  *)
(* once it is over, unless a refund was begun.                               *)
LEMMA InfoTrue ==
  ASSUME OrderOK
  PROVE  /\ CashierInfo \in Answers /\ Supported(CashierInfo)
         /\ Over /\ ~ order.refunded => CashierInfo \in Decided
  <1>1. order.status = "Paid" => CashierInfo = "paid"
    BY DEF CashierInfo
  <1>2. order.status = "Expired" => CashierInfo = "expired"
    BY DEF CashierInfo
  <1>3. order.status = "Failed" => CashierInfo = "failed"
    BY DEF CashierInfo
  <1>4. order.status \in {"Pending", "Refunding", "Refunded"} =>
          CashierInfo = IF order.late THEN "expired" ELSE "pending"
    BY DEF CashierInfo
  <1> QED
    BY <1>1, <1>2, <1>3, <1>4 DEF OrderOK, Statuses, Answers, Decided, Supported, Over

(* Requested: a page that asks for the order, with room for the request.      *)
LEMMA Requested ==
  ASSUME NEW p \in Pages, DOMAIN flight = Pages, flight[p] \in [Stages -> Nat],
         Flying(p) < MaxFlight, Send(p)
  PROVE  /\ DOMAIN flight' = Pages /\ flight'[p] \in [Stages -> Nat]
         /\ Flying(p)' <= MaxFlight
         /\ flight'[p]["sent"] > 0
         /\ \A s \in Answers : flight'[p][s] = flight[p][s]
         /\ \A q \in Pages \ {p} : flight'[q] = flight[q]
  <1>1. /\ flight'[p] = [flight[p] EXCEPT !["sent"] = flight[p]["sent"] + 1]
        /\ DOMAIN flight' = Pages
        /\ \A q \in Pages \ {p} : flight'[q] = flight[q]
    BY DEF Send
  <1> QED
    BY <1>1, FlightAssumption DEF Flying, Stages, Answers, Decided

(* Taken: a request, or its answer, is done with.                            *)
LEMMA Taken ==
  ASSUME NEW p \in Pages, DOMAIN flight = Pages, flight[p] \in [Stages -> Nat],
         Flying(p) <= MaxFlight, NEW s \in Stages, flight[p][s] > 0,
         flight' = [flight EXCEPT ![p][s] = @ - 1]
  PROVE  /\ DOMAIN flight' = Pages /\ flight'[p] \in [Stages -> Nat]
         /\ Flying(p)' <= MaxFlight
         /\ \A r \in Stages : flight'[p][r] <= flight[p][r]
         /\ \A r \in Stages \ {s} : flight'[p][r] = flight[p][r]
         /\ \A q \in Pages \ {p} : flight'[q] = flight[q]
  <1>1. /\ flight'[p] = [flight[p] EXCEPT ![s] = flight[p][s] - 1]
        /\ DOMAIN flight' = Pages
        /\ \A q \in Pages \ {p} : flight'[q] = flight[q]
    OBVIOUS
  <1> QED
    BY <1>1, FlightAssumption DEF Flying, Stages, Answers, Decided

(* Replied: the server answers a request that was sent.                      *)
LEMMA Replied ==
  ASSUME NEW p \in Pages, DOMAIN flight = Pages, flight[p] \in [Stages -> Nat],
         Flying(p) <= MaxFlight, NEW answer \in Answers, Answered(p, answer)
  PROVE  /\ DOMAIN flight' = Pages /\ flight'[p] \in [Stages -> Nat]
         /\ Flying(p)' <= MaxFlight
         /\ flight'[p][answer] > 0
         /\ \A r \in Answers \ {answer} : flight'[p][r] = flight[p][r]
         /\ \A q \in Pages \ {p} : flight'[q] = flight[q]
  <1>1. /\ flight'[p] = [flight[p] EXCEPT !["sent"] = flight[p]["sent"] - 1,
                                          ![answer] = flight[p][answer] + 1]
        /\ DOMAIN flight' = Pages
        /\ \A q \in Pages \ {p} : flight'[q] = flight[q]
    BY DEF Answered, Answers, Decided
  <1> QED
    BY <1>1, FlightAssumption DEF Flying, Stages, Answers, Decided, Answered

(* OthersKept: the pages of which a step changes nothing but the pushes.      *)
LEMMA OthersKept ==
  ASSUME CashierInv, OrderOK', Onward, NEW p \in Pages, PageShape(p)', PageTruth(p)',
         DOMAIN page' = Pages, DOMAIN flight' = Pages, DOMAIN pushes' = Pages,
         UNCHANGED form,
         \A q \in Pages \ {p} :
           /\ page'[q] = page[q] /\ flight'[q] = flight[q] /\ (q \in joined' => q \in joined)
           /\ pushes'[q] \subseteq {"paid", "failed", "refunded"}
           /\ pushes'[q] # {} => pushes[q] # {} \/ (Open(q) /\ Over')
  PROVE  CashierInv'
  <1>1. \A q \in Pages : PageShape(q)' /\ PageTruth(q)'
    BY PageFrame DEF CashierInv
  <1>2. \A k \in Forms : FormTruth(k)'
    BY DEF CashierInv, FormTruth, Over, Onward
  <1> QED
    BY <1>1, <1>2 DEF CashierInv

(* PageStep: a step of a page keeps the invariant.                           *)
LEMMA PageStep ==
  ASSUME CashierInv, OrderOK', Onward, NEW p \in Pages, Page(p)
  PROVE  CashierInv'
  <1> DEFINE Goal == CashierInv'
  <1> SUFFICES Goal
    OBVIOUS
  <1>a. /\ OrderOK /\ DOMAIN page = Pages /\ DOMAIN flight = Pages /\ DOMAIN pushes = Pages
        /\ \A q \in Pages : PageShape(q) /\ PageTruth(q)
    BY DEF CashierInv
  <1>b. /\ PageShape(p) /\ PageTruth(p)
        /\ flight[p] \in [Stages -> Nat] /\ Flying(p) <= MaxFlight
        /\ \A q \in Pages : pushes[q] \subseteq {"paid", "failed", "refunded"}
    BY <1>a DEF PageShape
  <1>c. CashierInfo \in Answers /\ Supported(CashierInfo)
        /\ (Over /\ ~ order.refunded => CashierInfo \in Decided)
    BY <1>a, InfoTrue
  <1>1. CASE Answer(p)
    <2>1. /\ DOMAIN flight' = Pages /\ flight'[p] \in [Stages -> Nat]
          /\ Flying(p)' <= MaxFlight /\ flight'[p][CashierInfo] > 0
          /\ \A r \in Answers \ {CashierInfo} : flight'[p][r] = flight[p][r]
          /\ \A q \in Pages \ {p} : flight'[q] = flight[q]
      BY <1>1, <1>a, <1>b, <1>c, Replied DEF Answer
    <2>2. flight[p]["sent"] > 0 /\ UNCHANGED <<order, page, joined, pushes, form>>
      BY <1>1 DEF Answer, Answered
    <2>3. PageShape(p)'
      <3>1. page[p].at # "new"
        BY <1>b, <2>2 DEF PageShape, Flying, Stages, Answers, Decided
      <3> QED
        BY <1>b, <2>1, <2>2, <3>1 DEF PageShape
    <2>4. PageTruth(p)'
      BY <1>b, <1>c, <2>1, <2>2 DEF PageTruth, Supported, Over, Open, Answers, Decided, Stages
    <2> QED
      BY <1>a, <1>b, <2>1, <2>2, <2>3, <2>4, OthersKept
  <1>2. CASE AnswerAfterQuery(p)
    <2>1. /\ DOMAIN flight' = Pages /\ flight'[p] \in [Stages -> Nat]
          /\ Flying(p)' <= MaxFlight /\ flight'[p]["paid"] > 0
          /\ \A r \in Answers \ {"paid"} : flight'[p][r] = flight[p][r]
          /\ \A q \in Pages \ {p} : flight'[q] = flight[q]
      BY <1>2, <1>a, <1>b, Replied DEF AnswerAfterQuery, Answers, Decided
    <2>2. flight[p]["sent"] > 0 /\ UNCHANGED <<page, joined, form>>
      BY <1>2 DEF AnswerAfterQuery, Answered
    <2>3. order'.booked
      <3>1. CASE order.status = "Pending"
        BY <1>2, <1>a, <3>1 DEF AnswerAfterQuery, Booked, OrderOK
      <3>2. CASE order.status # "Pending"
        <4>1. order.status \notin {"Expired", "Failed"}
          BY <1>2, Zenon DEF AnswerAfterQuery, CashierInfo
        <4> QED
          BY <1>2, <1>a, <3>2, <4>1 DEF AnswerAfterQuery, OrderOK, Statuses
      <3> QED
        BY <3>1, <3>2
    <2>4. /\ DOMAIN pushes' = Pages
          /\ \A q \in Pages : /\ pushes'[q] \subseteq {"paid", "failed", "refunded"}
                              /\ pushes'[q] # {} => pushes[q] # {} \/ (Open(q) /\ Over')
      <3>1. CASE Push("paid")
        BY <3>1, <2>3, PushReaches DEF Over, Push
      <3>2. CASE UNCHANGED pushes
        BY <3>2, <1>a, <1>b
      <3> QED
        BY <1>2, <3>1, <3>2 DEF AnswerAfterQuery
    <2>5. PageShape(p)'
      <3>1. page[p].at # "new"
        BY <1>b, <2>2 DEF PageShape, Flying, Stages, Answers, Decided
      <3> QED
        BY <1>b, <2>1, <2>2, <2>4, <3>1 DEF PageShape, Open
    <2>6. PageTruth(p)'
      BY <1>b, <2>1, <2>2, <2>3, <2>4
         DEF PageTruth, Supported, Over, Open, Answers, Decided, Stages, Onward
    <2> QED
      BY <1>a, <1>b, <2>1, <2>2, <2>4, <2>5, <2>6, OthersKept
  <1>3. CASE OpenPage(p)
    <2>1. /\ page[p].at = "new" /\ Send(p)
          /\ page' = [page EXCEPT ![p].at = "open", ![p].polling = TRUE]
          /\ UNCHANGED <<order, joined, pushes, form>>
      BY <1>3 DEF OpenPage
    <2>2. Flying(p) < MaxFlight
      BY <1>b, <2>1, FlightAssumption DEF PageShape
    <2>3. /\ DOMAIN flight' = Pages /\ flight'[p] \in [Stages -> Nat]
          /\ Flying(p)' <= MaxFlight
          /\ \A s \in Answers : flight'[p][s] = flight[p][s]
          /\ \A q \in Pages \ {p} : flight'[q] = flight[q]
      BY <1>a, <1>b, <2>1, <2>2, Requested
    <2>4. /\ page'[p].at = "open" /\ DOMAIN page'[p] = DOMAIN page[p]
          /\ page'[p].info = page[p].info /\ DOMAIN page' = Pages
          /\ \A q \in Pages \ {p} : page'[q] = page[q]
      BY <1>a, <1>b, <2>1 DEF PageShape, PageFields
    <2>8. page'[p].polling
      <3>1. page'[p].polling = TRUE
        BY <1>a, <1>b, <2>1 DEF PageShape, PageFields
      <3> QED
        BY <3>1
    <2>5. page[p].info \notin Decided
      BY <1>b, <2>1 DEF PageShape, Decided
    <2>6. PageShape(p)'
      BY <1>b, <2>1, <2>3, <2>4, <2>5 DEF PageShape
    <2>7. PageTruth(p)'
      BY <1>b, <2>1, <2>3, <2>4, <2>8 DEF PageTruth, Supported, Over, Open, Answers
    <2> QED
      BY <1>a, <1>b, <2>1, <2>3, <2>4, <2>6, <2>7, OthersKept
  <1>4. CASE ClosePage(p)
    <2>1. /\ Open(p) /\ flight' = [flight EXCEPT ![p] = [s \in Stages |-> 0]]
          /\ page' = [page EXCEPT ![p].at = "closed", ![p].polling = FALSE,
                                  ![p].ticking = FALSE]
          /\ joined' = joined \ {p} /\ pushes' = [pushes EXCEPT ![p] = {}]
          /\ UNCHANGED <<order, form>>
      BY <1>4 DEF ClosePage
    <2>2. /\ page'[p].at = "closed" /\ ~ page'[p].polling /\ ~ page'[p].ticking
          /\ page'[p].info = page[p].info /\ DOMAIN page'[p] = DOMAIN page[p]
          /\ DOMAIN page' = Pages /\ \A q \in Pages \ {p} : page'[q] = page[q]
      BY <1>a, <1>b, <2>1 DEF PageShape, PageFields
    <2>3. /\ flight'[p] = [s \in Stages |-> 0] /\ DOMAIN flight' = Pages
          /\ \A q \in Pages \ {p} : flight'[q] = flight[q]
      BY <1>a, <2>1
    <2>4. /\ pushes'[p] = {} /\ DOMAIN pushes' = Pages
          /\ \A q \in Pages \ {p} : pushes'[q] = pushes[q]
      BY <1>a, <2>1
    <2>5. PageShape(p)'
      BY <1>b, <2>1, <2>2, <2>3, <2>4, FlightAssumption
         DEF PageShape, Flying, Stages, Answers, Decided
    <2>6. PageTruth(p)'
      BY <1>b, <2>1, <2>2, <2>3, <2>4 DEF PageTruth, Supported, Open, Stages, Answers, Decided
    <2> QED
      BY <1>a, <1>b, <2>1, <2>2, <2>3, <2>4, <2>5, <2>6, OthersKept
  <1>5. CASE Subscribe(p) \/ Disconnect(p)
    <2>1. UNCHANGED <<order, page, flight, form>>
      BY <1>5 DEF Subscribe, Disconnect
    <2>2. /\ \A q \in Pages \ {p} : (q \in joined' => q \in joined) /\ pushes'[q] = pushes[q]
          /\ pushes'[p] \subseteq pushes[p] /\ DOMAIN pushes' = Pages
          /\ p \in joined' => Open(p)
      BY <1>5, <1>a DEF Subscribe, Disconnect
    <2>3. PageShape(p)' /\ PageTruth(p)'
      BY <1>b, <2>1, <2>2 DEF PageShape, PageTruth, Supported, Over, Open, Flying
    <2> QED
      BY <1>a, <1>b, <2>1, <2>2, <2>3, OthersKept
  <1>6. CASE Poll(p)
    <2>1. /\ page[p].polling /\ Flying(p) < MaxFlight /\ Send(p)
          /\ UNCHANGED <<order, page, joined, pushes, form>>
      BY <1>6 DEF Poll, Room
    <2>2. /\ DOMAIN flight' = Pages /\ flight'[p] \in [Stages -> Nat]
          /\ Flying(p)' <= MaxFlight
          /\ \A s \in Answers : flight'[p][s] = flight[p][s]
          /\ \A q \in Pages \ {p} : flight'[q] = flight[q]
      BY <1>a, <1>b, <2>1, Requested
    <2>3. PageShape(p)' /\ PageTruth(p)'
      BY <1>b, <2>1, <2>2 DEF PageShape, PageTruth, Supported, Over, Open, Answers
    <2> QED
      BY <1>a, <1>b, <2>1, <2>2, <2>3, OthersKept
  <1>7. ASSUME NEW answer \in Answers, Receive(p, answer)
        PROVE  Goal
    <2>1. /\ Open(p) /\ flight[p][answer] > 0
          /\ flight' = [flight EXCEPT ![p][answer] = @ - 1]
          /\ page' = [page EXCEPT ![p] = Shown(p, answer)]
          /\ UNCHANGED <<order, joined, pushes, form>>
      BY <1>7 DEF Receive
    <2>2. /\ DOMAIN flight' = Pages /\ flight'[p] \in [Stages -> Nat]
          /\ Flying(p)' <= MaxFlight
          /\ \A r \in Stages : flight'[p][r] <= flight[p][r]
          /\ \A r \in Stages \ {answer} : flight'[p][r] = flight[p][r]
          /\ \A q \in Pages \ {p} : flight'[q] = flight[q]
      BY <1>a, <1>b, <2>1, Taken DEF Stages
    <2>3. /\ DOMAIN page' = Pages /\ DOMAIN page'[p] = PageFields
          /\ page'[p].at = "open" /\ page'[p].info = answer
          /\ \A q \in Pages \ {p} : page'[q] = page[q]
      BY <1>a, <1>b, <2>1 DEF PageShape, PageFields, Shown, Open
    <2>4. page'[p].polling <=> page[p].polling /\ answer \notin Decided
      <3>1. page'[p].polling = (page[p].polling /\ ~ Final(answer))
        BY <1>a, <1>b, <2>1 DEF PageShape, PageFields, Shown
      <3> QED
        BY <3>1, Zenon DEF Final
    <2>5. page[p].success => page'[p].success
      <3>1. page'[p].success = (page[p].success \/ (p \in Mobile /\ answer = "paid"))
        BY <1>a, <1>b, <2>1 DEF PageShape, PageFields, Shown
      <3> QED
        BY <3>1, Zenon
    <2>6. page'[p].astray <=> page[p].astray \/ (answer = "pending" /\ page[p].info \in Decided)
      <3>1. page'[p].astray
              = (page[p].astray \/ (answer = "pending" /\ page[p].info \in Decided))
        BY <1>a, <1>b, <2>1 DEF PageShape, PageFields, Shown
      <3> QED
        BY <3>1, Zenon
    <2>7. PageShape(p)'
      BY <1>b, <2>1, <2>2, <2>3, <2>4 DEF PageShape
    <2>8. /\ \A a \in Decided :
               flight'[p][a] > 0 \/ page'[p].info = a => Supported(a)'
          /\ pushes'[p] # {} => Over'
      BY <1>b, <2>1, <2>2, <2>3 DEF PageTruth, Supported, Over, Stages, Answers
    <2>9. ~ page'[p].polling => Over'
      <3>1. answer \in Decided => Over
        BY <1>b, <2>1 DEF PageTruth, Supported, Over, Decided
      <3> QED
        BY <1>b, <2>1, <2>4, <3>1 DEF PageTruth, Over
    <2>10. ~ page'[p].polling /\ ~ page'[p].astray /\ ~ order'.refunded =>
             \/ page'[p].info \in Decided \/ page'[p].success
             \/ flight'[p]["sent"] + flight'[p]["paid"] + flight'[p]["expired"]
                  + flight'[p]["failed"] > 0
      BY <1>b, <2>1, <2>2, <2>3, <2>4, <2>5, <2>6 DEF PageTruth, Stages, Answers, Decided
    <2>11. PageTruth(p)'
      BY <2>8, <2>9, <2>10 DEF PageTruth
    <2> QED
      BY <1>a, <1>b, <2>1, <2>2, <2>3, <2>7, <2>11, OthersKept
  <1>8. ASSUME NEW stage \in Stages, FetchFails(p, stage)
        PROVE  Goal
    <2>1. /\ Open(p) /\ flight[p][stage] > 0
          /\ flight' = [flight EXCEPT ![p][stage] = @ - 1]
          /\ page' = [page EXCEPT ![p] = Broken(p)]
          /\ UNCHANGED <<order, joined, pushes, form>>
      BY <1>8 DEF FetchFails
    <2>2. /\ DOMAIN flight' = Pages /\ flight'[p] \in [Stages -> Nat]
          /\ Flying(p)' <= MaxFlight
          /\ \A r \in Stages : flight'[p][r] <= flight[p][r]
          /\ \A q \in Pages \ {p} : flight'[q] = flight[q]
      BY <1>a, <1>b, <2>1, Taken
    <2>3. /\ DOMAIN page' = Pages /\ DOMAIN page'[p] = PageFields
          /\ page'[p].at = page[p].at /\ page'[p].info = page[p].info
          /\ page'[p].polling = page[p].polling /\ page'[p].ticking = page[p].ticking
          /\ \A q \in Pages \ {p} : page'[q] = page[q]
      BY <1>a, <1>b, <2>1 DEF PageShape, PageFields, Broken
    <2>4. page'[p].astray
      <3>1. page'[p].astray = TRUE
        BY <1>a, <1>b, <2>1 DEF PageShape, PageFields, Broken
      <3> QED
        BY <3>1
    <2>5. PageShape(p)'
      BY <1>b, <2>1, <2>2, <2>3 DEF PageShape, Open
    <2>6. PageTruth(p)'
      BY <1>b, <2>1, <2>2, <2>3, <2>4
         DEF PageTruth, Supported, Over, Open, Stages, Answers
    <2> QED
      BY <1>a, <1>b, <2>1, <2>2, <2>3, <2>5, <2>6, OthersKept
  <1>9. ASSUME NEW status \in {"paid", "failed", "refunded"}, PushArrives(p, status)
        PROVE  Goal
    <2>1. /\ status \in pushes[p] /\ Flying(p) < MaxFlight /\ Send(p)
          /\ pushes' = [pushes EXCEPT ![p] = @ \ {status}]
          /\ page' = [page EXCEPT ![p].polling = FALSE]
          /\ UNCHANGED <<order, joined, form>>
      BY <1>9 DEF PushArrives, Room
    <2>2. /\ DOMAIN flight' = Pages /\ flight'[p] \in [Stages -> Nat]
          /\ Flying(p)' <= MaxFlight /\ flight'[p]["sent"] > 0
          /\ \A s \in Answers : flight'[p][s] = flight[p][s]
          /\ \A q \in Pages \ {p} : flight'[q] = flight[q]
      BY <1>a, <1>b, <2>1, Requested
    <2>3. /\ DOMAIN page' = Pages /\ DOMAIN page'[p] = PageFields
          /\ page'[p].at = page[p].at /\ page'[p].info = page[p].info
          /\ page'[p].polling = FALSE /\ page'[p].ticking = page[p].ticking
          /\ \A q \in Pages \ {p} : page'[q] = page[q]
          /\ pushes'[p] \subseteq pushes[p] /\ DOMAIN pushes' = Pages
          /\ \A q \in Pages \ {p} : pushes'[q] = pushes[q]
      BY <1>a, <1>b, <2>1 DEF PageShape, PageFields
    <2>4. Over /\ page[p].at = "open"
      BY <1>b, <2>1 DEF PageTruth, PageShape
    <2>5. PageShape(p)'
      BY <1>b, <2>1, <2>2, <2>3, <2>4 DEF PageShape
    <2>6. PageTruth(p)'
      BY <1>b, <2>1, <2>2, <2>3, <2>4
         DEF PageTruth, Supported, Over, Open, Stages, Answers, Decided
    <2> QED
      BY <1>a, <1>b, <2>1, <2>2, <2>3, <2>5, <2>6, OthersKept
  <1>10. CASE CountdownEnds(p)
    <2>1. PICK again \in BOOLEAN : page' = [page EXCEPT ![p].ticking = again]
      BY <1>10 DEF CountdownEnds
    <2>2. /\ page[p].ticking /\ Flying(p) < MaxFlight /\ Send(p)
          /\ UNCHANGED <<order, joined, pushes, form>>
      BY <1>10 DEF CountdownEnds, Room
    <2>3. /\ DOMAIN flight' = Pages /\ flight'[p] \in [Stages -> Nat]
          /\ Flying(p)' <= MaxFlight /\ flight'[p]["sent"] > 0
          /\ \A s \in Answers : flight'[p][s] = flight[p][s]
          /\ \A q \in Pages \ {p} : flight'[q] = flight[q]
      BY <1>a, <1>b, <2>2, Requested
    <2>4. /\ DOMAIN page' = Pages /\ DOMAIN page'[p] = PageFields
          /\ page'[p].at = page[p].at /\ page'[p].info = page[p].info
          /\ page'[p].polling = page[p].polling
          /\ \A q \in Pages \ {p} : page'[q] = page[q]
      BY <1>a, <1>b, <2>1 DEF PageShape, PageFields
    <2>5. page[p].at = "open"
      BY <1>b, <2>2 DEF PageShape
    <2>6. PageShape(p)'
      BY <1>b, <2>2, <2>3, <2>4, <2>5 DEF PageShape
    <2>7. PageTruth(p)'
      BY <1>b, <2>2, <2>3, <2>4
         DEF PageTruth, Supported, Over, Open, Stages, Answers, Decided
    <2> QED
      BY <1>a, <1>b, <2>2, <2>3, <2>4, <2>6, <2>7, OthersKept
  <1> HIDE DEF Goal
  <1> QED
    BY <1>1, <1>2, <1>3, <1>4, <1>5, <1>6, <1>7, <1>8, <1>9, <1>10 DEF Page

(* MovesStep: a transaction of the server on the order keeps the invariant.   *)
LEMMA MovesStep ==
  ASSUME CashierInv, OrderOK', Onward, OrderMoves
  PROVE  CashierInv'
  <1>a. DOMAIN page = Pages /\ DOMAIN flight = Pages /\ DOMAIN pushes = Pages /\ OrderOK
    BY DEF CashierInv
  <1>1. UNCHANGED <<page, flight, joined, form>>
    BY DEF OrderMoves, MarkPaid, MarkFailed, Refund, Late, CleanUp
  <1>2. \/ UNCHANGED pushes
        \/ \E status \in {"paid", "failed", "refunded"} : Push(status) /\ Over'
    <2>1. CASE MarkPaid
      BY <2>1, <1>a DEF MarkPaid, Booked, OrderOK, Over
    <2>2. CASE MarkFailed
      BY <2>2, <1>a DEF MarkFailed, OrderOK, Over, Statuses
    <2>3. CASE Refund
      BY <2>3, <1>a DEF Refund, OrderOK, Over
    <2>4. CASE Late \/ CleanUp
      BY <2>4 DEF Late, CleanUp
    <2> QED
      BY <2>1, <2>2, <2>3, <2>4 DEF OrderMoves
  <1>3. /\ DOMAIN pushes' = Pages
        /\ \A q \in Pages : /\ pushes'[q] \subseteq {"paid", "failed", "refunded"}
                            /\ pushes'[q] # {} => pushes[q] # {} \/ (Open(q) /\ Over')
    <2>1. CASE UNCHANGED pushes
      BY <2>1, <1>a DEF CashierInv, PageShape
    <2>2. ASSUME NEW status \in {"paid", "failed", "refunded"}, Push(status), Over'
          PROVE  /\ DOMAIN pushes' = Pages
                 /\ \A q \in Pages :
                      /\ pushes'[q] \subseteq {"paid", "failed", "refunded"}
                      /\ pushes'[q] # {} => pushes[q] # {} \/ (Open(q) /\ Over')
      BY <2>2, PushReaches DEF Push
    <2> QED
      BY <1>2, <2>1, <2>2
  <1>4. \A q \in Pages : PageShape(q)' /\ PageTruth(q)'
    BY <1>1, <1>3, PageFrame DEF CashierInv
  <1>5. \A k \in Forms : FormTruth(k)'
    BY <1>1 DEF CashierInv, FormTruth, Over, Onward
  <1> QED
    BY <1>a, <1>1, <1>3, <1>4, <1>5 DEF CashierInv

(* FormStep: a step of a native form keeps the invariant.                     *)
LEMMA FormStep ==
  ASSUME CashierInv, OrderOK', Onward, NEW k \in Forms, Form(k)
  PROVE  CashierInv'
  <1> DEFINE Goal == CashierInv'
             p == PageOf[k]
  <1> SUFFICES Goal
    OBVIOUS
  <1>a. /\ OrderOK /\ DOMAIN page = Pages /\ DOMAIN flight = Pages /\ DOMAIN pushes = Pages
        /\ DOMAIN form = Forms
        /\ \A q \in Pages : PageShape(q) /\ PageTruth(q)
        /\ \A j \in Forms : FormTruth(j)
    BY DEF CashierInv
  <1>b. p \in Pages
    BY PageAssumption
  <1> HIDE DEF p
  <1>c. /\ PageShape(p) /\ PageTruth(p)
        /\ flight[p] \in [Stages -> Nat] /\ Flying(p) <= MaxFlight
        /\ \A q \in Pages : pushes[q] \subseteq {"paid", "failed", "refunded"}
    BY <1>a, <1>b DEF PageShape
  <1>1. CASE Confirm(k) \/ ConfirmCheck(k) \/ ConfirmLost(k)
    <2>1. /\ UNCHANGED <<order, page, flight, joined, pushes>>
          /\ DOMAIN form' = Forms
          /\ \A j \in Forms : form'[j] \in {form[j], "sent", "checked", "idle"}
      BY <1>1, <1>a DEF Confirm, ConfirmCheck, ConfirmLost
    <2>2. \A q \in Pages : PageShape(q)' /\ PageTruth(q)'
      BY <1>a, <2>1 DEF PageShape, PageTruth, Supported, Over, Open, Flying
    <2>3. \A j \in Forms : FormTruth(j)'
      BY <1>a, <2>1 DEF FormTruth, FormStates, Over
    <2> QED
      BY <1>a, <2>1, <2>2, <2>3 DEF CashierInv
  <1>2. CASE ConfirmBook(k)
    <2>1. /\ UNCHANGED <<page, flight, joined>>
          /\ form' = [form EXCEPT ![k] = "confirmed"]
          /\ UNCHANGED pushes \/ Push("paid")
      BY <1>2 DEF ConfirmBook
    <2>2. Over'
      BY <1>2, <1>a DEF ConfirmBook, Booked, OrderOK, Statuses, Over
    <2>3. /\ DOMAIN pushes' = Pages
          /\ \A q \in Pages : /\ pushes'[q] \subseteq {"paid", "failed", "refunded"}
                              /\ pushes'[q] # {} => pushes[q] # {} \/ (Open(q) /\ Over')
      BY <2>1, <2>2, <1>a, <1>c, PushReaches DEF Push
    <2>4. \A q \in Pages : PageShape(q)' /\ PageTruth(q)'
      BY <1>a, <2>1, <2>3, PageFrame
    <2>5. \A j \in Forms : FormTruth(j)'
      BY <1>a, <2>1, <2>2 DEF FormTruth, FormStates
    <2> QED
      BY <1>a, <2>1, <2>3, <2>4, <2>5 DEF CashierInv
  <1>3. ASSUME UNCHANGED <<order, joined, pushes>>,
               DOMAIN page' = Pages, \A q \in Pages : page'[q] = page[q],
               DOMAIN form' = Forms, \A j \in Forms : form'[j] \in {form[j], "idle", "timer"},
               UNCHANGED flight \/ (Flying(p) < MaxFlight /\ Open(p) /\ Send(p))
        PROVE  Goal
    <2>1. \A j \in Forms : FormTruth(j)'
      BY <1>3, <1>a DEF FormTruth, FormStates, Over
    <2>2. CASE UNCHANGED flight
      <3>1. ASSUME NEW q \in Pages PROVE PageShape(q)' /\ PageTruth(q)'
        BY <1>a, <1>3, <2>2
           DEF PageShape, PageTruth, Supported, Over, Open, Flying
      <3> QED
        BY <1>a, <1>3, <2>1, <2>2, <3>1 DEF CashierInv
    <2>3. CASE Flying(p) < MaxFlight /\ Open(p) /\ Send(p)
      <3>1. /\ DOMAIN flight' = Pages /\ flight'[p] \in [Stages -> Nat]
            /\ Flying(p)' <= MaxFlight /\ flight'[p]["sent"] > 0
            /\ \A s \in Answers : flight'[p][s] = flight[p][s]
            /\ \A q \in Pages \ {p} : flight'[q] = flight[q]
        BY <1>a, <1>b, <1>c, <2>3, Requested
      <3>2. PageShape(p)' /\ PageTruth(p)'
        <4>1. UNCHANGED <<order, joined, pushes>> /\ page'[p] = page[p]
          BY <1>b, <1>3
        <4>2. PageShape(p)'
          BY <1>c, <2>3, <3>1, <4>1 DEF PageShape, Open
        <4>3. PageTruth(p)'
          BY <1>c, <2>3, <3>1, <4>1
             DEF PageTruth, Supported, Over, Open, Stages, Answers, Decided
        <4> QED
          BY <4>2, <4>3
      <3>3. \A q \in Pages \ {p} : PageShape(q)' /\ PageTruth(q)'
        BY <1>a, <1>3, <3>1 DEF PageShape, PageTruth, Supported, Over, Open, Flying
      <3>4. \A q \in Pages : PageShape(q)' /\ PageTruth(q)'
        BY <3>2, <3>3
      <3> QED
        BY <1>a, <1>3, <2>1, <3>1, <3>4 DEF CashierInv
    <2> QED
      BY <1>3, <2>2, <2>3
  <1>4. ASSUME UNCHANGED <<order, flight, joined, pushes>>, form' = [form EXCEPT ![k] = "idle"],
               form[k] = "confirmed", Open(p),
               page' = [page EXCEPT ![p].success = TRUE, ![p].polling = FALSE]
        PROVE  Goal
    <2>1. Over
      BY <1>4, <1>a DEF FormTruth
    <2>2. /\ DOMAIN page' = Pages /\ DOMAIN page'[p] = PageFields
          /\ page'[p].at = page[p].at /\ page'[p].info = page[p].info
          /\ page'[p].polling = FALSE /\ page'[p].success = TRUE
          /\ page'[p].ticking = page[p].ticking
          /\ \A q \in Pages \ {p} : page'[q] = page[q]
      BY <1>4, <1>a, <1>b, <1>c DEF PageShape, PageFields
    <2>3. PageShape(p)' /\ PageTruth(p)'
      BY <1>c, <1>4, <2>1, <2>2 DEF PageShape, PageTruth, Supported, Over, Open, Flying
    <2>4. \A q \in Pages \ {p} : PageShape(q)' /\ PageTruth(q)'
      BY <1>a, <1>4, <2>2 DEF PageShape, PageTruth, Supported, Over, Open, Flying
    <2>5. \A q \in Pages : PageShape(q)' /\ PageTruth(q)'
      BY <2>3, <2>4
    <2>6. \A j \in Forms : FormTruth(j)'
      BY <1>4, <1>a DEF FormTruth, FormStates, Over
    <2> QED
      BY <1>a, <1>4, <2>2, <2>5, <2>6 DEF CashierInv
  <1>5. CASE ScannerTimer(k)
    <2>1. /\ UNCHANGED <<order, page, joined, pushes>> /\ form' = [form EXCEPT ![k] = "idle"]
          /\ UNCHANGED flight \/ (Flying(p) < MaxFlight /\ Open(p) /\ Send(p))
      BY <1>5 DEF ScannerTimer, Room, p
    <2> QED
      BY <1>a, <1>3, <2>1
  <1>6. CASE ConfirmAnswered(k)
    <2>1. UNCHANGED <<order, joined, pushes>> /\ form[k] = "confirmed"
      BY <1>6 DEF ConfirmAnswered
    <2>2. CASE UNCHANGED <<page, flight>> /\ form' = [form EXCEPT ![k] = "idle"]
      BY <1>a, <1>3, <2>1, <2>2
    <2>3. CASE UNCHANGED <<page, flight>> /\ form' = [form EXCEPT ![k] = "timer"]
      BY <1>a, <1>3, <2>1, <2>3
    <2>4. CASE /\ UNCHANGED flight /\ Open(p) /\ form' = [form EXCEPT ![k] = "idle"]
               /\ page' = [page EXCEPT ![p].success = TRUE, ![p].polling = FALSE]
      BY <1>4, <2>1, <2>4
    <2>5. CASE /\ Flying(p) < MaxFlight /\ form' = [form EXCEPT ![k] = "idle"]
               /\ IF Open(p) THEN Send(p) ELSE UNCHANGED flight
               /\ page' = [page EXCEPT ![p] = Acknowledged(p)]
      <3>1. DOMAIN page' = Pages /\ \A q \in Pages : page'[q] = page[q]
        BY <2>5, <1>a, <1>b DEF Acknowledged
      <3>2. UNCHANGED flight \/ (Flying(p) < MaxFlight /\ Open(p) /\ Send(p))
        BY <2>5
      <3>3. /\ DOMAIN form' = Forms
            /\ \A j \in Forms : form'[j] \in {form[j], "idle", "timer"}
        BY <1>a, <2>5
      <3> HIDE DEF Goal
      <3> QED
        BY <1>3, <2>1, <3>1, <3>2, <3>3
    <2> HIDE DEF Goal
    <2> QED
      BY <1>6, <2>2, <2>3, <2>4, <2>5 DEF ConfirmAnswered, Room, p
  <1> HIDE DEF Goal
  <1> QED
    BY <1>1, <1>2, <1>5, <1>6 DEF Form

(* CashierHolds: the invariant of the pages holds in every state.             *)
LEMMA CashierHolds == CashierSpec => []CashierInv
  <1>1. CashierInv /\ [CashierNext]_cashierVars => CashierInv'
    <2>1. SUFFICES ASSUME CashierInv, [CashierNext]_cashierVars, OrderOK', Onward
                   PROVE  CashierInv'
      BY OrderStep
    <2>2. CASE UNCHANGED cashierVars
      BY <2>1, <2>2
         DEF cashierVars, CashierInv, OrderOK, PageShape, PageTruth, FormTruth, Supported, Over,
             Open, Flying
    <2> QED
      BY <2>1, <2>2, MovesStep, PageStep, FormStep DEF CashierNext
  <1> QED
    BY <1>1, CashierInitInv, PTL DEF CashierSpec

(* CashierTypes: the variables of CashierPages keep their types, a page has no *)
(* more requests under way than the model bounds, and only a page that is      *)
(* open and shows no decision polls (Cashier and MobilePay's poll effect).    *)
THEOREM CashierTypes == CashierSpec => []CashierTypeOK
  <1>1. ASSUME CashierInv PROVE CashierTypeOK
    <2>1. ASSUME NEW p \in Pages PROVE flight[p] \in [Stages -> 0..MaxFlight]
      <3>1. flight[p] \in [Stages -> Nat] /\ Flying(p) <= MaxFlight
        BY <1>1 DEF CashierInv, PageShape
      <3>2. ASSUME NEW s \in Stages PROVE flight[p][s] \in 0..MaxFlight
        BY <3>1, FlightAssumption DEF Flying, Stages, Answers, Decided
      <3> QED
        BY <3>1, <3>2
    <2> QED
      BY <1>1, <2>1 DEF CashierInv, CashierTypeOK, OrderOK, Statuses, PageShape, FormTruth
  <1> QED
    BY <1>1, CashierHolds, PTL

(* PaidShownWasBooked: no page shows as paid an order that was never booked,   *)
(* whichever answers overtake each other (getCashierInfo, fetchInfo).         *)
THEOREM PaidShownWasBooked == CashierSpec => []PaidWasBooked
  <1>1. CashierInv => PaidWasBooked
    BY DEF CashierInv, PageTruth, Supported, PaidWasBooked, Decided
  <1> QED
    BY <1>1, CashierHolds, PTL

(* StopsWhenOver: a page that is open stops its poll only when the order is    *)
(* decided or its time is over (fetchInfo, handleWsStatus, MobilePay).        *)
THEOREM StopsWhenOver == CashierSpec => []StopsWhenDecided
  <1>1. CashierInv => StopsWhenDecided
    BY DEF CashierInv, PageTruth, StopsWhenDecided, Over
  <1> QED
    BY <1>1, CashierHolds, PTL

(* StoppedShows: a page that stopped its poll and waits for no answer shows    *)
(* the decision, for every number of requests under way (handleWsStatus,     *)
(* fetchInfo, confirmPayment's answer).                                      *)
THEOREM StoppedShows == CashierSpec => []StoppedShowsDecision
  <1>1. ASSUME CashierInv, NEW p \in Pages, Open(p), ~ page[p].polling, Flying(p) = 0,
               ~ page[p].astray, ~ order.refunded
        PROVE  page[p].info \in Decided \/ page[p].success
    BY <1>1 DEF CashierInv, PageShape, PageTruth, Flying, Stages, Answers, Decided
  <1>2. CashierInv => StoppedShowsDecision
    BY <1>1 DEF StoppedShowsDecision
  <1> QED
    BY <1>2, CashierHolds, PTL
-----------------------------------------------------------------------------
(* Both parts: each keeps its own variables and leaves the other's alone.      *)

(* ClientParts: a behaviour of the client is one of each of its parts.        *)
LEMMA ClientParts == Spec => CashierSpec /\ SessionSpec
  <1>1. Init => CashierInit /\ SessionInit /\ cast \in Casts
    BY DEF Init
  <1>2. cast \in Casts /\ [Next]_vars => (cast \in Casts)'
    BY DEF Next, Paying, Signing, vars
  <1>3. cast \in Casts =>
          cast.pages \subseteq Pages /\ cast.forms \subseteq Forms /\ cast.tabs \subseteq Tabs
    BY CastAssumption DEF Casts, Nobody
  <1>4. cast \in Casts /\ [Next]_vars => [CashierNext]_cashierVars /\ [SessionNext]_sessionVars
    BY <1>3, Zenon DEF Next, Paying, Signing, vars, CashierNext, SessionNext
  <1> QED
    BY <1>1, <1>2, <1>4, PTL DEF Spec, CashierSpec, SessionSpec

(* ClientTypes: the variables of both parts keep their types together.        *)
THEOREM ClientTypes == Spec => []ClientTypeOK
  <1>1. CashierTypeOK /\ SessionTypeOK => ClientTypeOK
    BY DEF ClientTypeOK
  <1> QED
    BY <1>1, ClientParts, CashierTypes, SessionTypes, PTL
=============================================================================
