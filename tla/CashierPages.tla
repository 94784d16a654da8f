---------------------------- MODULE CashierPages ----------------------------
(***************************************************************************)
(* The pages a customer pays on, for one order: Cashier and MobilePay, with  *)
(* the forms that confirm a native payment.  A page asks for the order when   *)
(* it opens, every five seconds, when its countdown ends and when the server  *)
(* pushes a status; the answers may fail and may overtake each other.        *)
(***************************************************************************)
EXTENDS Naturals

CONSTANTS
  Pages, Mobile,    \* the pages; those that are MobilePay
  Forms, Scanners,  \* the native forms; those in the scanner's dialog
  PageOf,           \* [Forms -> Pages]
  MaxFlight         \* bound on the requests a page has under way

ASSUME PageAssumption == Mobile \subseteq Pages /\ PageOf \in [Forms -> Pages]
ASSUME FlightAssumption == MaxFlight \in Nat \ {0}

VARIABLES
  order,    \* status, whether its time is over, was it ever booked, or a refund begun
  page,     \* what each page shows, whether it polls, its countdown runs, ...
  flight,   \* how many of a page's requests are sent, or answered with what
  joined,   \* the pages in the order's room
  pushes,   \* the statuses on their way to each page
  form      \* where each confirmation stands

cashierVars == <<order, page, flight, joined, pushes, form>>

Decided == {"paid", "expired", "failed"}
Answers == Decided \union {"pending"}
Stages == Answers \union {"sent"}
FormStates == {"idle", "sent", "checked", "confirmed", "timer"}

CashierTypeOK ==
  /\ order.status \in {"Pending", "Paid", "Failed", "Expired", "Refunding", "Refunded"}
  /\ \A p \in Pages :
       /\ page[p].info \in Answers \union {"none"}
       /\ page[p].at \in {"new", "open", "closed"}
       /\ flight[p] \in [Stages -> 0..MaxFlight]
       /\ pushes[p] \subseteq {"paid", "failed", "refunded"}
       /\ page[p].polling => page[p].at = "open" /\ page[p].info \notin Decided
  /\ \A k \in Forms : form[k] \in FormStates

CashierInit ==
  /\ order = [status |-> "Pending", late |-> FALSE, booked |-> FALSE, refunded |-> FALSE]
  /\ page = [p \in Pages |->
       [at |-> "new", info |-> "none", error |-> FALSE, polling |-> FALSE,
        ticking |-> FALSE, success |-> FALSE, astray |-> FALSE]]
  /\ flight = [p \in Pages |-> [s \in Stages |-> 0]]
  /\ joined = {} /\ pushes = [p \in Pages |-> {}]
  /\ form = [k \in Forms |-> "idle"]

Open(p) == page[p].at = "open"
Flying(p) ==
  LET f == flight[p] IN f["sent"] + f["pending"] + f["paid"] + f["expired"] + f["failed"]
Room(p) == Flying(p) < MaxFlight
Send(p) == flight' = [flight EXCEPT ![p]["sent"] = @ + 1]

(* notifyPaymentStatus: to the pages in the room.                           *)
Push(status) ==
  pushes' = [p \in Pages |-> IF p \in joined THEN pushes[p] \union {status} ELSE pushes[p]]
-----------------------------------------------------------------------------
(* The order.                                                               *)
Booked == [order EXCEPT !.status = "Paid", !.booked = TRUE]

MarkPaid ==
  /\ order.status = "Pending"
  /\ order' = Booked /\ Push("paid")
  /\ UNCHANGED <<page, flight, joined, form>>

(* markFailed tells the pages so even when it leaves the order as it is.      *)
MarkFailed ==
  /\ order' = IF order.status = "Pending" THEN [order EXCEPT !.status = "Failed"] ELSE order
  /\ Push("failed")
  /\ UNCHANGED <<page, flight, joined, form>>

Refund ==
  /\ \/ order.status = "Paid" /\ UNCHANGED pushes
        /\ order' = [order EXCEPT !.status = "Refunding", !.refunded = TRUE]
     \/ order.status = "Refunding" /\ UNCHANGED pushes
        /\ order' = [order EXCEPT !.status = "Paid"]
     \/ order.status = "Refunding" /\ Push("refunded")
        /\ order' = [order EXCEPT !.status = "Refunded"]
  /\ UNCHANGED <<page, flight, joined, form>>

Late ==
  /\ ~ order.late
  /\ order' = [order EXCEPT !.late = TRUE]
  /\ UNCHANGED <<page, flight, joined, pushes, form>>

CleanUp ==
  /\ order.late /\ order.status = "Pending"
  /\ order' = [order EXCEPT !.status = "Expired"]
  /\ UNCHANGED <<page, flight, joined, pushes, form>>

(* Mutant: the time of a Pending order is not looked at.                     *)
CashierInfoTimeless ==
  CASE order.status = "Paid"    -> "paid"
    [] order.status = "Expired" -> "expired"
    [] order.status = "Failed"  -> "failed"
    [] OTHER                    -> "pending"

(* getCashierInfo: what it answers to a request that is under way.  An order   *)
(* under refund is answered like a Pending one.                              *)
CashierInfo ==
  CASE order.status = "Paid"    -> "paid"
    [] order.status = "Expired" -> "expired"
    [] order.status = "Failed"  -> "failed"
    [] OTHER                    -> IF order.late THEN "expired" ELSE "pending"

Answered(p, answer) ==
  /\ flight[p]["sent"] > 0
  /\ flight' = [flight EXCEPT ![p]["sent"] = @ - 1, ![p][answer] = @ + 1]

Answer(p) ==
  /\ Answered(p, CashierInfo)
  /\ UNCHANGED <<order, page, joined, pushes, form>>

(* The active query finds that the customer has paid at Alipay, and books it;  *)
(* one of an order under refund finds the same, and books nothing.            *)
AnswerAfterQuery(p) ==
  /\ CashierInfo = "pending" /\ Answered(p, "paid")
  /\ IF order.status = "Pending" THEN order' = Booked /\ Push("paid")
                                 ELSE UNCHANGED <<order, pushes>>
  /\ UNCHANGED <<page, joined, form>>
-----------------------------------------------------------------------------
(* The mount effects: a first request, the poll, the subscription.           *)
OpenPage(p) ==
  /\ page[p].at = "new"
  /\ page' = [page EXCEPT ![p].at = "open", ![p].polling = TRUE]
  /\ Send(p)
  /\ UNCHANGED <<order, joined, pushes, form>>

(* Leaving the page, or its reload: another page of the set takes over.       *)
ClosePage(p) ==
  /\ Open(p)
  /\ page' = [page EXCEPT ![p].at = "closed", ![p].polling = FALSE, ![p].ticking = FALSE]
  /\ flight' = [flight EXCEPT ![p] = [s \in Stages |-> 0]]
  /\ joined' = joined \ {p} /\ pushes' = [pushes EXCEPT ![p] = {}]
  /\ UNCHANGED <<order, form>>

Subscribe(p) ==
  /\ Open(p)
  /\ joined' = joined \union {p}
  /\ UNCHANGED <<order, page, flight, pushes, form>>

(* The socket breaks; the client joins again only when it mounts again, which *)
(* Subscribe, taken at any time, includes.                                  *)
Disconnect(p) ==
  /\ p \in joined
  /\ joined' = joined \ {p} /\ pushes' = [pushes EXCEPT ![p] = {}]
  /\ UNCHANGED <<order, page, flight, form>>

Poll(p) ==
  /\ page[p].polling /\ Room(p)
  /\ Send(p)
  /\ UNCHANGED <<order, page, joined, pushes, form>>

FinalPaid(answer) == answer = "paid"   \* mutant: the poll outlives an expired order
Final(answer) == answer \in Decided

(* fetchInfo goes on: the answer is shown whatever is shown already.  The      *)
(* countdown starts when the order shown becomes pending.                    *)
Shown(p, answer) ==
  [page[p] EXCEPT
     !.info = answer, !.error = FALSE,
     !.polling = @ /\ ~ Final(answer),
     !.ticking = answer = "pending" /\ (@ \/ page[p].info # "pending"),
     !.success = @ \/ (p \in Mobile /\ answer = "paid"),
     !.astray = @ \/ (answer = "pending" /\ page[p].info \in Decided)]

Receive(p, answer) ==
  /\ Open(p) /\ flight[p][answer] > 0
  /\ flight' = [flight EXCEPT ![p][answer] = @ - 1]
  /\ page' = [page EXCEPT ![p] = Shown(p, answer)]
  /\ UNCHANGED <<order, joined, pushes, form>>

BrokenStops(p) ==   \* mutant: the poll ends
  [page[p] EXCEPT !.error = TRUE, !.astray = TRUE, !.polling = FALSE]
Broken(p) == [page[p] EXCEPT !.error = TRUE, !.astray = TRUE]

FetchFails(p, stage) ==
  /\ Open(p) /\ flight[p][stage] > 0
  /\ flight' = [flight EXCEPT ![p][stage] = @ - 1]
  /\ page' = [page EXCEPT ![p] = Broken(p)]
  /\ UNCHANGED <<order, joined, pushes, form>>

(* Mutant: the pushed status is not fetched.                                 *)
PushTrusted(p, status) ==
  /\ status \in pushes[p] /\ Room(p)
  /\ pushes' = [pushes EXCEPT ![p] = @ \ {status}]
  /\ page' = [page EXCEPT ![p].polling = FALSE]
  /\ UNCHANGED <<order, flight, joined, form>>

(* handleWsStatus: a decision ends the poll and is fetched once more.         *)
PushArrives(p, status) ==
  /\ status \in pushes[p] /\ Room(p)
  /\ pushes' = [pushes EXCEPT ![p] = @ \ {status}]
  /\ page' = [page EXCEPT ![p].polling = FALSE]
  /\ Send(p)
  /\ UNCHANGED <<order, joined, form>>

(* By the customer's clock, which need not agree with the server's.  When the  *)
(* time is over already as it starts, it ends once more a second later.       *)
CountdownEnds(p) ==
  /\ page[p].ticking /\ Room(p)
  /\ \E again \in BOOLEAN : page' = [page EXCEPT ![p].ticking = again]
  /\ Send(p)
  /\ UNCHANGED <<order, joined, pushes, form>>
-----------------------------------------------------------------------------
(* What the page offers: the gates before its rendering.                     *)
Payable(p) ==
  Open(p) /\ ~ page[p].error /\ ~ page[p].success /\ page[p].info = "pending"

Confirm(k) ==
  /\ Payable(PageOf[k]) /\ form[k] = "idle"
  /\ form' = [form EXCEPT ![k] = "sent"]
  /\ UNCHANGED <<order, page, flight, joined, pushes>>

(* confirmPayment reads the order; one that is not Pending is refused.        *)
ConfirmCheck(k) ==
  /\ form[k] = "sent"
  /\ form' = [form EXCEPT ![k] = IF order.status = "Pending" THEN "checked" ELSE "idle"]
  /\ UNCHANGED <<order, page, flight, joined, pushes>>

(* markPaid books it if it still is, and confirmPayment answers success in    *)
(* any case.                                                                *)
ConfirmBook(k) ==
  /\ form[k] = "checked"
  /\ form' = [form EXCEPT ![k] = "confirmed"]
  /\ IF order.status = "Pending" THEN order' = Booked /\ Push("paid")
     ELSE /\ UNCHANGED order
          /\ IF order.status = "Paid" THEN Push("paid") ELSE UNCHANGED pushes
  /\ UNCHANGED <<page, flight, joined>>

AcknowledgedPaid(p) == [page[p] EXCEPT !.info = "paid", !.polling = FALSE]  \* mutant

(* MobilePay shows success at once and stops polling; the cashier asks for the *)
(* order again, from the scanner's dialog a moment later.                    *)
Acknowledged(p) == page[p]

ConfirmAnswered(k) ==
  LET p == PageOf[k] IN
  /\ form[k] = "confirmed"
  /\ \/ /\ p \in Mobile /\ UNCHANGED flight
        /\ page' = IF Open(p) THEN [page EXCEPT ![p].success = TRUE, ![p].polling = FALSE]
                   ELSE page
        /\ form' = [form EXCEPT ![k] = "idle"]
     \/ /\ k \in Scanners
        /\ form' = [form EXCEPT ![k] = "timer"]
        /\ UNCHANGED <<page, flight>>
     \/ /\ p \notin Mobile /\ k \notin Scanners /\ Room(p)
        /\ IF Open(p) THEN Send(p) ELSE UNCHANGED flight
        /\ page' = [page EXCEPT ![p] = Acknowledged(p)]
        /\ form' = [form EXCEPT ![k] = "idle"]
  /\ UNCHANGED <<order, joined, pushes>>

ScannerTimer(k) ==
  LET p == PageOf[k] IN
  /\ form[k] = "timer" /\ Room(p)
  /\ IF Open(p) THEN Send(p) ELSE UNCHANGED flight
  /\ form' = [form EXCEPT ![k] = "idle"]
  /\ UNCHANGED <<order, page, joined, pushes>>

(* The request or its answer is lost: the page says that the payment failed.  *)
ConfirmLost(k) ==
  /\ form[k] \in {"sent", "confirmed"}
  /\ form' = [form EXCEPT ![k] = "idle"]
  /\ UNCHANGED <<order, page, flight, joined, pushes>>

OrderMoves == MarkPaid \/ MarkFailed \/ Refund \/ Late \/ CleanUp

Page(p) ==
  \/ Answer(p)
  \/ AnswerAfterQuery(p)
  \/ OpenPage(p)
  \/ ClosePage(p)
  \/ Subscribe(p)
  \/ Disconnect(p)
  \/ Poll(p)
  \/ \E answer \in Answers : Receive(p, answer)
  \/ \E stage \in Stages : FetchFails(p, stage)
  \/ \E status \in {"paid", "failed", "refunded"} : PushArrives(p, status)
  \/ CountdownEnds(p)

Form(k) ==
  \/ Confirm(k)
  \/ ConfirmCheck(k)
  \/ ConfirmBook(k)
  \/ ConfirmAnswered(k)
  \/ ScannerTimer(k)
  \/ ConfirmLost(k)

CashierNext ==
  \/ OrderMoves
  \/ \E p \in Pages : Page(p)
  \/ \E k \in Forms : Form(k)

CashierSpec == CashierInit /\ [][CashierNext]_cashierVars
-----------------------------------------------------------------------------
(* Neither page shows an order as paid that was never booked, as far as it    *)
(* shows what it was answered: an order under refund may count as paid.       *)
PaidWasBooked == \A p \in Pages : page[p].info = "paid" => order.booked

(* A page that is open stops asking only when the order has been decided, or   *)
(* its time is over; a broken connection does not stop it.                    *)
StopsWhenDecided ==
  \A p \in Pages : Open(p) /\ ~ page[p].polling =>
    order.booked \/ order.late \/ order.status = "Failed"

(* A page that has stopped asking and waits for no answer shows the decision,  *)
(* unless a request of it failed, an answer was overtaken, or a refund was    *)
(* begun, during and after which the page may be told that it is pending.    *)
StoppedShowsDecision ==
  \A p \in Pages :
    Open(p) /\ ~ page[p].polling /\ Flying(p) = 0
      /\ ~ page[p].astray /\ ~ order.refunded =>
        page[p].info \in Decided \/ page[p].success

(* native-pay.service.ts:124: confirmPayment checks that the order is still   *)
(* Pending, and MobilePay takes its success for a payment that was booked.   *)
SuccessIsBooked == \A p \in Pages : page[p].success => order.booked

(* No page asks for ever.                                                    *)
PollingEnds == \A p \in Pages : page[p].polling ~> ~ page[p].polling
=============================================================================
