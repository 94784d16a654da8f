----------------------------- MODULE BackOffice -----------------------------
(***************************************************************************)
(* The administrator's requests over the whole table payment_orders:        *)
(* comparing a provider's daily bill with it, deleting an order, resetting   *)
(* the sandbox, and the statistics.  Each takes several queries, between     *)
(* which orders are created, booked, announced and refunded, and a handler   *)
(* may save a copy of an order that it loaded earlier.                       *)
(***************************************************************************)
EXTENDS Naturals, Sequences, FiniteSets, Functions

CONSTANTS
  Numbers,   \* order numbers
  Amounts,   \* their amounts, in cents
  TradeOf,   \* [Numbers -> the trade the provider books for the order]
  Bills,     \* the bills: sequences of [number, trade, amount]
  Desks,     \* the requests, each a process that runs once
  KindOf     \* [Desks -> RequestKinds]

RequestKinds == {"upload", "delete", "reset", "stats"}

ASSUME KindAssumption == KindOf \in [Desks -> RequestKinds]
ASSUME BillAssumption ==
  /\ Amounts \subseteq Nat
  /\ \A bill \in Bills : /\ bill \in Seq(Range(bill))
                         /\ \A line \in Range(bill) : line.number \in Numbers

VARIABLES
  rows,        \* payment_orders, restricted to one provider and one day
  used,        \* the order numbers given out
  held,        \* the copies that handlers loaded and may save
  inserts,     \* how many rows were inserted
  announcing,  \* the orders booked, whose notification is still to be inserted
  notices,     \* the orders with a notification in the queue
  untold,      \* those whose notification is missing for another reason
  records,     \* reconciliation_records of the provider and day
  desk         \* where each request stands

officeVars == <<rows, used, held, inserts, announcing, notices, untold, records, desk>>
orderVars == <<rows, used, held, inserts, announcing>>

Verdicts == {"matched", "amount_mismatch", "missing_local", "missing_upstream"}
States == {"Pending", "Paid", "Refunding"}
Present == DOMAIN rows
Paid == {o \in Present : rows[o].status = "Paid"}
Resetting == {t \in Desks : desk[t].at \in {"notices", "audit"}}

OfficeTypeOK ==
  /\ Present \subseteq used /\ used \subseteq Numbers
  /\ \A o \in Present : rows[o].status \in States /\ rows[o].amount \in Amounts
  /\ DOMAIN held \subseteq used
  /\ announcing \subseteq used /\ notices \subseteq used /\ untold \subseteq used
  /\ inserts \in Nat
  /\ \A r \in records :
       r.number \in Numbers /\ r.verdict \in Verdicts /\ r.by \in Desks
  /\ \A t \in Desks :
       /\ desk[t].at \in {"idle", "rows", "rest", "delete", "orders", "notices", "audit",
                          "paid", "done", "failed"}
       /\ desk[t].bill \in Bills \union {<<>>} /\ desk[t].next \in 1..(Len(desk[t].bill) + 1)
       /\ desk[t].seen \subseteq DOMAIN desk[t].local

OfficeInit ==
  /\ rows = <<>> /\ used = {} /\ held = <<>> /\ inserts = 0
  /\ announcing = {} /\ notices = {} /\ untold = {} /\ records = {}
  /\ desk = [t \in Desks |->
       [at |-> "idle", number |-> CHOOSE o \in Numbers : TRUE, bill |-> <<>>, next |-> 1,
        local |-> <<>>, seen |-> {}, total |-> 0, success |-> 0, since |-> 0]]

(* A table, or a set of copies, with the row of order o inserted or replaced.  *)
With(table, o, row) ==
  [n \in DOMAIN table \union {o} |-> IF n = o THEN row ELSE table[n]]

Goto(t, state) == desk' = [desk EXCEPT ![t].at = state]
-----------------------------------------------------------------------------
(* What the rest of the server does to the table.                           *)

Create(o, amount) ==
  /\ o \notin used
  /\ used' = used \union {o} /\ inserts' = inserts + 1
  /\ rows' = With(rows, o, [status |-> "Pending", amount |-> amount])
  /\ UNCHANGED <<held, announcing, notices, untold, records, desk>>

(* markPaid under its lock; the notification is inserted after the commit.   *)
BookOrder(o) ==
  /\ o \in Present /\ rows[o].status = "Pending"
  /\ rows' = [rows EXCEPT ![o].status = "Paid"]
  /\ announcing' = announcing \union {o}
  /\ UNCHANGED <<used, held, inserts, notices, untold, records, desk>>

(* It may fail, and a reset under way may be about to delete it.             *)
Announced(o) ==
  /\ o \in announcing
  /\ announcing' = announcing \ {o}
  /\ \/ /\ notices' = notices \union {o}
        /\ untold' = IF Resetting = {} THEN untold ELSE untold \union {o}
     \/ untold' = untold \union {o} /\ UNCHANGED notices
  /\ UNCHANGED <<rows, used, held, inserts, records, desk>>

(* markRefunding; the rest of a refund is in module Refunds.                  *)
RefundOrder(o) ==
  /\ o \in Paid
  /\ rows' = [rows EXCEPT ![o].status = "Refunding"]
  /\ UNCHANGED <<used, held, inserts, announcing, notices, untold, records, desk>>

(* A channel's createOrder loads an order and saves the copy later: over what *)
(* was booked meanwhile, and as a new row when it was deleted meanwhile.     *)
Hold(o) ==
  /\ o \in Present \ DOMAIN held
  /\ held' = With(held, o, rows[o])
  /\ UNCHANGED <<rows, used, inserts, announcing, notices, untold, records, desk>>

SaveHeld(o) ==
  /\ o \in DOMAIN held
  /\ rows' = With(rows, o, held[o])
  /\ inserts' = IF o \in Present THEN inserts ELSE inserts + 1
  /\ untold' = IF o \in Present THEN untold ELSE untold \union {o}
  /\ held' = Restrict(held, DOMAIN held \ {o})
  /\ UNCHANGED <<used, announcing, notices, records, desk>>
-----------------------------------------------------------------------------
(* uploadBill and reconcile: the orders paid on that day, in one query.       *)
UploadBill(t, bill) ==
  /\ desk[t].at = "idle" /\ KindOf[t] = "upload"
  /\ desk' = [desk EXCEPT ![t].at = "rows", ![t].bill = bill,
                          ![t].local = [o \in Paid |-> rows[o].amount]]
  /\ UNCHANGED <<orderVars, notices, untold, records>>

Apart(a, b) == (a > b /\ a - b > 1) \/ (b > a /\ b - a > 1)

Verdict(local, line) ==
  IF line.number \notin DOMAIN local THEN "missing_local"
  ELSE IF Apart(line.amount, local[line.number]) THEN "amount_mismatch"
  ELSE "matched"

(* Mutant: a number that is no order of the day counts as met.               *)
MetNamed(d, line) == d.seen \union {line.number}

(* Mutant: only an order whose amount agrees counts as met.                  *)
MetMatched(d, line) ==
  IF Verdict(d.local, line) = "matched" THEN d.seen \union {line.number} ELSE d.seen

(* The orders of the day that the loop has met on the bill.                  *)
Met(d, line) == d.seen \union ({line.number} \intersect DOMAIN d.local)

(* save of one record; the table refuses a second one of the same trade, and *)
(* the upload ends there, with the records saved so far.                     *)
Recorded(t, record) ==
  /\ \A r \in records : r.trade # record.trade
  /\ records' = records \union {record}

RecordLine(t) ==
  LET d == desk[t]  line == d.bill[d.next] IN
  /\ d.at = "rows" /\ d.next <= Len(d.bill)
  /\ Recorded(t, [number |-> line.number, trade |-> line.trade, by |-> t,
                  verdict |-> Verdict(d.local, line)])
  /\ desk' = [desk EXCEPT ![t].next = @ + 1, ![t].seen = Met(d, line)]
  /\ UNCHANGED <<orderVars, notices, untold>>

EndLines(t) ==
  /\ desk[t].at = "rows" /\ desk[t].next > Len(desk[t].bill)
  /\ Goto(t, "rest")
  /\ UNCHANGED <<orderVars, notices, untold, records>>

RecordMissing(t, o) ==
  LET d == desk[t] IN
  /\ d.at = "rest" /\ o \in DOMAIN d.local \ d.seen
  /\ Recorded(t, [number |-> o, trade |-> TradeOf[o], by |-> t,
                  verdict |-> "missing_upstream"])
  /\ desk' = [desk EXCEPT ![t].seen = @ \union {o}]
  /\ UNCHANGED <<orderVars, notices, untold>>

UploadAnswered(t) ==
  /\ desk[t].at = "rest" /\ desk[t].seen = DOMAIN desk[t].local
  /\ Goto(t, "done")
  /\ UNCHANGED <<orderVars, notices, untold, records>>

(* Any query of a request may fail; for an upload, also on the unique key.    *)
DeskFails(t) ==
  /\ desk[t].at \notin {"idle", "done", "failed"}
  /\ Goto(t, "failed")
  /\ UNCHANGED <<orderVars, notices, untold, records>>
-----------------------------------------------------------------------------
(* deleteTransaction: findOne, then a delete by number.                      *)
FindTransaction(t, o) ==
  /\ desk[t].at = "idle" /\ KindOf[t] = "delete" /\ o \in Present
  /\ desk' = [desk EXCEPT ![t].at = "delete", ![t].number = o]
  /\ UNCHANGED <<orderVars, notices, untold, records>>

DeleteTransaction(t) ==
  /\ desk[t].at = "delete"
  /\ rows' = Restrict(rows, Present \ {desk[t].number})
  /\ Goto(t, "done")
  /\ UNCHANGED <<used, held, inserts, announcing, notices, untold, records>>

(* resetData: three deletes, each of a whole table.                          *)
StartReset(t) ==
  /\ desk[t].at = "idle" /\ KindOf[t] = "reset"
  /\ Goto(t, "orders")
  /\ UNCHANGED <<orderVars, notices, untold, records>>

(* Mutant: a reset empties the queue first and the orders last.              *)
ResetQueueFirst(t) ==
  /\ desk[t].at = "orders"
  /\ notices' = {}
  /\ Goto(t, "notices")
  /\ UNCHANGED <<orderVars, untold, records>>

ResetOrders(t) ==
  /\ desk[t].at = "orders"
  /\ rows' = <<>>
  /\ Goto(t, "notices")
  /\ UNCHANGED <<used, held, inserts, announcing, notices, untold, records>>

ResetNotices(t) ==
  /\ desk[t].at = "notices"
  /\ notices' = {}
  /\ Goto(t, "audit")
  /\ UNCHANGED <<orderVars, untold, records>>

ResetAudit(t) ==
  /\ desk[t].at = "audit"
  /\ Goto(t, "done")
  /\ UNCHANGED <<orderVars, notices, untold, records>>
-----------------------------------------------------------------------------
(* Mutant: the filter of the second query is used in the first, negated.     *)
CountUnpaid(t) ==
  /\ desk[t].at = "idle" /\ KindOf[t] = "stats"
  /\ desk' = [desk EXCEPT ![t].at = "paid", ![t].total = Cardinality(Present \ Paid),
                          ![t].since = inserts]
  /\ UNCHANGED <<orderVars, notices, untold, records>>

(* getStats: the orders are counted, and in a second query the Paid ones.    *)
CountOrders(t) ==
  /\ desk[t].at = "idle" /\ KindOf[t] = "stats"
  /\ desk' = [desk EXCEPT ![t].at = "paid", ![t].total = Cardinality(Present),
                          ![t].since = inserts]
  /\ UNCHANGED <<orderVars, notices, untold, records>>

CountPaid(t) ==
  /\ desk[t].at = "paid"
  /\ desk' = [desk EXCEPT ![t].at = "done", ![t].success = Cardinality(Paid),
                          ![t].since = inserts - @]
  /\ UNCHANGED <<orderVars, notices, untold, records>>

Trade(o) ==
  \/ \E amount \in Amounts : Create(o, amount)
  \/ BookOrder(o)
  \/ RefundOrder(o)

Handle(o) ==
  \/ Announced(o)
  \/ Hold(o)
  \/ SaveHeld(o)

Office(t) ==
  \/ \E bill \in Bills : UploadBill(t, bill)
  \/ RecordLine(t)
  \/ EndLines(t)
  \/ \E o \in Numbers : RecordMissing(t, o) \/ FindTransaction(t, o)
  \/ UploadAnswered(t)
  \/ DeskFails(t)
  \/ DeleteTransaction(t)
  \/ StartReset(t)
  \/ ResetOrders(t)
  \/ ResetNotices(t)
  \/ ResetAudit(t)
  \/ CountOrders(t)
  \/ CountPaid(t)

OfficeNext ==
  \/ \E o \in Numbers : Trade(o) \/ Handle(o)
  \/ \E t \in Desks : Office(t)

OfficeSpec == OfficeInit /\ [][OfficeNext]_officeVars
-----------------------------------------------------------------------------
(* What a comparison of the day's orders with the bill should record.         *)
Reference(d) ==
  LET lines == {d.bill[n] : n \in 1..Len(d.bill)}
      named == {line.number : line \in lines} IN
  {<<line.trade, line.number, Verdict(d.local, line)>> : line \in lines}
    \union {<<TradeOf[o], o, "missing_upstream">> : o \in DOMAIN d.local \ named}

(* An upload records nothing that a comparison of its bill with the orders it *)
(* loaded would not say, though it may break off, and other uploads of the    *)
(* day record at the same time; when it is answered it has recorded all.      *)
UploadMatchesReference ==
  \A t \in Desks :
    LET mine == {<<r.trade, r.number, r.verdict>> : r \in {q \in records : q.by = t}} IN
    /\ mine \subseteq Reference(desk[t])
    /\ desk[t].at = "done" /\ KindOf[t] = "upload" => mine = Reference(desk[t])

(* A reset does not silence a merchant: a Paid order that is left has its      *)
(* notification, or will, unless inserting it failed, it was inserted during  *)
(* a reset, or the order was deleted and saved again.                        *)
PaidIsTold == Paid \subseteq notices \union announcing \union untold

(* The statistics count more successes than orders only by the orders that    *)
(* were inserted between the two queries, whatever is deleted there.          *)
StatsPlausible ==
  \A t \in Desks : desk[t].success <= desk[t].total + desk[t].since
=============================================================================
