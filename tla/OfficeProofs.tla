----------------------------- MODULE OfficeProofs ----------------------------
(***************************************************************************)
(* Theorems about three parts that MCServer runs: the back office over any     *)
(* orders, bills and requests; the administration pages with any lists, deeds, *)
(* administrators and settings; a paid order with any refunds and createOrders *)
(* at any price and quote.  Each is a specification of its own, with its own   *)
(* invariant; they share no state.  At the end, that MCServer's server is one  *)
(* behaviour of each of its parts.                                          *)
(***************************************************************************)
EXTENDS MCServer, GatewayProofs, RatesProofs, FiniteSetTheorems, TLAPS

-----------------------------------------------------------------------------
(* BackOffice.                                                               *)

DeskFields == {"at", "number", "bill", "next", "local", "seen", "total", "success", "since"}

Shaped ==
  /\ DOMAIN desk = Desks
  /\ \A t \in Desks : DOMAIN desk[t] = DeskFields

(* Requests: a request of the administrator moves its own desk, takes orders    *)
(* from the table at most, and empties the queue only in a reset that has just  *)
(* emptied the table.                                                       *)
LEMMA Requests ==
  ASSUME Shaped, NEW t \in Desks, Office(t)
  PROVE  /\ Shaped' /\ \A u \in Desks \ {t} : desk'[u] = desk[u]
         /\ UNCHANGED <<used, held, inserts, announcing, untold>>
         /\ DOMAIN rows' \subseteq DOMAIN rows
         /\ \A o \in DOMAIN rows' : rows'[o] = rows[o]
         /\ notices' = notices \/ desk[t].at = "notices"
         /\ desk'[t].at \in {"notices", "audit"} =>
              DOMAIN rows' = {} \/ desk[t].at \in {"notices", "audit"}
  <1> USE DEF orderVars, Present, Shaped, DeskFields
  <1>1. CASE \E bill \in Bills : UploadBill(t, bill)
    BY <1>1 DEF UploadBill
  <1>2. CASE RecordLine(t)
    BY <1>2 DEF RecordLine, Recorded
  <1>3. CASE EndLines(t)
    BY <1>3 DEF EndLines, Goto
  <1>4. CASE \E o \in Numbers : RecordMissing(t, o)
    BY <1>4 DEF RecordMissing, Recorded
  <1>5. CASE \E o \in Numbers : FindTransaction(t, o)
    BY <1>5 DEF FindTransaction
  <1>6. CASE UploadAnswered(t)
    BY <1>6 DEF UploadAnswered, Goto
  <1>7. CASE DeskFails(t)
    BY <1>7 DEF DeskFails, Goto
  <1>8. CASE DeleteTransaction(t)
    BY <1>8 DEF DeleteTransaction, Goto, Restrict
  <1>9. CASE StartReset(t)
    BY <1>9 DEF StartReset, Goto
  <1>10. CASE ResetOrders(t)
    BY <1>10 DEF ResetOrders, Goto
  <1>11. CASE ResetNotices(t)
    BY <1>11 DEF ResetNotices, Goto
  <1>12. CASE ResetAudit(t)
    BY <1>12 DEF ResetAudit, Goto
  <1>13. CASE CountOrders(t)
    BY <1>13 DEF CountOrders
  <1>14. CASE CountPaid(t)
    BY <1>14 DEF CountPaid
  <1> QED
    BY <1>1, <1>2, <1>3, <1>4, <1>5, <1>6, <1>7, <1>8, <1>9, <1>10, <1>11, <1>12, <1>13, <1>14 DEF Office

(* Told(o): the merchant has the notification of o, or will, or misses it for  *)
(* a reason; while a reset may still empty the queue, what is in it does not   *)
(* count.                                                                   *)
Told(o) == o \in announcing \union untold \/ (o \in notices /\ Resetting = {})

(* A copy that a handler holds of a Paid order is saved over the row later.     *)
ToldInv ==
  /\ DOMAIN rows \subseteq used /\ DOMAIN held \subseteq used
  /\ \A o \in DOMAIN rows : rows[o].status = "Paid" => Told(o)
  /\ \A o \in DOMAIN rows \intersect DOMAIN held : held[o].status = "Paid" => Told(o)

(* ToldStep: every step keeps what was told, or will be.                      *)
LEMMA ToldStep == Shaped /\ ToldInv /\ [OfficeNext]_officeVars => ToldInv'
  <1> DEFINE Goal == ToldInv'
  <1> SUFFICES ASSUME Shaped, ToldInv, [OfficeNext]_officeVars PROVE Goal
    OBVIOUS
  <1> USE DEF orderVars, Present
  <1>1. ASSUME NEW o \in Numbers, NEW amount \in Amounts, Create(o, amount)
        PROVE  Goal
    <2>1. /\ o \notin used /\ used' = used \union {o}
          /\ UNCHANGED <<held, announcing, notices, untold, desk>>
      BY <1>1 DEF Create
    <2>2. /\ DOMAIN rows' = DOMAIN rows \union {o}
          /\ rows'[o].status = "Pending"
          /\ \A k \in DOMAIN rows : k # o => rows'[k] = rows[k]
      BY <1>1 DEF Create, With
    <2>3. \A k : Told(k)' <=> Told(k)
      BY <2>1 DEF Told, Resetting
    <2> QED
      BY <2>1, <2>2, <2>3 DEF ToldInv
  <1>2. ASSUME NEW o \in Numbers, BookOrder(o)
        PROVE  Goal
    <2>1. /\ o \in DOMAIN rows /\ announcing' = announcing \union {o}
          /\ UNCHANGED <<used, held, notices, untold, desk>>
          /\ DOMAIN rows' = DOMAIN rows
          /\ \A k \in DOMAIN rows : k # o => rows'[k] = rows[k]
      BY <1>2 DEF BookOrder
    <2>2. \A k : Told(k) \/ k = o => Told(k)'
      BY <2>1 DEF Told, Resetting
    <2> QED
      BY <2>1, <2>2 DEF ToldInv
  <1>3. ASSUME NEW o \in Numbers, Announced(o)
        PROVE  Goal
    <2>1. UNCHANGED <<rows, used, held, desk>>
      BY <1>3 DEF Announced
    <2>2. \A k : Told(k) => Told(k)'
      BY <1>3 DEF Announced, Told, Resetting
    <2> QED
      BY <2>1, <2>2 DEF ToldInv
  <1>4. ASSUME NEW o \in Numbers, RefundOrder(o)
        PROVE  Goal
    <2>1. /\ DOMAIN rows' = DOMAIN rows
          /\ \A k \in DOMAIN rows : rows'[k].status = "Paid" => rows[k].status = "Paid"
          /\ UNCHANGED <<used, held, announcing, notices, untold, desk>>
      BY <1>4 DEF RefundOrder, Paid
    <2>2. \A k : Told(k)' <=> Told(k)
      BY <2>1 DEF Told, Resetting
    <2> QED
      BY <2>1, <2>2 DEF ToldInv
  <1>5. ASSUME NEW o \in Numbers, Hold(o)
        PROVE  Goal
    <2>1. /\ o \in DOMAIN rows /\ DOMAIN held' = DOMAIN held \union {o}
          /\ held'[o] = rows[o] /\ \A k \in DOMAIN held : k # o => held'[k] = held[k]
          /\ UNCHANGED <<rows, used, announcing, notices, untold, desk>>
      BY <1>5 DEF Hold, With
    <2>2. \A k : Told(k)' <=> Told(k)
      BY <2>1 DEF Told, Resetting
    <2> QED
      BY <2>1, <2>2 DEF ToldInv
  <1>6. ASSUME NEW o \in Numbers, SaveHeld(o)
        PROVE  Goal
    <2>1. /\ o \in DOMAIN held
          /\ untold' = IF o \in DOMAIN rows THEN untold ELSE untold \union {o}
          /\ UNCHANGED <<used, announcing, notices, desk>>
      BY <1>6 DEF SaveHeld
    <2>2. /\ DOMAIN rows' = DOMAIN rows \union {o} /\ rows'[o] = held[o]
          /\ \A k \in DOMAIN rows : k # o => rows'[k] = rows[k]
      BY <1>6 DEF SaveHeld, With
    <2>3. DOMAIN held' = DOMAIN held \ {o} /\ \A k \in DOMAIN held' : held'[k] = held[k]
      BY <1>6 DEF SaveHeld, Restrict
    <2>4. \A k : Told(k) => Told(k)'
      BY <2>1 DEF Told, Resetting
    <2>5. held[o].status = "Paid" => Told(o)'
      BY <2>1, <2>4 DEF ToldInv, Told
    <2> QED
      BY <2>1, <2>2, <2>3, <2>4, <2>5 DEF ToldInv
  <1>7. ASSUME NEW t \in Desks, Office(t)
        PROVE  Goal
    <2>1. /\ UNCHANGED <<used, held, announcing, untold>>
          /\ DOMAIN rows' \subseteq DOMAIN rows
          /\ \A o \in DOMAIN rows' : rows'[o] = rows[o]
      BY <1>7, Requests
    <2>2. CASE DOMAIN rows' = {}
      BY <2>1, <2>2 DEF ToldInv
    <2>3. CASE DOMAIN rows' # {}
      <3>1. \A u \in Desks : desk'[u].at \in {"notices", "audit"} =>
                             desk[u].at \in {"notices", "audit"}
        BY <1>7, <2>3, Requests
      <3>2. notices' = notices \/ desk[t].at = "notices"
        BY <1>7, Requests
      <3>3. \A o : Told(o) => Told(o)'
        BY <2>1, <3>1, <3>2 DEF Told, Resetting
      <3> QED
        BY <2>1, <3>3 DEF ToldInv
    <2> QED
      BY <2>2, <2>3
  <1>8. CASE UNCHANGED officeVars
    BY <1>8 DEF officeVars, ToldInv, Told, Resetting
  <1> HIDE DEF Goal
  <1> QED
    BY <1>1, <1>2, <1>3, <1>4, <1>5, <1>6, <1>7, <1>8 DEF OfficeNext, Trade, Handle

(* ShapedStep: the desks keep their fields.                                  *)
LEMMA ShapedStep == Shaped /\ [OfficeNext]_officeVars => Shaped'
  <1> SUFFICES ASSUME Shaped, [OfficeNext]_officeVars PROVE Shaped'
    OBVIOUS
  <1>1. CASE \E t \in Desks : Office(t)
    BY <1>1, Requests
  <1>2. CASE desk' = desk
    BY <1>2 DEF Shaped
  <1>3. ASSUME NEW o \in Numbers, Trade(o) \/ Handle(o)
        PROVE  desk' = desk
    BY <1>3 DEF Trade, Handle, Create, BookOrder, RefundOrder, Announced, Hold, SaveHeld
  <1> QED
    BY <1>1, <1>2, <1>3 DEF OfficeNext, officeVars

(* Counted(t): between its two queries a request for statistics is owed at      *)
(* most as many orders as were inserted since the first.                     *)
Counted(t) ==
  /\ desk[t].total \in Nat /\ desk[t].success \in Nat /\ desk[t].since \in Nat
  /\ desk[t].success <= desk[t].total + desk[t].since
  /\ desk[t].at \in {"idle", "paid"} => desk[t].success = 0
  /\ desk[t].at = "paid" =>
       /\ desk[t].since <= inserts
       /\ Cardinality(Present) + desk[t].since <= desk[t].total + inserts

StatsInv ==
  /\ IsFiniteSet(Present) /\ inserts \in Nat
  /\ \A t \in Desks : Counted(t)

(* Turnover: the table stays finite, and grows by what is inserted at most.     *)
LEMMA Turnover ==
  ASSUME StatsInv, Shaped, ToldInv, [OfficeNext]_officeVars
  PROVE  /\ IsFiniteSet(Present') /\ inserts' \in Nat /\ inserts <= inserts'
         /\ Cardinality(Present) \in Nat /\ Cardinality(Present') \in Nat
         /\ Cardinality(Present') <= Cardinality(Present) + (inserts' - inserts)
  <1>1. IsFiniteSet(Present) /\ inserts \in Nat /\ Cardinality(Present) \in Nat
    BY FS_CardinalityType DEF StatsInv
  <1>2. CASE Present' \subseteq Present /\ inserts' = inserts
    <2>1. /\ IsFiniteSet(Present') /\ Cardinality(Present') <= Cardinality(Present)
      BY <1>1, <1>2, FS_Subset
    <2>2. Cardinality(Present') \in Nat
      BY <2>1, FS_CardinalityType
    <2> QED
      BY <1>1, <1>2, <2>1, <2>2
  <1>3. ASSUME NEW o, o \notin Present, Present' = Present \union {o}, inserts' = inserts + 1
        PROVE  /\ IsFiniteSet(Present') /\ inserts' \in Nat /\ inserts <= inserts'
               /\ Cardinality(Present') \in Nat
               /\ Cardinality(Present') <= Cardinality(Present) + (inserts' - inserts)
    <2>1. IsFiniteSet(Present') /\ Cardinality(Present') = Cardinality(Present) + 1
      BY <1>1, <1>3, FS_AddElement
    <2> QED
      BY <1>1, <1>3, <2>1
  <1>4. ASSUME NEW o \in Numbers, NEW amount \in Amounts, Create(o, amount)
        PROVE  o \notin Present /\ Present' = Present \union {o} /\ inserts' = inserts + 1
    BY <1>4 DEF Create, With, Present, ToldInv
  <1>5. ASSUME NEW o \in Numbers, SaveHeld(o)
        PROVE  \/ Present' = Present /\ inserts' = inserts
               \/ o \notin Present /\ Present' = Present \union {o} /\ inserts' = inserts + 1
    BY <1>5 DEF SaveHeld, With, Present
  <1>6. ASSUME NEW o \in Numbers, BookOrder(o) \/ RefundOrder(o) \/ Announced(o) \/ Hold(o)
        PROVE  Present' = Present /\ inserts' = inserts
    BY <1>6 DEF BookOrder, RefundOrder, Announced, Hold, Present
  <1>7. ASSUME NEW t \in Desks, Office(t)
        PROVE  Present' \subseteq Present /\ inserts' = inserts
    BY <1>7, Requests DEF Present
  <1>8. CASE UNCHANGED officeVars
    BY <1>8, <1>2 DEF officeVars, Present
  <1> QED
    BY <1>1, <1>2, <1>3, <1>4, <1>5, <1>6, <1>7, <1>8 DEF OfficeNext, Trade, Handle

(* CountedKept: a desk that does not move keeps its figures.                    *)
LEMMA CountedKept ==
  ASSUME StatsInv, Shaped, ToldInv, [OfficeNext]_officeVars, NEW t \in Desks, desk'[t] = desk[t]
  PROVE  Counted(t)'
  <1>1. /\ Counted(t) /\ inserts \in Nat
    BY DEF StatsInv
  <1>2. /\ inserts' \in Nat /\ inserts <= inserts'
        /\ Cardinality(Present) \in Nat /\ Cardinality(Present') \in Nat
        /\ Cardinality(Present') <= Cardinality(Present) + (inserts' - inserts)
    BY Turnover
  <1> QED
    BY <1>1, <1>2 DEF Counted

(* CountedMoved: nor does a request miscount that moves its desk.               *)
LEMMA CountedMoved ==
  ASSUME StatsInv, Shaped, ToldInv, NEW t \in Desks, Office(t)
  PROVE  Counted(t)'
  <1>1. /\ Counted(t) /\ inserts \in Nat /\ inserts' = inserts
        /\ IsFiniteSet(Present) /\ Cardinality(Present) \in Nat
    BY Requests, FS_CardinalityType DEF StatsInv
  <1>2. CASE CountOrders(t)
    <2>1. /\ desk'[t].at = "paid" /\ desk'[t].total = Cardinality(Present)
          /\ desk'[t].success = desk[t].success /\ desk'[t].since = inserts
          /\ desk[t].at = "idle" /\ Present' = Present
      BY <1>2 DEF CountOrders, Shaped, DeskFields, orderVars, Present
    <2> QED
      BY <1>1, <2>1 DEF Counted
  <1>3. CASE CountPaid(t)
    <2>1. /\ desk[t].at = "paid" /\ desk'[t].at = "done"
          /\ desk'[t].total = desk[t].total
          /\ desk'[t].success = Cardinality(Paid) /\ desk'[t].since = inserts - desk[t].since
      BY <1>3 DEF CountPaid, Shaped, DeskFields
    <2>2. IsFiniteSet(Paid) /\ Cardinality(Paid) <= Cardinality(Present)
      BY <1>1, FS_Subset DEF Paid
    <2>3. Cardinality(Paid) \in Nat
      BY <2>2, FS_CardinalityType
    <2> QED
      BY <1>1, <2>1, <2>2, <2>3 DEF Counted
  <1>4. ASSUME /\ desk'[t].total = desk[t].total /\ desk'[t].success = desk[t].success
               /\ desk'[t].since = desk[t].since
               /\ desk'[t].at \notin {"idle", "paid"}
        PROVE  Counted(t)'
    BY <1>1, <1>4 DEF Counted
  <1> USE DEF Shaped, DeskFields
  <1>5. CASE \E bill \in Bills : UploadBill(t, bill)
    BY <1>5, <1>4 DEF UploadBill
  <1>6. CASE RecordLine(t)
    BY <1>6, <1>4 DEF RecordLine, Counted, StatsInv
  <1>7. CASE EndLines(t)
    BY <1>7, <1>4 DEF EndLines, Goto
  <1>8. CASE \E o \in Numbers : RecordMissing(t, o)
    BY <1>8, <1>4 DEF RecordMissing
  <1>9. CASE \E o \in Numbers : FindTransaction(t, o)
    BY <1>9, <1>4 DEF FindTransaction
  <1>10. CASE UploadAnswered(t)
    BY <1>10, <1>4 DEF UploadAnswered, Goto
  <1>11. CASE DeskFails(t)
    BY <1>11, <1>4 DEF DeskFails, Goto
  <1>12. CASE DeleteTransaction(t)
    BY <1>12, <1>4 DEF DeleteTransaction, Goto
  <1>13. CASE StartReset(t)
    BY <1>13, <1>4 DEF StartReset, Goto
  <1>14. CASE ResetOrders(t)
    BY <1>14, <1>4 DEF ResetOrders, Goto
  <1>15. CASE ResetNotices(t)
    BY <1>15, <1>4 DEF ResetNotices, Goto
  <1>16. CASE ResetAudit(t)
    BY <1>16, <1>4 DEF ResetAudit, Goto
  <1> QED
    BY <1>2, <1>3, <1>5, <1>6, <1>7, <1>8, <1>9, <1>10, <1>11, <1>12, <1>13, <1>14, <1>15, <1>16
    DEF Office

(* StatsStep: no step makes a request count more payments than orders.          *)
LEMMA StatsStep == StatsInv /\ Shaped /\ ToldInv /\ [OfficeNext]_officeVars => StatsInv'
  <1> SUFFICES ASSUME StatsInv, Shaped, ToldInv, [OfficeNext]_officeVars PROVE StatsInv'
    OBVIOUS
  <1>1. \A t \in Desks : desk'[t] = desk[t] => Counted(t)'
    BY CountedKept
  <1>2. \A t \in Desks : Office(t) => Counted(t)' /\ \A u \in Desks \ {t} : desk'[u] = desk[u]
    BY CountedMoved, Requests
  <1>3. ASSUME NEW o \in Numbers, Trade(o) \/ Handle(o)
        PROVE  desk' = desk
    BY <1>3 DEF Trade, Handle, Create, BookOrder, RefundOrder, Announced, Hold, SaveHeld
  <1>4. \A t \in Desks : Counted(t)'
    BY <1>1, <1>2, <1>3 DEF OfficeNext, officeVars
  <1> QED
    BY <1>4, Turnover DEF StatsInv

(* What the loop over the bill says of the first n - 1 lines of d's bill, which   *)
(* orders they name, and what the loop over the orders says of the others.      *)
SaidOf(d, n) ==
  {<<d.bill[k].trade, d.bill[k].number, Verdict(d.local, d.bill[k])>> : k \in 1..(n - 1)}
Named(d, n) == {d.bill[k].number : k \in 1..(n - 1)}
SaidMissing(d) ==
  {<<TradeOf[o], o, "missing_upstream">> : o \in d.seen \ Named(d, Len(d.bill) + 1)}
Mine(t) == {<<r.trade, r.number, r.verdict>> : r \in {q \in records : q.by = t}}

KindAt(t) ==
  /\ desk[t].at \in {"rows", "rest"} => KindOf[t] = "upload"
  /\ desk[t].at = "delete" => KindOf[t] = "delete"
  /\ desk[t].at \in {"orders", "notices", "audit"} => KindOf[t] = "reset"
  /\ desk[t].at = "paid" => KindOf[t] = "stats"

(* Compared(t): what t recorded is what it has said so far; in the first loop it  *)
(* has met the orders that those lines name, after it every order that the bill *)
(* names, and once answered every order.                                     *)
Compared(t) ==
  LET d == desk[t] IN
  /\ d.bill \in Bills \union {<<>>} /\ d.next \in 1..(Len(d.bill) + 1)
  /\ d.seen \subseteq DOMAIN d.local
  /\ KindAt(t)
  /\ Mine(t) = SaidOf(d, d.next) \union SaidMissing(d)
  /\ d.at = "idle" => d.bill = <<>> /\ d.next = 1 /\ d.seen = {}
  /\ d.at = "rows" => d.seen = Named(d, d.next) \intersect DOMAIN d.local
  /\ d.at = "rest" \/ (d.at = "done" /\ KindOf[t] = "upload") =>
       d.next = Len(d.bill) + 1 /\ Named(d, d.next) \intersect DOMAIN d.local \subseteq d.seen
  /\ d.at = "done" /\ KindOf[t] = "upload" => d.seen = DOMAIN d.local

(* LenNat: a bill has a length.                                              *)
LEMMA LenNat == \A bill \in Bills \union {<<>>} : Len(bill) \in Nat
  BY BillAssumption

(* ComparedKept: the records and the desk of a request are its own.             *)
LEMMA ComparedKept ==
  ASSUME NEW t, Compared(t), desk'[t] = desk[t],
         records' = records \/ \E r : records' = records \union {r} /\ r.by # t
  PROVE  Compared(t)'
  <1>1. Mine(t)' = Mine(t)
    BY DEF Mine
  <1> QED
    BY <1>1 DEF Compared, KindAt, SaidOf, SaidMissing, Named, Verdict

(* Recorder: only an upload records, in its own name.                         *)
LEMMA Recorder ==
  ASSUME Shaped, NEW t \in Desks, Office(t)
  PROVE  records' = records \/ \E r : records' = records \union {r} /\ r.by = t
  <1> USE DEF orderVars
  <1>1. CASE RecordLine(t)
    BY <1>1 DEF RecordLine, Recorded
  <1>2. CASE \E o \in Numbers : RecordMissing(t, o)
    BY <1>2 DEF RecordMissing, Recorded
  <1> QED
    BY <1>1, <1>2 DEF Office, UploadBill, EndLines, FindTransaction, UploadAnswered, DeskFails,
       DeleteTransaction, StartReset, ResetOrders, ResetNotices, ResetAudit, CountOrders, CountPaid

(* ComparedMoved: a step of the request keeps them in agreement.                *)
LEMMA ComparedMoved ==
  ASSUME Shaped, NEW t \in Desks, Compared(t), Office(t)
  PROVE  Compared(t)'
  <1> USE DEF Shaped, DeskFields
  <1>1. /\ desk[t].bill \in Bills \union {<<>>} /\ Len(desk[t].bill) \in Nat
        /\ desk[t].next \in 1..(Len(desk[t].bill) + 1)
        /\ desk[t].seen \subseteq DOMAIN desk[t].local
        /\ KindAt(t)
    BY LenNat DEF Compared
  <1>2. ASSUME /\ desk'[t].bill = desk[t].bill /\ desk'[t].next = desk[t].next
               /\ desk'[t].local = desk[t].local /\ desk'[t].seen = desk[t].seen
               /\ records' = records /\ KindAt(t)'
               /\ \/ desk'[t].at \notin {"idle", "rows", "rest", "done"}
                  \/ desk'[t].at = "done" /\ KindOf[t] # "upload"
        PROVE  Compared(t)'
    <2>1. /\ Mine(t)' = Mine(t)
          /\ SaidOf(desk[t], desk[t].next)' = SaidOf(desk[t], desk[t].next)
          /\ SaidMissing(desk[t])' = SaidMissing(desk[t])
      BY <1>2 DEF Mine, SaidOf, SaidMissing, Named, Verdict
    <2> QED
      BY <1>2, <2>1 DEF Compared
  <1>3. ASSUME NEW bill \in Bills, UploadBill(t, bill)
        PROVE  Compared(t)'
    <2>1. /\ desk'[t].bill = bill /\ desk'[t].next = 1 /\ desk'[t].seen = {}
          /\ desk'[t].at = "rows" /\ records' = records /\ KindOf[t] = "upload"
          /\ desk[t].bill = <<>> /\ desk[t].next = 1 /\ desk[t].seen = {}
      BY <1>3 DEF UploadBill, Compared
    <2>2. Mine(t)' = {}
      <3>1. SaidOf(desk[t], desk[t].next) = {} /\ SaidMissing(desk[t]) = {}
        BY <2>1 DEF SaidOf, SaidMissing
      <3> QED
        BY <2>1, <3>1 DEF Mine, Compared
    <2>3. /\ SaidOf(desk[t], desk[t].next)' = {} /\ SaidMissing(desk[t])' = {}
          /\ Named(desk[t], desk[t].next)' = {}
      BY <2>1 DEF SaidOf, SaidMissing, Named
    <2>4. Len(bill) \in Nat
      BY LenNat
    <2> QED
      BY <2>1, <2>2, <2>3, <2>4 DEF Compared, KindAt
  <1>4. CASE RecordLine(t)
    <2> DEFINE d == desk[t]  line == d.bill[d.next]
    <2>1. /\ d.at = "rows" /\ d.next <= Len(d.bill) /\ d.next \in Nat /\ d.next >= 1
          /\ d'.at = "rows" /\ d'.bill = d.bill /\ d'.local = d.local /\ d'.next = d.next + 1
          /\ d'.seen = d.seen \union ({line.number} \intersect DOMAIN d.local)
      BY <1>1, <1>4 DEF RecordLine, Met
    <2>2. Mine(t)' = Mine(t) \union {<<line.trade, line.number, Verdict(d.local, line)>>}
      <3> DEFINE r == [number |-> line.number, trade |-> line.trade, by |-> t,
                       verdict |-> Verdict(d.local, line)]
      <3>1. records' = records \union {r}
        BY <1>4, Zenon DEF RecordLine, Recorded
      <3> HIDE DEF line, d
      <3>2. /\ r.by = t /\ r.trade = line.trade /\ r.number = line.number
            /\ r.verdict = Verdict(d.local, line)
        OBVIOUS
      <3> HIDE DEF r
      <3> QED
        BY <3>1, <3>2 DEF Mine
    <2>3. SaidOf(d', d'.next) =
            SaidOf(d, d.next) \union {<<line.trade, line.number, Verdict(d.local, line)>>}
      <3>1. 1..(d'.next - 1) = (1..(d.next - 1)) \union {d.next}
        BY <2>1
      <3> QED
        BY <2>1, <3>1 DEF SaidOf
    <2>4. Named(d', d'.next) = Named(d, d.next) \union {line.number}
      <3>1. 1..(d'.next - 1) = (1..(d.next - 1)) \union {d.next}
        BY <2>1
      <3> QED
        BY <2>1, <3>1 DEF Named
    <2>5. /\ SaidMissing(d) = {} /\ SaidMissing(d') = {}
      <3>1. Named(d, d.next) \subseteq Named(d, Len(d.bill) + 1)
        BY <1>1, <2>1 DEF Named
      <3>2. line.number \in Named(d, Len(d.bill) + 1)
        BY <1>1, <2>1 DEF Named
      <3>3. Named(d', Len(d'.bill) + 1) = Named(d, Len(d.bill) + 1)
        BY <2>1 DEF Named
      <3>4. d.seen \subseteq Named(d, d.next)
        BY <2>1 DEF Compared
      <3> QED
        BY <2>1, <3>1, <3>2, <3>3, <3>4 DEF SaidMissing
    <2>6. d.seen = Named(d, d.next) \intersect DOMAIN d.local
      BY <2>1 DEF Compared
    <2>7. d'.seen = Named(d', d'.next) \intersect DOMAIN d'.local
      BY <2>1, <2>4, <2>6
    <2>8. Mine(t) = SaidOf(d, d.next) \union SaidMissing(d)
      BY DEF Compared
    <2>9. Mine(t)' = SaidOf(d', d'.next) \union SaidMissing(d')
      BY <2>2, <2>3, <2>5, <2>8
    <2>10. d'.next \in 1..(Len(d'.bill) + 1)
      BY <1>1, <2>1
    <2> HIDE DEF line
    <2> QED
      BY <1>1, <2>1, <2>7, <2>9, <2>10 DEF Compared, KindAt
  <1>5. CASE EndLines(t)
    <2>1. /\ desk'[t].bill = desk[t].bill /\ desk'[t].next = desk[t].next
          /\ desk'[t].local = desk[t].local /\ desk'[t].seen = desk[t].seen
          /\ records' = records /\ desk[t].at = "rows" /\ desk'[t].at = "rest"
          /\ desk[t].next = Len(desk[t].bill) + 1
      BY <1>1, <1>5 DEF EndLines, Goto
    <2>2. /\ Mine(t)' = Mine(t)
          /\ SaidOf(desk[t], desk[t].next)' = SaidOf(desk[t], desk[t].next)
          /\ SaidMissing(desk[t])' = SaidMissing(desk[t])
          /\ Named(desk[t], desk[t].next)' = Named(desk[t], desk[t].next)
      BY <2>1 DEF Mine, SaidOf, SaidMissing, Named, Verdict
    <2> QED
      BY <2>1, <2>2 DEF Compared, KindAt
  <1>6. ASSUME NEW o \in Numbers, RecordMissing(t, o)
        PROVE  Compared(t)'
    <2> DEFINE d == desk[t]
    <2>1. /\ d.at = "rest" /\ d'.at = "rest" /\ d'.bill = d.bill /\ d'.local = d.local
          /\ d'.next = d.next /\ d'.seen = d.seen \union {o} /\ o \in DOMAIN d.local \ d.seen
      BY <1>6 DEF RecordMissing
    <2>2. Mine(t)' = Mine(t) \union {<<TradeOf[o], o, "missing_upstream">>}
      <3> DEFINE r == [number |-> o, trade |-> TradeOf[o], by |-> t,
                       verdict |-> "missing_upstream"]
      <3>1. records' = records \union {r}
        BY <1>6, Zenon DEF RecordMissing, Recorded
      <3>2. r.by = t /\ r.trade = TradeOf[o] /\ r.number = o /\ r.verdict = "missing_upstream"
        OBVIOUS
      <3> HIDE DEF r
      <3> QED
        BY <3>1, <3>2 DEF Mine
    <2>3. /\ d.next = Len(d.bill) + 1 /\ Named(d, d.next) \intersect DOMAIN d.local \subseteq d.seen
          /\ Mine(t) = SaidOf(d, d.next) \union SaidMissing(d)
      BY <2>1 DEF Compared
    <2>4. /\ SaidOf(d', d'.next) = SaidOf(d, d.next) /\ Named(d', d'.next) = Named(d, d.next)
          /\ Named(d', Len(d'.bill) + 1) = Named(d, d.next)
      BY <2>1, <2>3 DEF SaidOf, Named
    <2>5. SaidMissing(d') = SaidMissing(d) \union {<<TradeOf[o], o, "missing_upstream">>}
      BY <2>1, <2>3, <2>4 DEF SaidMissing
    <2>6. /\ d'.seen \subseteq DOMAIN d'.local
          /\ Named(d', d'.next) \intersect DOMAIN d'.local \subseteq d'.seen
      BY <1>1, <2>1, <2>3, <2>4
    <2>7. Mine(t)' = SaidOf(d', d'.next) \union SaidMissing(d')
      BY <2>2, <2>3, <2>4, <2>5
    <2> QED
      BY <1>1, <2>1, <2>3, <2>6, <2>7 DEF Compared, KindAt
  <1>7. CASE UploadAnswered(t)
    <2>1. /\ desk'[t].bill = desk[t].bill /\ desk'[t].next = desk[t].next
          /\ desk'[t].local = desk[t].local /\ desk'[t].seen = desk[t].seen
          /\ records' = records /\ desk[t].at = "rest" /\ desk'[t].at = "done"
          /\ desk[t].seen = DOMAIN desk[t].local
      BY <1>7 DEF UploadAnswered, Goto
    <2>2. /\ Mine(t)' = Mine(t)
          /\ SaidOf(desk[t], desk[t].next)' = SaidOf(desk[t], desk[t].next)
          /\ SaidMissing(desk[t])' = SaidMissing(desk[t])
          /\ Named(desk[t], desk[t].next)' = Named(desk[t], desk[t].next)
      BY <2>1 DEF Mine, SaidOf, SaidMissing, Named, Verdict
    <2> QED
      BY <2>1, <2>2 DEF Compared, KindAt
  <1> USE DEF KindAt, orderVars
  <1>8. CASE DeskFails(t)
    BY <1>1, <1>2, <1>8 DEF DeskFails, Goto
  <1>9. CASE \E o \in Numbers : FindTransaction(t, o)
    BY <1>1, <1>2, <1>9 DEF FindTransaction
  <1>10. CASE DeleteTransaction(t)
    BY <1>1, <1>2, <1>10 DEF DeleteTransaction, Goto
  <1>11. CASE StartReset(t)
    BY <1>1, <1>2, <1>11 DEF StartReset, Goto
  <1>12. CASE ResetOrders(t)
    BY <1>1, <1>2, <1>12 DEF ResetOrders, Goto
  <1>13. CASE ResetNotices(t)
    BY <1>1, <1>2, <1>13 DEF ResetNotices, Goto
  <1>14. CASE ResetAudit(t)
    BY <1>1, <1>2, <1>14 DEF ResetAudit, Goto
  <1>15. CASE CountOrders(t)
    BY <1>1, <1>2, <1>15 DEF CountOrders
  <1>16. CASE CountPaid(t)
    BY <1>1, <1>2, <1>16 DEF CountPaid
  <1> QED
    BY <1>3, <1>4, <1>5, <1>6, <1>7, <1>8, <1>9, <1>10, <1>11, <1>12, <1>13, <1>14, <1>15, <1>16 DEF Office

(* ComparedStep: records and desks agree whoever moves.                         *)
LEMMA ComparedStep ==
  Shaped /\ (\A t \in Desks : Compared(t)) /\ [OfficeNext]_officeVars =>
    (\A t \in Desks : Compared(t))'
  <1> SUFFICES ASSUME Shaped, \A t \in Desks : Compared(t), [OfficeNext]_officeVars,
                      NEW t \in Desks
               PROVE  Compared(t)'
    OBVIOUS
  <1>1. CASE Office(t)
    BY <1>1, ComparedMoved
  <1>2. ASSUME NEW u \in Desks, u # t, Office(u)
        PROVE  Compared(t)'
    <2>1. desk'[t] = desk[t]
      BY <1>2, Requests
    <2>2. records' = records \/ \E r : records' = records \union {r} /\ r.by = u
      BY <1>2, Recorder
    <2> QED
      BY <1>2, <2>1, <2>2, ComparedKept
  <1>3. CASE desk' = desk /\ records' = records
    BY <1>3, ComparedKept
  <1>4. ASSUME NEW o \in Numbers, Trade(o) \/ Handle(o)
        PROVE  desk' = desk /\ records' = records
    BY <1>4 DEF Trade, Handle, Create, BookOrder, RefundOrder, Announced, Hold, SaveHeld
  <1> QED
    BY <1>1, <1>2, <1>3, <1>4 DEF OfficeNext, officeVars

RowFields == {"status", "amount"}

(* RowsTyped: what is stored is of its type, the copies that handlers hold too.     *)
RowsTyped ==
  /\ used \subseteq Numbers
  /\ \A o \in DOMAIN rows : /\ DOMAIN rows[o] = RowFields
                            /\ rows[o].status \in States /\ rows[o].amount \in Amounts
  /\ \A o \in DOMAIN held : /\ DOMAIN held[o] = RowFields
                            /\ held[o].status \in States /\ held[o].amount \in Amounts
  /\ announcing \subseteq used /\ notices \subseteq used /\ untold \subseteq used
  /\ \A r \in records : r.number \in Numbers /\ r.verdict \in Verdicts /\ r.by \in Desks
  /\ \A t \in Desks :
       desk[t].at \in {"idle", "rows", "rest", "delete", "orders", "notices", "audit",
                       "paid", "done", "failed"}

(* OfficeTyped: a request writes records of the right type and moves to a known state.        *)
LEMMA OfficeTyped ==
  ASSUME Shaped, RowsTyped, NEW t \in Desks, Compared(t), Office(t)
  PROVE  /\ \A r \in records' \ records :
              r.number \in Numbers /\ r.verdict \in Verdicts /\ r.by \in Desks
         /\ notices' \subseteq notices
         /\ desk'[t].at \in {"idle", "rows", "rest", "delete", "orders", "notices", "audit",
                             "paid", "done", "failed"}
  <1> DEFINE Fine(r) == r.number \in Numbers /\ r.verdict \in Verdicts /\ r.by \in Desks
             InOrder == desk'[t].at \in {"idle", "rows", "rest", "delete", "orders", "notices", "audit",
                             "paid", "done", "failed"}
             Goal == (\A r \in records' \ records : Fine(r)) /\ notices' \subseteq notices /\ InOrder
  <1> SUFFICES Goal
    OBVIOUS
  <1> USE DEF Shaped, DeskFields, orderVars
  <1>1. CASE RecordLine(t)
    <2> DEFINE line == desk[t].bill[desk[t].next]
               r == [number |-> line.number, trade |-> line.trade, by |-> t,
                     verdict |-> Verdict(desk[t].local, line)]
    <2>1. records' = records \union {r}
      BY <1>1, Zenon DEF RecordLine, Recorded
    <2>2. InOrder /\ notices' = notices
      BY <1>1 DEF RecordLine, RowsTyped
    <2>3. line.number \in Numbers
      <3>1. /\ desk[t].bill \in Bills \union {<<>>} /\ desk[t].next \in 1..Len(desk[t].bill)
        BY <1>1, LenNat DEF RecordLine, Compared
      <3>2. desk[t].bill # <<>>
        BY <3>1
      <3>3. desk[t].bill \in Seq(Range(desk[t].bill))
        BY <3>1, <3>2, BillAssumption
      <3>4. line \in Range(desk[t].bill)
        BY <3>1, <3>3
      <3> QED
        BY <3>1, <3>2, <3>4, BillAssumption
    <2>4. Verdict(desk[t].local, line) \in Verdicts
      BY DEF Verdict, Verdicts
    <2> HIDE DEF line
    <2>5. Fine(r)
      BY <2>3, <2>4
    <2> HIDE DEF r, Fine, InOrder
    <2> QED
      BY <2>1, <2>2, <2>5
  <1>2. ASSUME NEW o \in Numbers, RecordMissing(t, o)
        PROVE  Goal
    <2> DEFINE r == [number |-> o, trade |-> TradeOf[o], by |-> t, verdict |-> "missing_upstream"]
    <2>1. records' = records \union {r}
      BY <1>2, Zenon DEF RecordMissing, Recorded
    <2>2. InOrder /\ notices' = notices
      BY <1>2 DEF RecordMissing, RowsTyped
    <2>3. Fine(r)
      BY DEF Verdicts
    <2> HIDE DEF r, Fine, InOrder
    <2> QED
      BY <2>1, <2>2, <2>3
  <1>3. CASE \E bill \in Bills : UploadBill(t, bill)
    BY <1>3 DEF UploadBill
  <1>4. CASE EndLines(t)
    BY <1>4 DEF EndLines, Goto
  <1>5. CASE \E o \in Numbers : FindTransaction(t, o)
    BY <1>5 DEF FindTransaction
  <1>6. CASE UploadAnswered(t)
    BY <1>6 DEF UploadAnswered, Goto
  <1>7. CASE DeskFails(t)
    BY <1>7 DEF DeskFails, Goto
  <1>8. CASE DeleteTransaction(t)
    BY <1>8 DEF DeleteTransaction, Goto
  <1>9. CASE StartReset(t)
    BY <1>9 DEF StartReset, Goto
  <1>10. CASE ResetOrders(t)
    BY <1>10 DEF ResetOrders, Goto
  <1>11. CASE ResetNotices(t)
    BY <1>11 DEF ResetNotices, Goto
  <1>12. CASE ResetAudit(t)
    BY <1>12 DEF ResetAudit, Goto
  <1>13. CASE CountOrders(t)
    BY <1>13 DEF CountOrders
  <1>14. CASE CountPaid(t)
    BY <1>14 DEF CountPaid
  <1> HIDE DEF Goal
  <1> QED
    BY <1>1, <1>2, <1>3, <1>4, <1>5, <1>6, <1>7, <1>8, <1>9, <1>10, <1>11, <1>12, <1>13, <1>14 DEF Office

(* RowsTypedStep: orders, records and desks keep their types.                   *)
LEMMA RowsTypedStep ==
  Shaped /\ ToldInv /\ (\A t \in Desks : Compared(t)) /\ RowsTyped /\ [OfficeNext]_officeVars => RowsTyped'
  <1> DEFINE Goal == RowsTyped'
  <1> SUFFICES ASSUME Shaped, ToldInv, \A t \in Desks : Compared(t), RowsTyped, [OfficeNext]_officeVars
               PROVE  Goal
    OBVIOUS
  <1>1. ASSUME NEW o \in Numbers, NEW amount \in Amounts, Create(o, amount)
        PROVE  Goal
    <2>1. /\ used' = used \union {o}
          /\ UNCHANGED <<held, announcing, notices, untold, records, desk>>
      BY <1>1 DEF Create
    <2>2. /\ DOMAIN rows' = DOMAIN rows \union {o}
          /\ rows'[o].status = "Pending" /\ rows'[o].amount = amount
          /\ DOMAIN rows'[o] = RowFields
          /\ \A k \in DOMAIN rows : k # o => rows'[k] = rows[k]
      BY <1>1 DEF Create, With, RowFields
    <2> QED
      BY <2>1, <2>2 DEF RowsTyped, States
  <1>2. ASSUME NEW o \in Numbers, BookOrder(o) \/ RefundOrder(o), o \in DOMAIN rows
        PROVE  Goal
    <2>1. /\ DOMAIN rows' = DOMAIN rows
          /\ rows' = [rows EXCEPT ![o].status = "Paid"] \/ rows' = [rows EXCEPT ![o].status = "Refunding"]
          /\ announcing' = announcing \/ announcing' = announcing \union {o}
          /\ UNCHANGED <<used, held, notices, untold, records, desk>>
      BY <1>2 DEF BookOrder, RefundOrder
    <2>2. /\ DOMAIN rows[o] = RowFields
          /\ \A k \in DOMAIN rows : k # o => rows'[k] = rows[k]
      BY <1>2, <2>1 DEF RowsTyped
    <2>3. /\ rows'[o].status \in States /\ rows'[o].amount = rows[o].amount
          /\ DOMAIN rows'[o] = RowFields
      BY <1>2, <2>1, <2>2 DEF RowFields, States
    <2> QED
      BY <1>2, <2>1, <2>2, <2>3 DEF RowsTyped, ToldInv
  <1>3. ASSUME NEW o \in Numbers, Announced(o)
        PROVE  Goal
    BY <1>3 DEF Announced, RowsTyped
  <1>4. ASSUME NEW o \in Numbers, Hold(o)
        PROVE  Goal
    <2>1. /\ o \in DOMAIN rows /\ DOMAIN held' = DOMAIN held \union {o}
          /\ held'[o] = rows[o] /\ \A k \in DOMAIN held : k # o => held'[k] = held[k]
          /\ UNCHANGED <<rows, used, announcing, notices, untold, records, desk>>
      BY <1>4 DEF Hold, With, Present
    <2> QED
      BY <2>1 DEF RowsTyped
  <1>5. ASSUME NEW o \in Numbers, SaveHeld(o)
        PROVE  Goal
    <2>1. /\ o \in DOMAIN held
          /\ untold' = untold \/ untold' = untold \union {o}
          /\ UNCHANGED <<used, announcing, notices, records, desk>>
      BY <1>5 DEF SaveHeld
    <2>2. /\ DOMAIN rows' = DOMAIN rows \union {o} /\ rows'[o] = held[o]
          /\ \A k \in DOMAIN rows : k # o => rows'[k] = rows[k]
      BY <1>5 DEF SaveHeld, With
    <2>3. DOMAIN held' = DOMAIN held \ {o} /\ \A k \in DOMAIN held' : held'[k] = held[k]
      BY <1>5 DEF SaveHeld, Restrict
    <2> QED
      BY <2>1, <2>2, <2>3 DEF RowsTyped, ToldInv
  <1>6. ASSUME NEW t \in Desks, Office(t)
        PROVE  Goal
    <2>1. /\ UNCHANGED <<used, held, announcing, untold>>
          /\ DOMAIN rows' \subseteq DOMAIN rows
          /\ \A o \in DOMAIN rows' : rows'[o] = rows[o]
          /\ \A u \in Desks \ {t} : desk'[u] = desk[u]
      BY <1>6, Requests
    <2>2. /\ \A r \in records' \ records :
               r.number \in Numbers /\ r.verdict \in Verdicts /\ r.by \in Desks
          /\ notices' \subseteq notices
          /\ desk'[t].at \in {"idle", "rows", "rest", "delete", "orders", "notices", "audit",
                             "paid", "done", "failed"}
      BY <1>6, OfficeTyped
    <2> QED
      BY <2>1, <2>2 DEF RowsTyped
  <1>7. CASE UNCHANGED officeVars
    BY <1>7 DEF officeVars, RowsTyped
  <1> HIDE DEF Goal
  <1> QED
    BY <1>1, <1>2, <1>3, <1>4, <1>5, <1>6, <1>7
    DEF OfficeNext, Trade, Handle, BookOrder, RefundOrder, Paid, Present

(* OfficeStarts: the parts of the invariant hold before any request.             *)
LEMMA OfficeStarts ==
  OfficeInit => Shaped /\ ToldInv /\ StatsInv /\ (\A t \in Desks : Compared(t)) /\ RowsTyped
  <1> SUFFICES ASSUME OfficeInit
               PROVE  Shaped /\ ToldInv /\ StatsInv /\ (\A t \in Desks : Compared(t)) /\ RowsTyped
    OBVIOUS
  <1>1. DOMAIN rows = {} /\ DOMAIN held = {} /\ inserts = 0
    BY DEF OfficeInit
  <1>2. Shaped
    BY DEF OfficeInit, Shaped, DeskFields
  <1>3. ToldInv
    BY <1>1 DEF ToldInv
  <1>4. StatsInv
    <2>1. \A t \in Desks : Counted(t)
      BY DEF OfficeInit, Counted
    <2> QED
      BY <1>1, <2>1, FS_EmptySet DEF StatsInv, Present
  <1>5. ASSUME NEW t \in Desks
        PROVE  Compared(t)
    <2>1. /\ desk[t].at = "idle" /\ desk[t].bill = <<>> /\ desk[t].next = 1 /\ desk[t].seen = {}
          /\ records = {}
      BY DEF OfficeInit
    <2>2. Mine(t) = {} /\ SaidOf(desk[t], desk[t].next) = {} /\ SaidMissing(desk[t]) = {}
      BY <2>1 DEF Mine, SaidOf, SaidMissing
    <2> QED
      BY <2>1, <2>2, LenNat DEF Compared, KindAt
  <1>6. RowsTyped
    BY <1>1 DEF OfficeInit, RowsTyped
  <1> QED
    BY <1>2, <1>3, <1>4, <1>5, <1>6

OfficeInv == Shaped /\ ToldInv /\ StatsInv /\ (\A t \in Desks : Compared(t)) /\ RowsTyped

(* OfficeInvariant: the inductive invariant of the back office.                 *)
LEMMA OfficeInvariant == OfficeSpec => []OfficeInv
  <1>1. OfficeInit => OfficeInv
    BY OfficeStarts DEF OfficeInv
  <1>2. OfficeInv /\ [OfficeNext]_officeVars => OfficeInv'
    BY ShapedStep, ToldStep, StatsStep, ComparedStep, RowsTypedStep DEF OfficeInv
  <1> QED
    BY <1>1, <1>2, PTL DEF OfficeSpec

(* What the requests over the orders store, and where each of them stands.       *)
THEOREM OfficeTypes == OfficeSpec => []OfficeTypeOK
  <1>1. OfficeInv => OfficeTypeOK
    BY DEF OfficeInv, ToldInv, StatsInv, Compared, RowsTyped, OfficeTypeOK, Present
  <1> QED
    BY <1>1, OfficeInvariant, PTL

(* A reset does not silence a merchant whose order is left, whatever else the   *)
(* handlers, refunds and requests do between its three deletes.              *)
THEOREM PaidTold == OfficeSpec => []PaidIsTold
  <1>1. OfficeInv => PaidIsTold
    BY DEF OfficeInv, ToldInv, Told, PaidIsTold, Paid, Present
  <1> QED
    BY <1>1, OfficeInvariant, PTL

(* The figures that the overview of an administrator shows: no more successes   *)
(* than orders, but for the orders inserted between the two queries.           *)
THEOREM StatsAgree == OfficeSpec => []StatsPlausible
  <1>1. OfficeInv => StatsPlausible
    BY DEF OfficeInv, StatsInv, Counted, StatsPlausible
  <1> QED
    BY <1>1, OfficeInvariant, PTL

(* Two uploads of a day may run at once and each may break off: what each has    *)
(* recorded is what its own comparison says, and all of it once answered.       *)
THEOREM UploadsRight == OfficeSpec => []UploadMatchesReference
  <1>1. OfficeInv => UploadMatchesReference
    <2> SUFFICES ASSUME \A t \in Desks : Compared(t), NEW t \in Desks
                 PROVE  /\ Mine(t) \subseteq Reference(desk[t])
                        /\ desk[t].at = "done" /\ KindOf[t] = "upload" => Mine(t) = Reference(desk[t])
      BY DEF OfficeInv, UploadMatchesReference, Mine
    <2> DEFINE d == desk[t]  all == Len(d.bill) + 1
    <2>1. /\ Len(d.bill) \in Nat /\ d.next \in 1..all /\ d.seen \subseteq DOMAIN d.local
          /\ Mine(t) = SaidOf(d, d.next) \union SaidMissing(d)
      BY LenNat DEF Compared
    <2>2. Reference(d) = SaidOf(d, all) \union
            {<<TradeOf[o], o, "missing_upstream">> : o \in DOMAIN d.local \ Named(d, all)}
      BY <2>1 DEF Reference, SaidOf, Named
    <2>3. SaidOf(d, d.next) \subseteq SaidOf(d, all)
      BY <2>1 DEF SaidOf
    <2>4. CASE d.at = "done" /\ KindOf[t] = "upload"
      <3>1. d.next = all /\ d.seen = DOMAIN d.local
        BY <2>4 DEF Compared
      <3> QED
        BY <2>1, <2>2, <2>4, <3>1 DEF SaidMissing
    <2> QED
      BY <2>1, <2>2, <2>3, <2>4 DEF SaidMissing
  <1> QED
    BY <1>1, OfficeInvariant, PTL
-----------------------------------------------------------------------------
(* The administration pages: a list and its deeds.                              *)

LoadFields == {"view", "at", "revision", "kind"}
ScreenFields == {"view", "due", "dialog", "submitting", "errors"}

Underway(n) == loads[n].at \in {"sent", "served"}

(* Listed: the requests for the list are numbered in their order.                *)
Listed ==
  /\ Issued \in 0..MaxLoads /\ DOMAIN loads = 1..Issued
  /\ \A n \in DOMAIN loads :
       \/ loads[n].at = "over"
       \/ /\ Underway(n) /\ DOMAIN loads[n] = LoadFields
          /\ loads[n].view \in Views /\ loads[n].revision \in 0..revision
  /\ DOMAIN shown = {"number", "view", "revision"}
  /\ shown.number \in 0..Issued /\ shown.revision \in 0..revision
  /\ revision \in 0..MaxRevision /\ heard \in 0..revision

(* PageKept: the rest of the page, and the deeds begun on it.                     *)
PageKept ==
  /\ DOMAIN screen = ScreenFields
  /\ screen.view \in Views
  /\ screen.dialog \in {"closed", "open"} /\ screen.errors \in Nat
  /\ DOMAIN deed = Deeds
  /\ \A d \in Deeds :
       \/ deed[d].at = "idle"
       \/ /\ deed[d].at \in {"sent", "done", "refused"}
          /\ DOMAIN deed[d] = {"at", "view", "revision"}
          /\ deed[d].view \in Views /\ deed[d].revision \in 0..revision

(* Newest: the last request for the list, if it was not a deed's, asks for what   *)
(* the screen shows unless another is due; its answer has all that was heard of.  *)
Newest ==
  /\ Issued = 0 => screen.due
  /\ ~ screen.due /\ Issued > 0 /\ loads[Issued].kind = "plain" =>
       /\ Underway(Issued) => loads[Issued].view = screen.view
       /\ shown.number = Issued => shown.view = screen.view
  /\ Issued > 0 /\ loads[Issued].at = "served" => loads[Issued].revision >= heard
  /\ shown.number = Issued => shown.revision >= heard

(* LoadListed: a request for the list is the newest one.                         *)
LEMMA LoadListed ==
  ASSUME Listed, NEW v \in Views, NEW kind, LoadList(v, kind)
  PROVE  /\ Issued' = Issued + 1 /\ Issued' \in 1..MaxLoads
         /\ DOMAIN loads' = 1..Issued'
         /\ \A n \in DOMAIN loads : loads'[n] = loads[n]
         /\ loads'[Issued'] = [view |-> v, at |-> "sent", revision |-> 0, kind |-> kind]
  <1>1. Issued \in Nat /\ Issued < MaxLoads /\ DOMAIN loads = 1..Issued
    BY ConsoleAssumption DEF Listed, LoadList
  <1>2. loads' = [n \in 1..Issued + 1 |->
                   IF n <= Issued THEN loads[n]
                   ELSE [view |-> v, at |-> "sent", revision |-> 0, kind |-> kind]]
    BY DEF LoadList
  <1>3. DOMAIN loads' = 1..(Issued + 1)
    BY <1>2
  <1>4. Cardinality(1..(Issued + 1)) = Issued + 1
    <2>1. /\ 1 \in Int /\ Issued + 1 \in Int /\ ~ (1 > Issued + 1)
      BY <1>1
    <2>2. Cardinality(1..(Issued + 1)) = (Issued + 1) - 1 + 1
      BY <2>1, FS_Interval
    <2> QED
      BY <1>1, <2>2
  <1>5. Issued' = Issued + 1
    BY <1>3, <1>4 DEF Issued
  <1> HIDE DEF Issued
  <1>6. Issued' \in 1..MaxLoads
    BY <1>1, <1>5, ConsoleAssumption
  <1>7. \A n \in DOMAIN loads : loads'[n] = loads[n]
    BY <1>1, <1>2
  <1>8. loads'[Issued'] = [view |-> v, at |-> "sent", revision |-> 0, kind |-> kind]
    BY <1>1, <1>2, <1>5
  <1> QED
    BY <1>3, <1>5, <1>6, <1>7, <1>8

(* LoadKept: and it keeps the lists in order, while nothing else happens.        *)
LEMMA LoadKept ==
  ASSUME Listed, NEW v \in Views, NEW kind, LoadList(v, kind),
         shown' = shown, revision' = revision, heard' \in 0..revision
  PROVE  Listed'
  <1>1. /\ Issued' = Issued + 1 /\ Issued' \in 1..MaxLoads
        /\ DOMAIN loads' = 1..Issued'
        /\ \A n \in DOMAIN loads : loads'[n] = loads[n]
        /\ loads'[Issued'] = [view |-> v, at |-> "sent", revision |-> 0, kind |-> kind]
    BY LoadListed
  <1>2. /\ Issued \in Nat /\ DOMAIN loads = 1..Issued /\ MaxLoads \in Nat
        /\ MaxRevision \in Nat
    BY ConsoleAssumption DEF Listed
  <1>3. /\ loads'[Issued'].at = "sent" /\ DOMAIN loads'[Issued'] = LoadFields
        /\ loads'[Issued'].view = v /\ loads'[Issued'].revision = 0
    BY <1>1 DEF LoadFields
  <1> HIDE DEF Issued
  <1>4. ASSUME NEW n \in DOMAIN loads'
        PROVE  \/ loads'[n].at = "over"
               \/ /\ Underway(n)' /\ DOMAIN loads'[n] = LoadFields
                  /\ loads'[n].view \in Views /\ loads'[n].revision \in 0..revision'
    <2>1. CASE n = Issued'
      BY <1>2, <1>3, <2>1 DEF Underway, Listed
    <2>2. CASE n # Issued'
      <3>1. n \in DOMAIN loads
        BY <1>1, <1>2, <2>2
      <3> QED
        BY <1>1, <3>1 DEF Underway, Listed
    <2> QED
      BY <2>1, <2>2
  <1> QED
    BY <1>1, <1>2, <1>4 DEF Listed

(* ListedSame: the lists do not care for dialogs, nor for what happens elsewhere.  *)
LEMMA ListedSame ==
  ASSUME Listed, UNCHANGED <<loads, shown, heard>>, revision' \in revision..MaxRevision
  PROVE  Listed'
  <1>1. Issued' = Issued /\ revision \in Nat
    BY ConsoleAssumption DEF Issued, Listed
  <1>2. \A n \in 0..revision : n \in 0..revision'
    BY <1>1, ConsoleAssumption DEF Listed
  <1>3. revision' \in 0..MaxRevision
    BY <1>1, ConsoleAssumption DEF Listed
  <1> HIDE DEF Issued
  <1> QED
    BY <1>1, <1>2, <1>3 DEF Listed, Underway

(* ViewKept: a new view is one of the views.                                     *)
LEMMA ViewKept ==
  ASSUME PageKept, NEW f \in Filters, NEW p \in 1..Turns
  PROVE  /\ [filter |-> f, page |-> 1] \in Views
         /\ [screen.view EXCEPT !.filter = f] \in Views
         /\ [screen.view EXCEPT !.page = p] \in Views
  <1>1. 1 \in 1..Turns
    BY ConsoleAssumption
  <1> QED
    BY <1>1 DEF Views, PageKept

(* Looked: what a change of the view leaves of the page.                         *)
LEMMA Looked ==
  ASSUME PageKept, NEW v \in Views, ViewChanged(v)
  PROVE  /\ screen'.view = v /\ DOMAIN screen' = ScreenFields
         /\ screen'.dialog = screen.dialog /\ screen'.submitting = screen.submitting
         /\ screen'.errors = screen.errors
         /\ ~ screen'.due => ~ screen.due /\ v = screen.view
         /\ screen.due => screen'.due
         /\ screen.due \in BOOLEAN => screen'.due \in BOOLEAN
  <1>1. /\ screen'.view = v /\ DOMAIN screen' = ScreenFields
        /\ screen'.dialog = screen.dialog /\ screen'.submitting = screen.submitting
        /\ screen'.errors = screen.errors
        /\ screen'.due = (screen.due \/ v # screen.view)
    BY DEF ViewChanged, PageKept, ScreenFields
  <1> QED
    BY <1>1, Zenon

(* ListedStep: the answers shown and awaited stay those of requests that were   *)
(* made, none of them newer than the last.                                  *)
LEMMA ListedStep == Listed /\ PageKept /\ [ScreenNext]_screenVars => Listed'
  <1> DEFINE Goal == Listed'
  <1> SUFFICES ASSUME Listed, PageKept, [ScreenNext]_screenVars PROVE Goal
    OBVIOUS
  <1>1. /\ screen.view \in Views /\ \A d \in Deeds : deed[d].at # "idle" =>
             deed[d].view \in Views /\ deed[d].revision \in 0..revision
        /\ revision \in 0..MaxRevision /\ MaxRevision \in Nat /\ heard \in 0..revision
    BY ConsoleAssumption DEF PageKept, Listed
  <1>2. ASSUME UNCHANGED <<loads, shown, heard>>, revision' = revision
        PROVE  Goal
    <2>1. revision' \in revision..MaxRevision
      BY <1>1, <1>2
    <2> QED
      BY <1>2, <2>1, ListedSame
  <1>3. ASSUME NEW f \in Filters, NEW p \in 1..Turns, Look(f, p)
        PROVE  Goal
    BY <1>2, <1>3 DEF Look, ChooseFilter, TypeKeyword, TurnPage
  <1>4. CASE Search
    <2>1. /\ LoadList(screen.view, "plain") /\ UNCHANGED <<shown, revision, heard>>
      BY <1>4 DEF Search
    <2> QED
      BY <1>1, <2>1, LoadKept
  <1>5. CASE RefreshList
    <2>1. /\ LoadList(screen.view, "plain") /\ UNCHANGED <<shown, revision, heard>>
      BY <1>5 DEF RefreshList
    <2> QED
      BY <1>1, <2>1, LoadKept
  <1>6. CASE Effect
    <2>1. /\ LoadList(screen.view, "plain") /\ UNCHANGED <<shown, revision, heard>>
      BY <1>6 DEF Effect
    <2> QED
      BY <1>1, <2>1, LoadKept
  <1>7. ASSUME NEW n \in DOMAIN loads, ServeList(n)
        PROVE  Goal
    <2>1. /\ UNCHANGED <<shown, revision, heard>> /\ loads[n].at = "sent"
          /\ loads' = [loads EXCEPT ![n].at = "served", ![n].revision = revision]
      BY <1>7 DEF ServeList
    <2>2. DOMAIN loads[n] = LoadFields /\ loads[n].view \in Views
      BY <2>1 DEF Listed, Underway
    <2>3. /\ DOMAIN loads' = DOMAIN loads /\ loads'[n].at = "served" /\ loads'[n].revision = revision
          /\ DOMAIN loads'[n] = LoadFields /\ loads'[n].view = loads[n].view
          /\ \A k \in DOMAIN loads : k # n => loads'[k] = loads[k]
      BY <2>1, <2>2 DEF LoadFields
    <2>4. Issued' = Issued /\ revision \in 0..revision
      BY <1>1, <2>3 DEF Issued
    <2> HIDE DEF Issued
    <2> QED
      BY <2>1, <2>2, <2>3, <2>4 DEF Listed, Underway
  <1>8. ASSUME NEW n \in DOMAIN loads, Over(n), UNCHANGED <<revision, heard>>,
               \/ shown' = shown
               \/ /\ loads[n].at = "served"
                  /\ shown' = [number |-> n, view |-> loads[n].view, revision |-> loads[n].revision]
        PROVE  Goal
    <2>1. /\ DOMAIN loads' = DOMAIN loads /\ loads'[n].at = "over"
          /\ \A k \in DOMAIN loads : k # n => loads'[k] = loads[k]
      BY <1>8 DEF Over
    <2>2. Issued' = Issued
      BY <2>1 DEF Issued
    <2> HIDE DEF Issued
    <2>3. /\ DOMAIN shown' = {"number", "view", "revision"}
          /\ shown'.number \in 0..Issued /\ shown'.revision \in 0..revision
      <3>1. CASE shown' = shown
        BY <3>1 DEF Listed
      <3>2. CASE shown' # shown
        <4>1. n \in 0..Issued /\ loads[n].revision \in 0..revision
          BY <1>8, <3>2 DEF Listed
        <4>2. shown'.number = n /\ shown'.revision = loads[n].revision
          BY <1>8, <3>2
        <4>3. DOMAIN shown' = {"number", "view", "revision"}
          BY <1>8, <3>2
        <4> QED
          BY <4>1, <4>2, <4>3
      <3> QED
        BY <3>1, <3>2
    <2> QED
      BY <1>8, <2>1, <2>2, <2>3 DEF Listed, Underway
  <1>9. CASE OpenDialog \/ CloseDialog
    BY <1>2, <1>9 DEF OpenDialog, CloseDialog
  <1>10. ASSUME NEW d \in Deeds, Submit(d) \/ Press(d) \/ Refuse(d) \/ Err(d)
         PROVE  Goal
    BY <1>2, <1>10 DEF Submit, Press, Refuse, Err
  <1>11. ASSUME revision < MaxRevision, revision' = revision + 1, UNCHANGED <<loads, shown, heard>>
         PROVE  Goal
    <2>1. revision' \in revision..MaxRevision
      BY <1>1, <1>11
    <2> QED
      BY <1>11, <2>1, ListedSame
  <1>12. ASSUME NEW d \in Deeds, Succeed(d)
         PROVE  Goal
    <2>1. /\ deed[d].at = "done" /\ LoadList(deed[d].view, "deed") /\ UNCHANGED <<shown, revision>>
          /\ heard' = heard \/ heard' = deed[d].revision
      BY <1>12 DEF Succeed
    <2> QED
      BY <1>1, <2>1, LoadKept
  <1>13. CASE UNCHANGED screenVars
    BY <1>2, <1>13 DEF screenVars
  <1> HIDE DEF Goal
  <1> QED
    BY <1>3, <1>4, <1>5, <1>6, <1>7, <1>8, <1>9, <1>10, <1>11, <1>12, <1>13
    DEF ScreenNext, Again, List, Deed, ReceiveList, ListFails, Execute, Elsewhere

(* DeedPageKept: one deed moves, or none, and the page keeps its frame.                *)
LEMMA DeedPageKept ==
  ASSUME PageKept, NEW d \in Deeds, DOMAIN deed' = Deeds,
         \A x \in Deeds \ {d} : deed'[x] = deed[x],
         revision \in Nat, revision' \in Nat, revision' >= revision,
         \/ deed'[d].at = "idle"
         \/ /\ deed'[d].at \in {"sent", "done", "refused"}
            /\ DOMAIN deed'[d] = {"at", "view", "revision"}
            /\ deed'[d].view \in Views /\ deed'[d].revision \in 0..revision',
         DOMAIN screen' = ScreenFields, screen'.view = screen.view,
         screen'.dialog \in {"closed", "open"}, screen'.errors \in Nat
  PROVE  PageKept'
  <1>1. \A n \in 0..revision : n \in 0..revision'
    OBVIOUS
  <1> QED
    BY <1>1 DEF PageKept

(* PageStep: what the page and its deeds hold stays of its types.               *)
LEMMA PageStep == Listed /\ PageKept /\ [ScreenNext]_screenVars => PageKept'
  <1> DEFINE Goal == PageKept'
  <1> SUFFICES ASSUME Listed, PageKept, [ScreenNext]_screenVars PROVE Goal
    OBVIOUS
  <1>1. revision \in Nat /\ revision \in 0..revision
    BY ConsoleAssumption DEF Listed
  <1>2. ASSUME deed' = deed, revision' = revision \/ revision' = revision + 1,
               DOMAIN screen' = ScreenFields, screen'.view \in Views,
               screen'.dialog \in {"closed", "open"}, screen'.errors \in Nat
        PROVE  Goal
    <2>1. \A n \in 0..revision : n \in 0..revision'
      BY <1>1, <1>2
    <2> QED
      BY <1>2, <2>1 DEF PageKept
  <1>3. ASSUME NEW v \in Views, ViewChanged(v), UNCHANGED <<deed, revision>>
        PROVE  Goal
    BY <1>2, <1>3, Looked DEF PageKept
  <1>4. ASSUME NEW f \in Filters, NEW p \in 1..Turns, Look(f, p)
        PROVE  Goal
    <2>1. UNCHANGED <<deed, revision>> /\ \E v \in Views : ViewChanged(v)
      BY <1>4, ViewKept DEF Look, ChooseFilter, TypeKeyword, TurnPage
    <2> QED
      BY <1>3, <2>1
  <1>5. CASE Search
    <2>1. FirstPage(screen.view) \in Views
      <3>1. 1 \in 1..Turns
        BY ConsoleAssumption
      <3> QED
        BY <3>1 DEF PageKept, FirstPage, Views
    <2> QED
      BY <1>3, <1>5, <2>1 DEF Search
  <1>6. CASE Effect \/ RefreshList \/ OpenDialog \/ CloseDialog
    <2>1. /\ UNCHANGED <<deed, revision>>
          /\ \/ screen' = screen \/ screen' = [screen EXCEPT !.due = FALSE]
             \/ screen' = [screen EXCEPT !.dialog = "open", !.errors = 0]
             \/ screen' = [screen EXCEPT !.dialog = "closed"]
      BY <1>6 DEF Effect, RefreshList, OpenDialog, CloseDialog
    <2>2. /\ DOMAIN screen' = ScreenFields /\ screen'.view \in Views
          /\ screen'.dialog \in {"closed", "open"} /\ screen'.errors \in Nat
      <3>1. CASE screen' = [screen EXCEPT !.due = FALSE]
        <4>1. /\ DOMAIN screen' = ScreenFields /\ screen'.view = screen.view
              /\ screen'.dialog = screen.dialog /\ screen'.errors = screen.errors
          BY <3>1 DEF PageKept, ScreenFields
        <4> QED
          BY <4>1 DEF PageKept
      <3>2. CASE screen' = [screen EXCEPT !.dialog = "open", !.errors = 0]
        <4>1. /\ DOMAIN screen' = ScreenFields /\ screen'.view = screen.view
              /\ screen'.dialog = "open" /\ screen'.errors = 0
          BY <3>2 DEF PageKept, ScreenFields
        <4> QED
          BY <4>1 DEF PageKept
      <3>3. CASE screen' = [screen EXCEPT !.dialog = "closed"]
        <4>1. /\ DOMAIN screen' = ScreenFields /\ screen'.view = screen.view
              /\ screen'.dialog = "closed" /\ screen'.errors = screen.errors
          BY <3>3 DEF PageKept, ScreenFields
        <4> QED
          BY <4>1 DEF PageKept
      <3>4. CASE screen' = screen
        BY <3>4 DEF PageKept
      <3> QED
        BY <2>1, <3>1, <3>2, <3>3, <3>4
    <2> QED
      BY <1>2, <2>1, <2>2
  <1>7. ASSUME NEW n \in DOMAIN loads, ServeList(n) \/ ReceiveList(n) \/ ListFails(n)
        PROVE  Goal
    BY <1>2, <1>7 DEF ServeList, ReceiveList, ListFails, PageKept
  <1>8. ASSUME NEW d \in Deeds, Submit(d) \/ Press(d)
        PROVE  Goal
    <2>1. /\ deed' = [deed EXCEPT ![d] = [at |-> "sent", view |-> screen.view, revision |-> 0]]
          /\ screen' = screen \/ screen' = [screen EXCEPT !.submitting = TRUE]
          /\ revision' = revision
      BY <1>8 DEF Submit, Press, Begin
    <2>2. /\ DOMAIN deed' = Deeds /\ \A x \in Deeds \ {d} : deed'[x] = deed[x]
          /\ deed'[d] = [at |-> "sent", view |-> screen.view, revision |-> 0]
      BY <2>1 DEF PageKept
    <2>3. /\ deed'[d].at = "sent" /\ DOMAIN deed'[d] = {"at", "view", "revision"}
          /\ deed'[d].view = screen.view /\ deed'[d].revision = 0
      BY <2>2
    <2>4. /\ DOMAIN screen' = ScreenFields /\ screen'.view = screen.view
          /\ screen'.dialog \in {"closed", "open"} /\ screen'.errors \in Nat
      BY <2>1 DEF PageKept, ScreenFields
    <2>5. screen.view \in Views /\ 0 \in 0..revision /\ revision' = revision
      BY <1>1, <2>1 DEF PageKept
    <2> QED
      BY <1>1, <2>2, <2>3, <2>4, <2>5, DeedPageKept
  <1>9. ASSUME NEW d \in Deeds, Execute(d)
        PROVE  Goal
    <2>1. /\ deed[d].at = "sent" /\ revision' = revision + 1 /\ screen' = screen
          /\ deed' = [deed EXCEPT ![d].at = "done", ![d].revision = revision']
      BY <1>9 DEF Execute
    <2>2. DOMAIN deed = Deeds /\ DOMAIN deed[d] = {"at", "view", "revision"} /\ deed[d].view \in Views
      BY <2>1 DEF PageKept
    <2>3. /\ DOMAIN deed' = Deeds /\ \A x \in Deeds \ {d} : deed'[x] = deed[x]
          /\ deed'[d].at = "done" /\ DOMAIN deed'[d] = {"at", "view", "revision"}
          /\ deed'[d].view = deed[d].view /\ deed'[d].revision = revision'
      BY <2>1, <2>2
    <2>4. revision' \in Nat /\ revision' >= revision /\ revision' \in 0..revision'
      BY <1>1, <2>1
    <2>5. /\ DOMAIN screen' = ScreenFields /\ screen'.view = screen.view
          /\ screen'.dialog \in {"closed", "open"} /\ screen'.errors \in Nat
      BY <2>1 DEF PageKept
    <2> QED
      BY <1>1, <2>2, <2>3, <2>4, <2>5, DeedPageKept
  <1>10. ASSUME NEW d \in Deeds, Refuse(d)
         PROVE  Goal
    <2>1. /\ deed[d].at = "sent" /\ revision' = revision /\ screen' = screen
          /\ deed' = [deed EXCEPT ![d].at = "refused"]
      BY <1>10 DEF Refuse
    <2>2. /\ DOMAIN deed = Deeds /\ DOMAIN deed[d] = {"at", "view", "revision"}
          /\ deed[d].view \in Views /\ deed[d].revision \in 0..revision
      BY <2>1 DEF PageKept
    <2>3. /\ DOMAIN deed' = Deeds /\ \A x \in Deeds \ {d} : deed'[x] = deed[x]
          /\ deed'[d].at = "refused" /\ DOMAIN deed'[d] = {"at", "view", "revision"}
          /\ deed'[d].view = deed[d].view /\ deed'[d].revision = deed[d].revision
      BY <2>1, <2>2
    <2>4. /\ DOMAIN screen' = ScreenFields /\ screen'.view = screen.view
          /\ screen'.dialog \in {"closed", "open"} /\ screen'.errors \in Nat
      BY <2>1 DEF PageKept
    <2> QED
      BY <1>1, <2>1, <2>2, <2>3, <2>4, DeedPageKept
  <1>11. ASSUME NEW d \in Deeds, Succeed(d) \/ Err(d)
         PROVE  Goal
    <2>1. /\ deed' = [deed EXCEPT ![d] = Idle] /\ revision' = revision
          /\ \/ screen' = screen
             \/ screen' = [screen EXCEPT !.dialog = "closed", !.submitting = FALSE]
             \/ screen' = [screen EXCEPT !.submitting = FALSE, !.errors = @ + 1]
      BY <1>11 DEF Succeed, Err
    <2>2. /\ DOMAIN deed' = Deeds /\ \A x \in Deeds \ {d} : deed'[x] = deed[x]
          /\ deed'[d].at = "idle"
      BY <2>1 DEF PageKept, Idle
    <2>3. /\ DOMAIN screen' = ScreenFields /\ screen'.view = screen.view
          /\ screen'.dialog \in {"closed", "open"} /\ screen'.errors \in Nat
      <3>1. CASE screen' = screen
        BY <3>1 DEF PageKept
      <3>2. CASE screen' = [screen EXCEPT !.dialog = "closed", !.submitting = FALSE]
        <4>1. /\ DOMAIN screen' = ScreenFields /\ screen'.view = screen.view
              /\ screen'.dialog = "closed" /\ screen'.errors = screen.errors
          BY <3>2 DEF PageKept, ScreenFields
        <4> QED
          BY <4>1 DEF PageKept
      <3>3. CASE screen' = [screen EXCEPT !.submitting = FALSE, !.errors = @ + 1]
        <4>1. /\ DOMAIN screen' = ScreenFields /\ screen'.view = screen.view
              /\ screen'.dialog = screen.dialog /\ screen'.errors = screen.errors + 1
          BY <3>3 DEF PageKept, ScreenFields
        <4> QED
          BY <4>1 DEF PageKept
      <3> QED
        BY <2>1, <3>1, <3>2, <3>3
    <2> QED
      BY <1>1, <2>1, <2>2, <2>3, DeedPageKept
  <1>12. CASE Elsewhere
    BY <1>2, <1>12 DEF Elsewhere, PageKept
  <1>13. CASE UNCHANGED screenVars
    BY <1>2, <1>13 DEF screenVars, PageKept
  <1> HIDE DEF Goal
  <1> QED
    BY <1>4, <1>5, <1>6, <1>7, <1>8, <1>9, <1>10, <1>11, <1>12, <1>13
    DEF ScreenNext, Again, List, Deed

(* NewestLoad: a new request for the list is for the view that the screen shows.   *)
LEMMA NewestLoad ==
  ASSUME Listed, NEW v \in Views, NEW kind, LoadList(v, kind), shown' = shown,
         kind = "plain" /\ ~ screen'.due => screen'.view = v
  PROVE  Newest'
  <1>1. /\ Issued' = Issued + 1
        /\ loads'[Issued'] = [view |-> v, at |-> "sent", revision |-> 0, kind |-> kind]
    BY LoadListed
  <1>2. /\ loads'[Issued'].at = "sent" /\ loads'[Issued'].view = v /\ loads'[Issued'].kind = kind
    BY <1>1
  <1>3. Issued \in Nat /\ shown.number \in 0..Issued
    BY ConsoleAssumption DEF Listed
  <1> HIDE DEF Issued
  <1>4. shown'.number # Issued' /\ Issued' > 0
    BY <1>1, <1>3
  <1> QED
    BY <1>2, <1>4 DEF Newest

(* NewestScreen: a screen that asks for another list has it due.                   *)
LEMMA NewestScreen ==
  ASSUME Newest, UNCHANGED <<loads, shown, heard>>, screen.due => screen'.due,
         ~ screen'.due => screen'.view = screen.view
  PROVE  Newest'
  <1>1. Issued' = Issued /\ (Underway(Issued)' <=> Underway(Issued))
    BY DEF Issued, Underway
  <1> HIDE DEF Issued
  <1> QED
    BY <1>1 DEF Newest

(* NewestStep: the newest request is for the view on the screen, or another is  *)
(* due.                                                                     *)
LEMMA NewestStep == Listed /\ PageKept /\ Newest /\ [ScreenNext]_screenVars => Newest'
  <1> DEFINE Goal == Newest'
  <1> SUFFICES ASSUME Listed, PageKept, Newest, [ScreenNext]_screenVars PROVE Goal
    OBVIOUS
  <1>1. /\ screen.view \in Views
        /\ \A d \in Deeds : deed[d].at # "idle" => deed[d].view \in Views
        /\ revision \in Nat /\ heard \in 0..revision /\ Issued \in Nat /\ DOMAIN loads = 1..Issued
    BY ConsoleAssumption DEF PageKept, Listed
  <1>2. ASSUME NEW v \in Views, ViewChanged(v), UNCHANGED <<loads, shown, heard>>
        PROVE  Goal
    <2>1. screen.due => screen'.due
      BY <1>2, Looked
    <2>2. ~ screen'.due => screen'.view = screen.view
      BY <1>2, Looked
    <2> QED
      BY <1>2, <2>1, <2>2, NewestScreen
  <1>3. ASSUME NEW f \in Filters, NEW p \in 1..Turns, Look(f, p)
        PROVE  Goal
    <2>1. UNCHANGED <<loads, shown, heard>> /\ \E v \in Views : ViewChanged(v)
      BY <1>3, ViewKept DEF Look, ChooseFilter, TypeKeyword, TurnPage
    <2> QED
      BY <1>2, <2>1
  <1>4. CASE Search
    <2>1. LoadList(screen.view, "plain") /\ ViewChanged(FirstPage(screen.view)) /\ shown' = shown
      BY <1>4 DEF Search
    <2>2. FirstPage(screen.view) \in Views
      <3>1. 1 \in 1..Turns
        BY ConsoleAssumption
      <3> QED
        BY <3>1 DEF PageKept, FirstPage, Views
    <2>3. ~ screen'.due => screen'.view = screen.view
      BY <2>1, <2>2, Looked
    <2> QED
      BY <1>1, <2>1, <2>3, NewestLoad
  <1>5. CASE RefreshList \/ Effect
    <2>1. /\ LoadList(screen.view, "plain") /\ shown' = shown
          /\ screen' = screen \/ screen' = [screen EXCEPT !.due = FALSE]
      BY <1>5 DEF RefreshList, Effect
    <2>2. screen'.view = screen.view
      BY <2>1 DEF PageKept, ScreenFields
    <2> QED
      BY <1>1, <2>1, <2>2, NewestLoad
  <1>6. ASSUME NEW n \in DOMAIN loads, ServeList(n)
        PROVE  Goal
    <2>1. /\ UNCHANGED <<screen, shown, heard>> /\ loads[n].at = "sent"
          /\ loads' = [loads EXCEPT ![n].at = "served", ![n].revision = revision]
      BY <1>6 DEF ServeList
    <2>2. DOMAIN loads[n] = LoadFields
      BY <2>1 DEF Listed, Underway
    <2>3. /\ DOMAIN loads' = DOMAIN loads /\ loads'[n].at = "served" /\ loads'[n].revision = revision
          /\ loads'[n].view = loads[n].view /\ loads'[n].kind = loads[n].kind
          /\ \A k \in DOMAIN loads : k # n => loads'[k] = loads[k]
      BY <2>1, <2>2 DEF LoadFields
    <2>4. Issued' = Issued
      BY <2>3 DEF Issued
    <2> HIDE DEF Issued
    <2>5. CASE n = Issued
      BY <1>1, <2>1, <2>3, <2>4, <2>5 DEF Newest, Underway
    <2>6. CASE n # Issued
      <3>1. Issued > 0 => loads'[Issued] = loads[Issued]
        BY <1>1, <2>3, <2>6
      <3> QED
        BY <1>1, <2>1, <2>4, <3>1 DEF Newest, Underway
    <2> QED
      BY <2>5, <2>6
  <1>7. ASSUME NEW n \in DOMAIN loads, ReceiveList(n) \/ ListFails(n)
        PROVE  Goal
    <2>1. /\ Over(n) /\ UNCHANGED <<screen, heard>>
          /\ \/ shown' = shown
             \/ /\ loads[n].at = "served" /\ shown'.number = n
                /\ shown'.view = loads[n].view /\ shown'.revision = loads[n].revision
      BY <1>7 DEF ReceiveList, ListFails
    <2>2. /\ DOMAIN loads' = DOMAIN loads /\ loads'[n].at = "over" /\ loads'[n].kind = loads[n].kind
          /\ \A k \in DOMAIN loads : k # n => loads'[k] = loads[k]
      BY <2>1 DEF Over
    <2>3. Issued' = Issued /\ n > 0
      BY <1>1, <2>2 DEF Issued
    <2> HIDE DEF Issued
    <2>4. CASE n = Issued
      BY <1>1, <2>1, <2>2, <2>3, <2>4 DEF Newest, Underway
    <2>5. CASE n # Issued
      <3>1. Issued > 0 => loads'[Issued] = loads[Issued]
        BY <1>1, <2>2, <2>5
      <3> QED
        BY <1>1, <2>1, <2>3, <2>5, <3>1 DEF Newest, Underway
    <2> QED
      BY <2>4, <2>5
  <1>8. CASE OpenDialog
    <2>1. screen'.view = screen.view /\ screen'.due = screen.due
      BY <1>8 DEF OpenDialog, PageKept, ScreenFields
    <2> QED
      BY <1>8, <2>1, NewestScreen DEF OpenDialog
  <1>9. CASE CloseDialog
    <2>1. screen'.view = screen.view /\ screen'.due = screen.due
      BY <1>9 DEF CloseDialog, PageKept, ScreenFields
    <2> QED
      BY <1>9, <2>1, NewestScreen DEF CloseDialog
  <1>10. ASSUME NEW d \in Deeds, Submit(d)
         PROVE  Goal
    <2>1. screen'.view = screen.view /\ screen'.due = screen.due
      BY <1>10 DEF Submit, PageKept, ScreenFields
    <2> QED
      BY <1>10, <2>1, NewestScreen DEF Submit
  <1>11. ASSUME NEW d \in Deeds, Press(d) \/ Execute(d) \/ Refuse(d)
         PROVE  Goal
    BY <1>11, NewestScreen DEF Press, Execute, Refuse
  <1>12. ASSUME NEW d \in Deeds, Err(d)
         PROVE  Goal
    <2>1. screen' = screen \/ screen' = [screen EXCEPT !.submitting = FALSE, !.errors = @ + 1]
      BY <1>12 DEF Err
    <2>2. screen'.view = screen.view /\ screen'.due = screen.due
      BY <2>1 DEF PageKept, ScreenFields
    <2> QED
      BY <1>12, <2>2, NewestScreen DEF Err
  <1>13. ASSUME NEW d \in Deeds, Succeed(d)
         PROVE  Goal
    <2>1. deed[d].at = "done" /\ LoadList(deed[d].view, "deed") /\ shown' = shown
      BY <1>13 DEF Succeed
    <2> QED
      BY <1>1, <2>1, NewestLoad
  <1>14. CASE Elsewhere \/ UNCHANGED screenVars
    BY <1>14, NewestScreen DEF Elsewhere, screenVars
  <1> HIDE DEF Goal
  <1> QED
    BY <1>3, <1>4, <1>5, <1>6, <1>7, <1>8, <1>9, <1>10, <1>11, <1>12, <1>13, <1>14
    DEF ScreenNext, Again, List, Deed

(* OneAtATime: at most one submission of the dialog is under way, and while the    *)
(* server has not done its deed, or the dialog may be submitted, an error was     *)
(* shown for everything done.                                               *)
OneAtATime ==
  /\ done \in 0..revision /\ done <= 1 + screen.errors
  /\ screen.submitting \in BOOLEAN
  /\ screen.dialog = "open" /\ ~ screen.submitting => done <= screen.errors
  /\ \A d \in Modal : deed[d].at # "idle" =>
       /\ screen.submitting /\ \A x \in Modal \ {d} : deed[x].at = "idle"
       /\ deed[d].at \in {"sent", "refused"} => done <= screen.errors

(* OneAtATimeStep: the server did a deed no more often than it was pressed        *)
(* after an error, for the button is disabled while a request runs.           *)
LEMMA OneAtATimeStep == Listed /\ PageKept /\ OneAtATime /\ [ScreenNext]_screenVars => OneAtATime'
  <1> DEFINE Goal == OneAtATime'
  <1> SUFFICES ASSUME Listed, PageKept, OneAtATime, [ScreenNext]_screenVars PROVE Goal
    OBVIOUS
  <1>1. /\ revision \in Nat /\ done \in 0..revision /\ screen.errors \in Nat
        /\ screen.view \in Views /\ Modal \subseteq Deeds /\ Modal \intersect Inline = {}
        /\ DOMAIN deed = Deeds
    BY ConsoleAssumption DEF PageKept, Listed, OneAtATime, Deeds
  <1>2. ASSUME done' = done, revision' \in {revision, revision + 1}, screen'.errors = screen.errors,
               screen'.dialog = screen.dialog, screen'.submitting = screen.submitting,
               \A d \in Modal : deed'[d].at = deed[d].at \/ (deed[d].at = "sent" /\ deed'[d].at = "refused")
        PROVE  Goal
    <2>1. done \in 0..revision'
      BY <1>1, <1>2
    <2>2. screen'.submitting \in BOOLEAN
      BY <1>2, Zenon DEF OneAtATime
    <2> QED
      BY <1>2, <2>1, <2>2 DEF OneAtATime
  <1>3. ASSUME NEW v \in Views, ViewChanged(v), UNCHANGED <<done, revision, deed>>
        PROVE  Goal
    BY <1>2, <1>3, Looked
  <1>4. ASSUME NEW f \in Filters, NEW p \in 1..Turns, Look(f, p)
        PROVE  Goal
    <2>1. UNCHANGED <<done, revision, deed>> /\ \E v \in Views : ViewChanged(v)
      BY <1>4, ViewKept DEF Look, ChooseFilter, TypeKeyword, TurnPage
    <2> QED
      BY <1>3, <2>1
  <1>5. CASE Search
    <2>1. UNCHANGED <<done, revision, deed>> /\ ViewChanged(FirstPage(screen.view))
      BY <1>5 DEF Search
    <2>2. FirstPage(screen.view) \in Views
      <3>1. 1 \in 1..Turns
        BY ConsoleAssumption
      <3> QED
        BY <3>1 DEF PageKept, FirstPage, Views
    <2> QED
      BY <1>3, <2>1, <2>2
  <1>6. CASE Effect
    <2>1. /\ screen'.errors = screen.errors /\ screen'.dialog = screen.dialog
          /\ screen'.submitting = screen.submitting /\ UNCHANGED <<done, revision, deed>>
      BY <1>6 DEF Effect, PageKept, ScreenFields
    <2> QED
      BY <1>2, <2>1
  <1>7. ASSUME NEW n \in DOMAIN loads, ServeList(n) \/ ReceiveList(n) \/ ListFails(n)
        PROVE  Goal
    BY <1>2, <1>7 DEF ServeList, ReceiveList, ListFails
  <1>8. CASE RefreshList \/ Elsewhere \/ UNCHANGED screenVars
    BY <1>2, <1>8 DEF RefreshList, Elsewhere, screenVars
  <1>9. CASE OpenDialog
    <2>1. /\ screen'.errors = 0 /\ screen'.dialog = "open"
          /\ screen'.submitting = screen.submitting /\ done' = 0 /\ UNCHANGED <<revision, deed>>
      BY <1>9 DEF OpenDialog, PageKept, ScreenFields
    <2>2. screen'.submitting \in BOOLEAN
      BY <2>1, Zenon DEF OneAtATime
    <2> QED
      BY <1>1, <2>1, <2>2 DEF OneAtATime
  <1>10. CASE CloseDialog
    <2>1. /\ screen'.errors = screen.errors /\ screen'.dialog = "closed"
          /\ screen'.submitting = screen.submitting /\ UNCHANGED <<done, revision, deed>>
      BY <1>10 DEF CloseDialog, PageKept, ScreenFields
    <2>2. screen'.submitting \in BOOLEAN
      BY <2>1, Zenon DEF OneAtATime
    <2> QED
      BY <1>1, <2>1, <2>2 DEF OneAtATime
  <1>11. ASSUME NEW d \in Deeds, Submit(d)
         PROVE  Goal
    <2>1. /\ d \in Modal /\ screen.dialog = "open" /\ ~ screen.submitting
          /\ screen'.errors = screen.errors /\ screen'.dialog = screen.dialog
          /\ screen'.submitting = TRUE /\ UNCHANGED <<done, revision>>
      BY <1>11 DEF Submit, PageKept, ScreenFields
    <2>2. deed' = [deed EXCEPT ![d] = [at |-> "sent", view |-> screen.view, revision |-> 0]]
      BY <1>11 DEF Submit, Begin
    <2>3. deed'[d].at = "sent" /\ \A x \in Deeds \ {d} : deed'[x] = deed[x]
      BY <1>1, <2>2
    <2>4. done <= screen.errors /\ \A x \in Modal : deed[x].at = "idle"
      BY <2>1 DEF OneAtATime
    <2>5. screen'.submitting \in BOOLEAN
      BY <2>1, Zenon
    <2> QED
      BY <1>1, <2>1, <2>3, <2>4, <2>5 DEF OneAtATime
  <1>12. ASSUME NEW d \in Deeds, Press(d)
         PROVE  Goal
    <2>1. /\ deed' = [deed EXCEPT ![d] = [at |-> "sent", view |-> screen.view, revision |-> 0]]
          /\ d \in Inline /\ UNCHANGED <<screen, revision, done>>
      BY <1>12 DEF Press, Begin
    <2>2. \A x \in Modal : deed'[x] = deed[x]
      BY <1>1, <2>1
    <2> QED
      BY <1>2, <2>1, <2>2
  <1>13. ASSUME NEW d \in Deeds, Execute(d)
         PROVE  Goal
    <2>1. /\ deed[d].at = "sent" /\ revision' = revision + 1 /\ screen' = screen
          /\ deed' = [deed EXCEPT ![d].at = "done", ![d].revision = revision']
          /\ done' = IF d \in Modal THEN done + 1 ELSE done
      BY <1>13 DEF Execute
    <2>2. DOMAIN deed[d] = {"at", "view", "revision"}
      BY <2>1 DEF PageKept
    <2>3. deed'[d].at = "done" /\ \A x \in Deeds \ {d} : deed'[x] = deed[x]
      BY <1>1, <2>1, <2>2
    <2>4. CASE d \in Modal
      <3>1. /\ done <= screen.errors /\ screen.submitting
            /\ \A x \in Modal \ {d} : deed[x].at = "idle"
        BY <2>1, <2>4 DEF OneAtATime
      <3>2. done' \in 0..revision' /\ done' <= 1 + screen'.errors
        BY <1>1, <2>1, <2>4, <3>1
      <3> QED
        <4>1. screen'.submitting \in BOOLEAN
          BY <2>1, Zenon DEF OneAtATime
        <4>2. \A x \in Modal \ {d} : deed'[x].at = "idle"
          BY <1>1, <2>3, <3>1
        <4>3. screen'.dialog = "open" /\ ~ screen'.submitting => done' <= screen'.errors
          BY <2>1, <3>1
        <4>4. screen'.submitting
          BY <2>1, <3>1
        <4> QED
          BY <2>3, <2>4, <3>2, <4>1, <4>2, <4>3, <4>4 DEF OneAtATime
    <2>5. CASE d \notin Modal
      BY <1>2, <2>1, <2>3, <2>5, <1>1
    <2> QED
      BY <2>4, <2>5
  <1>14. ASSUME NEW d \in Deeds, Refuse(d)
         PROVE  Goal
    <2>1. /\ deed[d].at = "sent" /\ deed' = [deed EXCEPT ![d].at = "refused"]
          /\ UNCHANGED <<screen, revision, done>>
      BY <1>14 DEF Refuse
    <2>2. DOMAIN deed[d] = {"at", "view", "revision"}
      BY <2>1 DEF PageKept
    <2>3. deed'[d].at = "refused" /\ \A x \in Deeds \ {d} : deed'[x] = deed[x]
      BY <1>1, <2>1, <2>2
    <2>4. \A x \in Modal : deed'[x].at = deed[x].at \/ (deed[x].at = "sent" /\ deed'[x].at = "refused")
      BY <1>1, <2>1, <2>3
    <2> QED
      BY <1>2, <2>1, <2>4
  <1>15. ASSUME NEW d \in Deeds, Succeed(d) \/ Err(d)
         PROVE  Goal
    <2>1. /\ deed[d].at # "idle" /\ deed' = [deed EXCEPT ![d] = Idle]
          /\ UNCHANGED <<revision, done>>
          /\ d \notin Modal => screen' = screen
          /\ d \in Modal => \/ screen' = [screen EXCEPT !.dialog = "closed", !.submitting = FALSE]
                            \/ /\ screen' = [screen EXCEPT !.submitting = FALSE, !.errors = @ + 1]
      BY <1>15 DEF Succeed, Err
    <2>2. deed'[d].at = "idle" /\ \A x \in Deeds \ {d} : deed'[x] = deed[x]
      BY <1>1, <2>1 DEF Idle
    <2>3. CASE d \notin Modal
      BY <1>1, <1>2, <2>1, <2>2, <2>3
    <2>4. CASE d \in Modal
      <3>1. \A x \in Modal : deed'[x].at = "idle"
        BY <1>1, <2>1, <2>2, <2>4 DEF OneAtATime
      <3>2. CASE screen' = [screen EXCEPT !.dialog = "closed", !.submitting = FALSE]
        <4>1. /\ screen'.dialog = "closed" /\ screen'.errors = screen.errors
              /\ screen'.submitting = FALSE
          BY <3>2 DEF PageKept, ScreenFields
        <4>2. screen'.submitting \in BOOLEAN
          BY <4>1, Zenon
        <4> QED
          BY <1>1, <2>1, <3>1, <4>1, <4>2 DEF OneAtATime
      <3>3. CASE screen' = [screen EXCEPT !.submitting = FALSE, !.errors = @ + 1]
        <4>1. screen'.errors = screen.errors + 1 /\ screen'.submitting = FALSE
          BY <3>3 DEF PageKept, ScreenFields
        <4>2. screen'.submitting \in BOOLEAN
          BY <4>1, Zenon
        <4>3. done <= 1 + screen.errors
          BY DEF OneAtATime
        <4>4. done' \in 0..revision' /\ done' <= screen'.errors /\ done' <= 1 + screen'.errors
          BY <1>1, <2>1, <4>1, <4>3
        <4> QED
          BY <3>1, <4>1, <4>2, <4>4 DEF OneAtATime
      <3> QED
        BY <2>1, <2>4, <3>2, <3>3
    <2> QED
      BY <2>3, <2>4
  <1> HIDE DEF Goal
  <1> QED
    BY <1>4, <1>5, <1>6, <1>7, <1>8, <1>9, <1>10, <1>11, <1>12, <1>13, <1>14, <1>15
    DEF ScreenNext, Again, List, Deed

(* The settings page.                                                          *)

SheetFields == {"base", "draft", "saving", "edited"}
MailFields == {"by", "at", "entries", "typed", "answer"}

(* TypedOnly(x): what differs from the answer was typed.                          *)
TypedOnly(x) ==
  /\ DOMAIN sheet[x] = SheetFields
  /\ DOMAIN sheet[x].draft = Fields /\ DOMAIN sheet[x].base = Fields
  /\ sheet[x].saving \in Groups \union {"none"}
  /\ \A k \in Fields : sheet[x].draft[k] # sheet[x].base[k] => k \in sheet[x].edited

(* PostsTyped(m): a request posts only what was typed.                           *)
PostsTyped(m) ==
  /\ DOMAIN m = MailFields /\ m.by \in Editors
  /\ DOMAIN m.entries \subseteq Fields /\ DOMAIN m.entries \subseteq m.typed
  /\ m.at = "served" => DOMAIN m.answer = Fields

SheetInv ==
  /\ DOMAIN settings = Fields /\ DOMAIN sheet = Editors
  /\ \A x \in Editors : TypedOnly(x)
  /\ \A m \in mail : PostsTyped(m)

(* Posted: a request that is posted is one more of them.                         *)
LEMMA Posted ==
  ASSUME SheetInv, NEW x \in Editors, NEW entries, Post(x, entries),
         DOMAIN entries \subseteq Fields, DOMAIN entries \subseteq sheet[x].edited
  PROVE  \A m \in mail' : PostsTyped(m)
  <1> DEFINE m == [by |-> x, at |-> "sent", entries |-> entries,
                   typed |-> sheet[x].edited, answer |-> <<>>]
  <1>1. mail' = mail \union {m}
    BY DEF Post
  <1>2. /\ DOMAIN m = MailFields /\ m.by = x /\ m.at = "sent" /\ m.entries = entries
        /\ m.typed = sheet[x].edited
    BY DEF MailFields
  <1> HIDE DEF m
  <1>3. PostsTyped(m)
    BY <1>2 DEF PostsTyped
  <1> QED
    BY <1>1, <1>3 DEF SheetInv

(* SheetKept: the sheet of one administrator changes, or none.                    *)
LEMMA SheetKept ==
  ASSUME SheetInv, NEW x \in Editors, DOMAIN sheet' = Editors,
         \A y \in Editors \ {x} : sheet'[y] = sheet[y],
         TypedOnly(x)', DOMAIN settings' = Fields, \A m \in mail' : PostsTyped(m)
  PROVE  SheetInv'
  <1>1. \A y \in Editors \ {x} : TypedOnly(y)'
    BY DEF SheetInv, TypedOnly
  <1> QED
    BY <1>1 DEF SheetInv, PostsTyped

(* SavedKnown: a request is over, and the flag of the group being saved is reset.    *)
LEMMA SavedKnown ==
  ASSUME SheetInv, NEW m \in mail
  PROVE  Saved(m) \in Groups \union {"none"}
  BY DEF SheetInv, PostsTyped, TypedOnly, Saved

(* SheetStep: what an administrator typed is all that differs from the settings *)
(* that were read.                                                          *)
LEMMA SheetStep == SheetInv /\ [SheetNext]_sheetVars => SheetInv'
  <1> DEFINE Goal == SheetInv'
  <1> SUFFICES ASSUME SheetInv, [SheetNext]_sheetVars PROVE Goal
    OBVIOUS
  <1>1. DOMAIN settings = Fields /\ DOMAIN sheet = Editors /\ \A m \in mail : PostsTyped(m)
    BY DEF SheetInv
  <1>2. ASSUME NEW x \in Editors, LoadSettings(x)
        PROVE  Goal
    <2>1. \A m \in mail' : PostsTyped(m)
      BY <1>2, Posted DEF LoadSettings
    <2> QED
      BY <1>2, <2>1 DEF LoadSettings, SheetInv, TypedOnly
  <1>3. ASSUME NEW x \in Editors, NEW k \in Fields, NEW v, UpdateDraft(x, k, v)
        PROVE  Goal
    <2>1. /\ sheet' = [sheet EXCEPT ![x].draft[k] = v, ![x].edited = @ \union {k}]
          /\ UNCHANGED <<settings, mail>>
      BY <1>3 DEF UpdateDraft
    <2>2. DOMAIN sheet[x] = SheetFields /\ DOMAIN sheet[x].draft = Fields
      BY DEF SheetInv, TypedOnly
    <2>3. /\ DOMAIN sheet' = Editors /\ \A y \in Editors \ {x} : sheet'[y] = sheet[y]
          /\ DOMAIN sheet'[x] = SheetFields /\ DOMAIN sheet'[x].draft = Fields
          /\ sheet'[x].base = sheet[x].base /\ sheet'[x].saving = sheet[x].saving
          /\ sheet'[x].edited = sheet[x].edited \union {k}
          /\ \A j \in Fields : j # k => sheet'[x].draft[j] = sheet[x].draft[j]
      BY <1>1, <2>1, <2>2 DEF SheetFields
    <2>4. TypedOnly(x)'
      BY <2>3 DEF SheetInv, TypedOnly
    <2> QED
      BY <1>1, <2>1, <2>3, <2>4, SheetKept
  <1>4. ASSUME NEW x \in Editors, NEW g \in Groups, SaveGroup(x, g)
        PROVE  Goal
    <2>1. /\ Post(x, [k \in Changes(x, g) |-> sheet[x].draft[k]]) /\ settings' = settings
          /\ sheet' = [sheet EXCEPT ![x].saving = g]
      BY <1>4 DEF SaveGroup
    <2>2. Changes(x, g) \subseteq Fields /\ Changes(x, g) \subseteq sheet[x].edited
      BY DEF Changes, SheetInv, TypedOnly
    <2>3. \A m \in mail' : PostsTyped(m)
      BY <2>1, <2>2, Posted
    <2>4. DOMAIN sheet[x] = SheetFields
      BY DEF SheetInv, TypedOnly
    <2>5. /\ DOMAIN sheet' = Editors /\ \A y \in Editors \ {x} : sheet'[y] = sheet[y]
          /\ DOMAIN sheet'[x] = SheetFields /\ sheet'[x].draft = sheet[x].draft
          /\ sheet'[x].base = sheet[x].base /\ sheet'[x].saving = g
          /\ sheet'[x].edited = sheet[x].edited
      BY <1>1, <2>1, <2>4 DEF SheetFields
    <2>6. TypedOnly(x)'
      BY <2>5 DEF SheetInv, TypedOnly
    <2> QED
      BY <1>1, <2>1, <2>3, <2>5, <2>6, SheetKept
  <1>5. ASSUME NEW m \in mail, ServeSettings(m)
        PROVE  Goal
    <2>1. /\ DOMAIN settings' = Fields /\ sheet' = sheet
          /\ mail' = (mail \ {m}) \union {[m EXCEPT !.at = "served", !.answer = settings']}
      BY <1>5 DEF ServeSettings
    <2> DEFINE n == [m EXCEPT !.at = "served", !.answer = settings']
    <2>2. /\ DOMAIN n = MailFields /\ n.by = m.by /\ n.entries = m.entries /\ n.typed = m.typed
          /\ n.answer = settings'
      BY <1>1 DEF PostsTyped, MailFields
    <2> HIDE DEF n
    <2>3. PostsTyped(n)
      BY <1>1, <2>1, <2>2 DEF PostsTyped
    <2> QED
      BY <2>1, <2>3 DEF SheetInv, TypedOnly, n
  <1>6. ASSUME NEW m \in mail, ReceiveSettings(m)
        PROVE  Goal
    <2>1. /\ mail' \subseteq mail /\ settings' = settings /\ m.at = "served"
          /\ sheet' = [sheet EXCEPT ![m.by] =
               [base |-> m.answer, draft |-> m.answer, saving |-> Saved(m), edited |-> {}]]
      BY <1>6 DEF ReceiveSettings
    <2>2. m.by \in Editors /\ DOMAIN m.answer = Fields
      BY <1>1, <2>1 DEF PostsTyped
    <2>3. /\ DOMAIN sheet' = Editors /\ \A y \in Editors \ {m.by} : sheet'[y] = sheet[y]
          /\ DOMAIN sheet'[m.by] = SheetFields /\ sheet'[m.by].draft = m.answer
          /\ sheet'[m.by].base = m.answer /\ sheet'[m.by].saving = Saved(m)
      BY <1>1, <2>1, <2>2 DEF SheetFields
    <2>4. TypedOnly(m.by)'
      BY <2>2, <2>3, SavedKnown DEF TypedOnly
    <2> QED
      BY <1>1, <2>1, <2>2, <2>3, <2>4, SheetKept
  <1>7. ASSUME NEW m \in mail, SettingsFail(m)
        PROVE  Goal
    <2>1. /\ mail' \subseteq mail /\ settings' = settings
          /\ sheet' = [sheet EXCEPT ![m.by].saving = Saved(m)]
      BY <1>7 DEF SettingsFail
    <2>2. m.by \in Editors
      BY <1>1 DEF PostsTyped
    <2>3. DOMAIN sheet[m.by] = SheetFields
      BY <2>2 DEF SheetInv, TypedOnly
    <2>4. /\ DOMAIN sheet' = Editors /\ \A y \in Editors \ {m.by} : sheet'[y] = sheet[y]
          /\ DOMAIN sheet'[m.by] = SheetFields /\ sheet'[m.by].draft = sheet[m.by].draft
          /\ sheet'[m.by].base = sheet[m.by].base /\ sheet'[m.by].saving = Saved(m)
          /\ sheet'[m.by].edited = sheet[m.by].edited
      BY <1>1, <2>1, <2>2, <2>3 DEF SheetFields
    <2>5. TypedOnly(m.by)'
      BY <2>2, <2>4, SavedKnown DEF SheetInv, TypedOnly
    <2> QED
      BY <1>1, <2>1, <2>2, <2>4, <2>5, SheetKept
  <1>8. CASE UNCHANGED sheetVars
    BY <1>8 DEF sheetVars, SheetInv, TypedOnly
  <1> HIDE DEF Goal
  <1> QED
    BY <1>2, <1>3, <1>4, <1>5, <1>6, <1>7, <1>8 DEF SheetNext, Settings, Edit

ConsoleInv == Listed /\ PageKept /\ Newest /\ OneAtATime /\ SheetInv /\ screen.due \in BOOLEAN

(* DueKept: the flag of the effect is a Boolean.                                *)
LEMMA DueKept ==
  ASSUME PageKept, screen.due \in BOOLEAN, [ScreenNext]_screenVars
  PROVE  screen'.due \in BOOLEAN
  <1>1. ASSUME NEW v \in Views, ViewChanged(v)
        PROVE  screen'.due \in BOOLEAN
    BY <1>1, Looked
  <1>2. 1 \in 1..Turns
    BY ConsoleAssumption
  <1>3. FirstPage(screen.view) \in Views
    BY <1>2 DEF PageKept, FirstPage, Views
  <1>4. ASSUME NEW f \in Filters, NEW p \in 1..Turns, Look(f, p)
        PROVE  screen'.due \in BOOLEAN
    BY <1>1, <1>4, ViewKept DEF Look, ChooseFilter, TypeKeyword, TurnPage
  <1>5. CASE Effect
    <2>1. screen'.due = FALSE
      BY <1>5 DEF Effect, PageKept, ScreenFields
    <2> QED
      BY <2>1, Zenon
  <1>6. ASSUME screen'.due = screen.due
        PROVE  screen'.due \in BOOLEAN
    BY <1>6, Zenon
  <1>7. CASE OpenDialog \/ CloseDialog
    BY <1>6, <1>7 DEF OpenDialog, CloseDialog, PageKept, ScreenFields
  <1>8. ASSUME NEW d \in Deeds, Deed(d)
        PROVE  screen'.due = screen.due
    BY <1>8 DEF Deed, Submit, Press, Execute, Refuse, Succeed, Err, PageKept, ScreenFields
  <1>9. ASSUME NEW n \in DOMAIN loads, ServeList(n) \/ ReceiveList(n) \/ ListFails(n)
        PROVE  screen'.due = screen.due
    BY <1>9 DEF ServeList, ReceiveList, ListFails
  <1>10. CASE RefreshList \/ Elsewhere \/ UNCHANGED screenVars
    BY <1>6, <1>10 DEF RefreshList, Elsewhere, screenVars
  <1>11. CASE Search
    BY <1>1, <1>3, <1>11 DEF Search
  <1> QED
    BY <1>4, <1>5, <1>6, <1>7, <1>8, <1>9, <1>10, <1>11 DEF ScreenNext, Again, List

(* ConsoleStarts: the pages as they open.                                       *)
LEMMA ConsoleStarts == ConsoleInit => ConsoleInv
  <1> SUFFICES ASSUME ConsoleInit PROVE ConsoleInv
    OBVIOUS
  <1>1. PICK v \in Views :
          /\ screen = [view |-> v, due |-> TRUE, dialog |-> "closed",
                        submitting |-> FALSE, errors |-> 0]
          /\ shown = [number |-> 0, view |-> v, revision |-> 0]
          /\ deed = [d \in Deeds |-> Idle]
    BY DEF ConsoleInit
  <1>2. loads = <<>> /\ revision = 0 /\ heard = 0 /\ done = 0 /\ mail = {}
    BY DEF ConsoleInit
  <1>3. DOMAIN loads = {} /\ Issued = 0
    BY <1>2, FS_EmptySet DEF Issued
  <1> HIDE DEF Issued
  <1>4. /\ screen.view = v /\ screen.due = TRUE /\ screen.dialog = "closed"
        /\ screen.submitting = FALSE /\ screen.errors = 0 /\ DOMAIN screen = ScreenFields
    BY <1>1 DEF ScreenFields
  <1>5. /\ shown.number = 0 /\ shown.view = v /\ shown.revision = 0
        /\ DOMAIN shown = {"number", "view", "revision"}
    BY <1>1
  <1>6. DOMAIN deed = Deeds /\ \A d \in Deeds : deed[d].at = "idle"
    BY <1>1 DEF Idle
  <1>7. Listed
    <2>1. 0 \in 0..MaxLoads /\ 0 \in 0..MaxRevision /\ {} = 1..0
      BY ConsoleAssumption
    <2> QED
      BY <1>2, <1>3, <1>5, <2>1 DEF Listed
  <1>8. PageKept
    BY <1>4, <1>6 DEF PageKept
  <1>9. Newest
    BY <1>2, <1>3, <1>4, <1>5 DEF Newest
  <1>10. screen.due \in BOOLEAN /\ screen.submitting \in BOOLEAN
    BY <1>4, Zenon
  <1>11. OneAtATime
    <2>1. \A d \in Modal : deed[d].at = "idle"
      BY <1>6 DEF Deeds
    <2> QED
      BY <1>2, <1>4, <1>10, <2>1 DEF OneAtATime
  <1>12. SheetInv
    <2>1. DOMAIN settings = Fields /\ DOMAIN sheet = Editors
      BY DEF ConsoleInit
    <2>2. ASSUME NEW x \in Editors
          PROVE  TypedOnly(x)
      <3>1. sheet[x] = [base |-> settings, draft |-> settings, saving |-> "none", edited |-> {}]
        BY DEF ConsoleInit
      <3>2. /\ DOMAIN sheet[x] = SheetFields /\ sheet[x].draft = settings
            /\ sheet[x].base = settings /\ sheet[x].saving = "none"
        BY <3>1 DEF SheetFields
      <3> QED
        BY <2>1, <3>2 DEF TypedOnly
    <2> QED
      BY <1>2, <2>1, <2>2 DEF SheetInv
  <1> QED
    BY <1>7, <1>8, <1>9, <1>10, <1>11, <1>12 DEF ConsoleInv

(* ConsoleStep: the lists and the settings page share nothing.                   *)
LEMMA ConsoleStep == ConsoleInv /\ [ConsoleNext]_<<screenVars, sheetVars>> => ConsoleInv'
  <1> SUFFICES ASSUME ConsoleInv, [ConsoleNext]_<<screenVars, sheetVars>> PROVE ConsoleInv'
    OBVIOUS
  <1>1. [ScreenNext]_screenVars /\ [SheetNext]_sheetVars
    BY DEF ConsoleNext
  <1>2. Listed' /\ PageKept' /\ Newest' /\ OneAtATime'
    BY <1>1, ListedStep, PageStep, NewestStep, OneAtATimeStep DEF ConsoleInv
  <1>3. SheetInv' /\ screen'.due \in BOOLEAN
    BY <1>1, SheetStep, DueKept DEF ConsoleInv
  <1> QED
    BY <1>2, <1>3 DEF ConsoleInv

(* ConsoleInvariant: the inductive invariant of the administration pages.          *)
LEMMA ConsoleInvariant == ConsoleSpec => []ConsoleInv
  <1> QED
    BY ConsoleStarts, ConsoleStep, PTL DEF ConsoleSpec

(* What an administration page keeps, and what is under way between it and the     *)
(* server, over any number of list requests, deeds, editors and settings.       *)
THEOREM ConsoleTypes == ConsoleSpec => []ConsoleTypeOK
  <1>1. ConsoleInv => ConsoleTypeOK
    <2> SUFFICES ASSUME ConsoleInv PROVE ConsoleTypeOK
      OBVIOUS
    <2>1. /\ DOMAIN loads \subseteq 1..MaxLoads /\ shown.number \in DOMAIN loads \union {0}
          /\ shown.revision \in 0..revision /\ heard \in 0..revision /\ revision \in 0..MaxRevision
      <3>1. /\ MaxLoads \in Nat /\ Issued \in 0..MaxLoads /\ DOMAIN loads = 1..Issued
            /\ shown.number \in 0..Issued
        BY ConsoleAssumption DEF ConsoleInv, Listed
      <3>2. /\ shown.revision \in 0..revision /\ heard \in 0..revision
            /\ revision \in 0..MaxRevision
        BY DEF ConsoleInv, Listed
      <3> HIDE DEF Issued
      <3>3. 1..Issued \subseteq 1..MaxLoads /\ shown.number \in (1..Issued) \union {0}
        BY <3>1
      <3> QED
        BY <3>1, <3>2, <3>3
    <2>2. \A n \in DOMAIN loads :
            \/ loads[n].at = "over"
            \/ loads[n].at \in {"sent", "served"} /\ loads[n].view \in Views
      BY DEF ConsoleInv, Listed, Underway
    <2>3. /\ screen.view \in Views /\ screen.dialog \in {"closed", "open"} /\ screen.errors \in Nat
          /\ \A d \in Deeds : deed[d].at \in {"idle", "sent", "done", "refused"}
      BY DEF ConsoleInv, PageKept
    <2>4. screen.due \in BOOLEAN /\ screen.submitting \in BOOLEAN /\ done \in 0..revision
      BY Zenon DEF ConsoleInv, OneAtATime
    <2>5. /\ \A x \in Editors : sheet[x].saving \in Groups \union {"none"}
          /\ \A m \in mail : m.by \in Editors /\ DOMAIN m.entries \subseteq Fields
      BY DEF ConsoleInv, SheetInv, TypedOnly, PostsTyped
    <2> QED
      BY <2>1, <2>2, <2>3, <2>4, <2>5, Zenon DEF ConsoleTypeOK
  <1> QED
    BY <1>1, ConsoleInvariant, PTL

(* A page at rest that got the answer of its last request shows the list of its    *)
(* filters, with every deed that the administrator was told of.                *)
THEOREM SettledShows == ConsoleSpec => []SettledShowsView
  <1>1. ConsoleInv => SettledShowsView
    <2> SUFFICES ASSUME ConsoleInv, Settled, shown.number = Issued
                 PROVE  /\ shown.revision >= heard
                        /\ loads[Issued].kind = "plain" => shown.view = screen.view
      BY DEF SettledShowsView
    <2>1. Issued \in Nat /\ (Issued = 0 => screen.due) /\ ~ screen.due
      BY ConsoleAssumption DEF ConsoleInv, Listed, Newest, Settled
    <2> HIDE DEF Issued
    <2>2. Issued > 0
      BY <2>1
    <2> QED
      BY <2>1, <2>2 DEF ConsoleInv, Newest
  <1> QED
    BY <1>1, ConsoleInvariant, PTL

(* However a dialog is closed, opened anew and submitted, and whatever answers     *)
(* are lost, the server does its deed once more only after an error was shown.   *)
THEOREM DoneOnce == ConsoleSpec => []DoneOncePerError
  <1>1. ConsoleInv => DoneOncePerError
    BY DEF ConsoleInv, OneAtATime, DoneOncePerError
  <1> QED
    BY <1>1, ConsoleInvariant, PTL

(* Of several administrators none puts back a setting that another has changed.    *)
THEOREM OnlyTyped == ConsoleSpec => OnlyTypedChanges
  <1>1. ASSUME ConsoleInv, [ConsoleNext]_<<screenVars, sheetVars>>
        PROVE  [\A k \in Fields : settings'[k] # settings[k] =>
                 \E m \in mail : m.at = "sent" /\ k \in m.typed]_settings
    <2>1. CASE settings' = settings
      BY <2>1
    <2>2. ASSUME NEW m \in mail, ServeSettings(m), NEW k \in Fields, settings'[k] # settings[k]
          PROVE  m.at = "sent" /\ k \in m.typed
      <3>1. m.at = "sent" /\ k \in DOMAIN m.entries
        <4>1. /\ m.at = "sent"
              /\ settings' = [j \in Fields |->
                   IF j \in DOMAIN m.entries THEN m.entries[j] ELSE settings[j]]
          BY <2>2, Zenon DEF ServeSettings
        <4> QED
          BY <2>2, <4>1
      <3>2. DOMAIN m.entries \subseteq m.typed
        BY <1>1 DEF ConsoleInv, SheetInv, PostsTyped
      <3> QED
        BY <3>1, <3>2
    <2>3. SheetNext => settings' = settings \/ \E m \in mail : ServeSettings(m)
      BY DEF SheetNext, Settings, Edit, UpdateDraft, LoadSettings, SaveGroup, ReceiveSettings,
             SettingsFail
    <2>4. [SheetNext]_sheetVars
      BY <1>1 DEF ConsoleNext
    <2> QED
      BY <2>1, <2>2, <2>3, <2>4 DEF sheetVars
  <1>2. ConsoleInv /\ [ConsoleNext]_<<screenVars, sheetVars>> =>
          [\A k \in Fields : settings'[k] # settings[k] =>
             \E m \in mail : m.at = "sent" /\ k \in m.typed]_settings
    BY <1>1
  <1> QED
    BY <1>2, ConsoleInvariant, PTL DEF ConsoleSpec, OnlyTypedChanges
-----------------------------------------------------------------------------
(* OrderLife.                                                                *)

(* RoundedUp: a share rounded to the nearest cent is half a cent short at most.    *)
LEMMA RoundedUp ==
  ASSUME NEW A \in Nat \ {0}, NEW x \in Nat, NEW q \in Nat
  PROVE  /\ (2 * x * q + A) \div (2 * A) \in Nat
         /\ 2 * A * ((2 * x * q + A) \div (2 * A)) + A >= 2 * x * q
  <1> DEFINE n == 2 * x * q + A  m == 2 * A  p == n \div m
  <1>1. x * q \in Nat
    OBVIOUS
  <1>2. n \in Nat /\ m \in Nat \ {0}
    BY <1>1
  <1>3. p \in Nat /\ m * p <= n /\ n < m * p + m
    <2> HIDE DEF n, m
    <2> QED
      BY <1>2
  <1>4. n = 2 * x * q + A /\ m = 2 * A
    OBVIOUS
  <1>5. m * p + m > n
    BY <1>3
  <1>6. m * p \in Nat /\ n \in Nat
    BY <1>2, <1>3
  <1> DEFINE mp == m * p
  <1>7. mp + A >= n - A
    <2>1. mp + m > n /\ m = 2 * A /\ mp \in Nat /\ n \in Nat
      BY <1>4, <1>5, <1>6
    <2> HIDE DEF mp, m, n
    <2> QED
      BY <2>1
  <1>8. mp = 2 * A * p /\ n - A = 2 * x * q
    BY <1>1, <1>3
  <1> QED
    BY <1>3, <1>7, <1>8

(* CeilingCovers: a quotient rounded up covers the dividend.                      *)
LEMMA CeilingCovers ==
  ASSUME NEW A \in Nat \ {0}, NEW q \in Nat
  PROVE  /\ (q + A - 1) \div A \in Nat
         /\ A * ((q + A - 1) \div A) >= q
  <1> DEFINE n == q + A - 1  p == n \div A
  <1>1. n \in Nat
    OBVIOUS
  <1>2. p \in Nat /\ A * p <= n /\ n < A * p + A
    <2> HIDE DEF n
    <2> QED
      BY <1>1
  <1> QED
    BY <1>1, <1>2

(* Enough: shares of all of a price A but a cent, each half a cent short at most,   *)
(* leave of the quote q what a cent is worth and a cent for each share.          *)
LEMMA Enough ==
  ASSUME NEW A \in Nat \ {0}, NEW q \in Nat, NEW k \in Nat, NEW n \in Nat, NEW D \in Nat, NEW r \in Nat,
         A * k >= q, r >= A - 1, 2 * A * D + A * n >= 2 * q * r
  PROVE  q - D <= k + n
  <1> SUFFICES ASSUME q - D > k + n PROVE FALSE
    OBVIOUS
  <1>1. D + k + n + 1 <= q
    OBVIOUS
  <1>2. A * (D + k + n + 1) <= A * q
    BY <1>1
  <1>3. A * D + A * k + A * n + A <= A * q
    BY <1>2
  <1>4. q * (A - 1) <= q * r
    OBVIOUS
  <1>5. q * A - q <= q * r
    BY <1>4
  <1>6. 2 * (A * D) + A * n >= 2 * (q * r)
    OBVIOUS
  <1>7. /\ A * D \in Nat /\ A * k \in Nat /\ A * n \in Nat /\ A * q \in Nat /\ q * r \in Nat
        /\ q * A = A * q
    OBVIOUS
  <1> DEFINE ad == A * D  ak == A * k  ab == A * n  aq == A * q  qr == q * r
  <1>8. /\ ad \in Nat /\ ak \in Nat /\ ab \in Nat /\ aq \in Nat /\ qr \in Nat
        /\ ad + ak + ab + A <= aq /\ aq - q <= qr /\ 2 * ad + ab >= 2 * qr /\ ak >= q
    BY <1>3, <1>5, <1>6, <1>7
  <1> HIDE DEF ad, ak, ab, aq, qr
  <1> QED
    BY <1>8

LifeStates == {"idle", "mark", "dispatch", "rollback", "book", "end"}

(* LifeTypes: the types, with the shape of the table of the createOrders.           *)
LifeTypes ==
  /\ order \in Row
  /\ paid \in [by: Methods, cents: Nat]
  /\ task \in [Tasks -> [at: LifeStates, cents: Asks \union {0}, quote: Prices \union {0}]]
  /\ requote \in [Requotes -> [at: {"idle", "save", "end"}, copy: Row]]
  /\ given \in Nat /\ pending \subseteq Tasks /\ owed \in Int
  /\ booked \subseteq Tasks /\ IsFiniteSet(booked)
  /\ requoted \in BOOLEAN

(* LifeNumbers: what the tasks hold are numbers, and so is what they dispatch.       *)
LEMMA LifeNumbers ==
  ASSUME LifeTypes, NEW t \in Tasks
  PROVE  /\ task[t].cents \in Nat /\ task[t].quote \in Nat /\ order.quote \in Nat
         /\ Amount \in Nat \ {0} /\ Prorated(t) \in Nat
         /\ order.refunded \in Nat /\ paid.cents \in Nat
  <1>1. /\ \A n \in Asks \union {0} : n \in Nat
        /\ \A n \in Prices \union {0} : n \in Nat
    BY LifeAssumption
  <1>2. /\ task[t].cents \in Asks \union {0} /\ task[t].quote \in Prices \union {0}
        /\ order.quote \in Prices \union {0} /\ order.refunded \in Nat /\ paid.cents \in Nat
    BY DEF LifeTypes, Row
  <1>3. (2 * task[t].cents * task[t].quote + Amount) \div (2 * Amount) \in Nat
    BY <1>1, <1>2, AmountAssumption, RoundedUp
  <1> QED
    BY <1>1, <1>2, <1>3, AmountAssumption DEF Prorated

(* LifeTypesStep: every step keeps the types.                                  *)
LEMMA LifeTypesStep == LifeTypes /\ [LifeNext]_lifeVars => LifeTypes'
  <1> DEFINE Goal == LifeTypes'
  <1> SUFFICES ASSUME LifeTypes, [LifeNext]_lifeVars PROVE Goal
    OBVIOUS
  <1>1. /\ order \in Row /\ order.quote \in Prices \union {0}
        /\ task \in [Tasks -> [at: LifeStates, cents: Asks \union {0}, quote: Prices \union {0}]]
        /\ requote \in [Requotes -> [at: {"idle", "save", "end"}, copy: Row]]
        /\ given \in Nat /\ pending \subseteq Tasks /\ owed \in Int
    BY DEF LifeTypes, Row
  <1>2. ASSUME order' \in Row, paid' = paid, UNCHANGED <<requote, requoted>>,
               task' \in [Tasks -> [at: LifeStates, cents: Asks \union {0}, quote: Prices \union {0}]],
               given' \in Nat, pending' \subseteq Tasks, owed' \in Int,
               booked' = booked \/ \E t \in Tasks : booked' = booked \union {t}
        PROVE  Goal
    <2>1. booked' \subseteq Tasks /\ IsFiniteSet(booked')
      <3>1. booked \subseteq Tasks /\ IsFiniteSet(booked)
        BY DEF LifeTypes
      <3>2. \A t : IsFiniteSet(booked \union {t})
        BY <3>1, FS_AddElement
      <3> QED
        BY <1>2, <3>1, <3>2
    <2>2. requoted' \in BOOLEAN
      BY <1>2, Zenon DEF LifeTypes
    <2> QED
      BY <1>2, <2>1, <2>2 DEF LifeTypes
  <1>3. ASSUME NEW t \in Tasks, NEW state \in LifeStates, Go(t, state)
        PROVE  task' \in [Tasks -> [at: LifeStates, cents: Asks \union {0}, quote: Prices \union {0}]]
    BY <1>1, <1>3 DEF Go
  <1> USE DEF requotes, money
  <1>4. ASSUME NEW t \in Tasks, NEW cents \in Asks, Lookup(t, cents)
        PROVE  Goal
    <2>1. task' \in [Tasks -> [at: LifeStates, cents: Asks \union {0}, quote: Prices \union {0}]]
      BY <1>1, <1>4 DEF Lookup, LifeStates
    <2> QED
      BY <1>1, <1>2, <1>4, <2>1 DEF Lookup
  <1>5. ASSUME NEW t \in Tasks, MarkRefunding(t)
        PROVE  Goal
    <2>1. order' \in Row
      BY <1>1, <1>5 DEF MarkRefunding, RefundingRow, Row
    <2> QED
      BY <1>1, <1>2, <1>3, <1>5, <2>1 DEF MarkRefunding, LifeStates
  <1>6. ASSUME NEW t \in Tasks, Dispatch(t) \/ DispatchFails(t)
        PROVE  Goal
    <2>1. given' \in Nat /\ pending' \subseteq Tasks /\ owed' \in Int
      BY <1>1, <1>6, LifeNumbers
      DEF Dispatch, DispatchFails, GatewayTakes, GatewayGives, PayPalDefers
    <2> QED
      BY <1>1, <1>2, <1>3, <1>6, <2>1 DEF Dispatch, DispatchFails, LifeStates
  <1>7. ASSUME NEW t \in Tasks, MarkRefundFailed(t)
        PROVE  Goal
    <2>1. order' \in Row
      BY <1>1, <1>7 DEF MarkRefundFailed, RolledBackRow, Row
    <2> QED
      BY <1>1, <1>2, <1>3, <1>7, <2>1 DEF MarkRefundFailed, LifeStates
  <1>8. ASSUME NEW t \in Tasks, MarkRefunded(t)
        PROVE  Goal
    <2>1. order.refunded + task[t].cents \in Nat
      BY LifeNumbers
    <2>2. order' \in Row
      BY <1>1, <1>8, <2>1 DEF MarkRefunded, RefundAccepted, RefundedRow, Row
    <2> QED
      BY <1>1, <1>2, <1>3, <1>8, <2>2 DEF MarkRefunded, LifeStates
  <1>9. ASSUME NEW t \in Tasks, RefundRejected(t)
        PROVE  Goal
    BY <1>1, <1>2, <1>3, <1>9 DEF RefundRejected, LifeStates
  <1>10. ASSUME NEW h \in Requotes, RequoteRead(h)
         PROVE  Goal
    <2>1. requote' \in [Requotes -> [at: {"idle", "save", "end"}, copy: Row]]
      BY <1>1, <1>10 DEF RequoteRead
    <2>2. requoted' \in BOOLEAN
      BY <1>10, Zenon DEF RequoteRead, LifeTypes
    <2> QED
      BY <1>10, <2>1, <2>2 DEF RequoteRead, LifeTypes
  <1>11. ASSUME NEW h \in Requotes, NEW q \in Prices, RequoteSave(h, q)
         PROVE  Goal
    <2>1. /\ requote' = [requote EXCEPT ![h].at = "end"]
          /\ order' = [requote[h].copy EXCEPT !.quote = q]
          /\ UNCHANGED <<paid, task, given, pending, owed, booked>>
      BY <1>11 DEF RequoteSave
    <2>2. requote' \in [Requotes -> [at: {"idle", "save", "end"}, copy: Row]]
      BY <1>1, <2>1
    <2>3. order' \in Row
      <3>1. requote[h].copy \in Row
        BY <1>1
      <3> QED
        BY <2>1, <3>1 DEF Row
    <2>4. requoted' \in BOOLEAN
      BY <1>11, Zenon DEF RequoteSave
    <2> QED
      BY <2>1, <2>2, <2>3, <2>4 DEF LifeTypes
  <1>12. ASSUME NEW t \in Tasks, PendingCompletes(t)
         PROVE  Goal
    <2>1. given' \in Nat /\ pending' \subseteq Tasks /\ owed' \in Int
      BY <1>1, <1>12, LifeNumbers DEF PendingCompletes
    <2> QED
      BY <1>1, <1>2, <1>12, <2>1 DEF PendingCompletes
  <1>13. CASE UNCHANGED lifeVars
    BY <1>1, <1>2, <1>13 DEF lifeVars, LifeTypes
  <1> HIDE DEF Goal
  <1> QED
    BY <1>4, <1>5, <1>6, <1>7, <1>8, <1>9, <1>10, <1>11, <1>12, <1>13
    DEF LifeNext, Refund, Requote

(* Entering: the refunds given back that wait to be entered in the order.           *)
Entering == {t \in Tasks : task[t].at = "book"}

(* P adds up what a set of refunds dispatch.                                      *)
SumsUp(P) ==
  /\ P \in [SUBSET Tasks -> Nat]
  /\ P[{}] = 0
  /\ \A S \in SUBSET Tasks : \A t \in Tasks \ S : P[S \union {t}] = P[S] + Prorated(t)

(* Backs(D, r): D, in the currency paid, is what a balance of r is worth, but for   *)
(* half a cent for each refund booked.                                        *)
Backs(D, r) ==
  IF order.payMethod = "paypal"
    THEN 2 * Amount * D + Amount * Cardinality(booked) >= 2 * order.quote * r
    ELSE D >= r

(* Covers(P, D): what was given, or left pending, is D and the refunds to be entered. *)
Covers(P, D) == given + owed >= D + P[Entering] /\ owed = P[pending]

(* Settling: no quote was replaced; the refunds booked gave D of what was given or    *)
(* left pending, which backs the balance of the order, and of every copy of it that may be saved. *)
Settling ==
  /\ IF order.payMethod = "paypal"
       THEN order.quote # 0 /\ paid.cents <= order.quote + Tolerance
       ELSE paid.cents <= Amount + Tolerance
  /\ \A t \in Tasks : task[t].at # "idle" => task[t].quote = order.quote
  /\ \E P : \E D \in Nat :
       /\ SumsUp(P) /\ Covers(P, D)
       /\ Backs(D, order.refunded)
       /\ \A h \in Requotes : Backs(D, requote[h].copy.refunded)

Fair == order.payMethod = paid.by /\ ~ requoted

(* LifeKept: what holds whatever is replaced.                                     *)
LifeKept ==
  /\ LifeTypes
  /\ \A t \in Tasks : /\ task[t].at = "idle" => task[t].cents = 0 /\ task[t].quote = 0
                      /\ t \in booked => task[t].at = "end"
                      /\ t \in pending => task[t].at \in {"rollback", "book", "end"}
  /\ \A h \in Requotes : requote[h].copy.payMethod = order.payMethod
  /\ order.status = "Refunded" => order.refunded >= Amount - Tolerance
  /\ \A h \in Requotes : requote[h].copy.status = "Refunded" =>
       requote[h].copy.refunded >= Amount - Tolerance

LifeInv == LifeKept /\ (Fair => Settling)

(* GoMoves: a refund moves on with its amount and its quote.                       *)
LEMMA GoMoves ==
  ASSUME LifeTypes, NEW t \in Tasks, NEW state, Go(t, state)
  PROVE  /\ task'[t].at = state
         /\ \A u \in Tasks : u # t => task'[u] = task[u]
         /\ \A u \in Tasks : task'[u].cents = task[u].cents /\ task'[u].quote = task[u].quote
  BY DEF Go, LifeTypes

(* SameShares: the sums stay while the amounts and quotes do.                       *)
LEMMA SameShares ==
  ASSUME NEW P, SumsUp(P), order'.payMethod = order.payMethod,
         \A u \in Tasks : task'[u].cents = task[u].cents /\ task'[u].quote = task[u].quote
  PROVE  SumsUp(P)' /\ \A u \in Tasks : Prorated(u)' = Prorated(u)
  BY DEF SumsUp, Prorated

(* SameBacks: what backs a balance still does.                                     *)
LEMMA SameBacks ==
  ASSUME NEW D, NEW r, Backs(D, r), order'.payMethod = order.payMethod,
         order'.quote = order.quote, booked' = booked
  PROVE  Backs(D, r)'
  BY DEF Backs

(* LifeKeptStep: that part does not depend on the sums.                            *)
LEMMA LifeKeptStep == LifeKept /\ [LifeNext]_lifeVars => LifeKept'
  <1> DEFINE Goal == LifeKept'
  <1> SUFFICES ASSUME LifeKept, [LifeNext]_lifeVars PROVE Goal
    OBVIOUS
  <1>1. LifeTypes /\ LifeTypes'
    BY LifeTypesStep DEF LifeKept
  <1>2. /\ order \in Row /\ Amount \in Nat
        /\ task \in [Tasks -> [at: LifeStates, cents: Asks \union {0}, quote: Prices \union {0}]]
        /\ requote \in [Requotes -> [at: {"idle", "save", "end"}, copy: Row]]
    BY <1>1, AmountAssumption DEF LifeTypes
  <1>a. \A u \in Tasks : /\ task[u].at = "idle" => task[u].cents = 0 /\ task[u].quote = 0
                         /\ u \in booked => task[u].at = "end"
                         /\ u \in pending => task[u].at \in {"rollback", "book", "end"}
    BY DEF LifeKept
  <1> USE DEF requotes, money
  <1>3. ASSUME NEW t \in Tasks, NEW state, Go(t, state), state # "idle", UNCHANGED requotes,
               task[t].at \notin {"idle", "end"}, booked' = booked \/ (booked' = booked \union {t} /\ state = "end"),
               pending' \subseteq pending \union {t},
               t \in pending' => state \in {"rollback", "book", "end"},
               order'.payMethod = order.payMethod,
               order'.status = "Refunded" => order'.refunded >= Amount - Tolerance
        PROVE  Goal
    <2>1. /\ task'[t].at = state /\ \A u \in Tasks : u # t => task'[u] = task[u]
          /\ \A u \in Tasks : task'[u].cents = task[u].cents /\ task'[u].quote = task[u].quote
      BY <1>1, <1>3, GoMoves
    <2>2. ASSUME NEW u \in Tasks
          PROVE  /\ task'[u].at = "idle" => task'[u].cents = 0 /\ task'[u].quote = 0
                 /\ u \in booked' => task'[u].at = "end"
                 /\ u \in pending' => task'[u].at \in {"rollback", "book", "end"}
      <3>1. CASE u = t
        BY <1>3, <1>a, <2>1, <3>1
      <3>2. CASE u # t
        <4>1. /\ task'[u] = task[u] /\ (u \in booked' => u \in booked)
              /\ u \in pending' => u \in pending
          BY <1>3, <2>1, <3>2
        <4> QED
          BY <1>a, <4>1
      <3> QED
        BY <3>1, <3>2
    <2> QED
      BY <1>1, <1>3, <2>2 DEF LifeKept
  <1>4. ASSUME NEW t \in Tasks, NEW cents \in Asks, Lookup(t, cents)
        PROVE  Goal
    <2>1. /\ task' = [task EXCEPT ![t] = [at |-> "mark", cents |-> cents, quote |-> order.quote]]
          /\ task[t].at = "idle" /\ UNCHANGED <<order, booked, pending, requote>>
      BY <1>4 DEF Lookup
    <2>2. task'[t].at = "mark" /\ \A u \in Tasks : u # t => task'[u] = task[u]
      BY <1>2, <2>1
    <2>3. ASSUME NEW u \in Tasks
          PROVE  /\ task'[u].at = "idle" => task'[u].cents = 0 /\ task'[u].quote = 0
                 /\ u \in booked' => task'[u].at = "end"
                 /\ u \in pending' => task'[u].at \in {"rollback", "book", "end"}
      <3>1. (u \in booked' => u \in booked /\ u # t) /\ (u \in pending' => u \in pending /\ u # t)
        BY <1>a, <2>1
      <3> QED
        BY <1>a, <2>2, <3>1
    <2> QED
      BY <1>1, <2>1, <2>3 DEF LifeKept
  <1>5. ASSUME NEW t \in Tasks, MarkRefunding(t)
        PROVE  Goal
    <2>1. /\ order'.payMethod = order.payMethod /\ order'.refunded = order.refunded
          /\ order'.status = "Refunded" => order.status = "Refunded"
      BY <1>2, <1>5 DEF MarkRefunding, RefundingRow, Row
    <2>2. t \notin pending'
      BY <1>5, <1>a DEF MarkRefunding
    <2> QED
      BY <1>3, <1>5, <2>1, <2>2 DEF MarkRefunding, LifeKept
  <1>6. ASSUME NEW t \in Tasks, Dispatch(t) \/ DispatchFails(t) \/ RefundRejected(t)
        PROVE  Goal
    BY <1>3, <1>6 DEF Dispatch, DispatchFails, RefundRejected, GatewayTakes, GatewayGives,
       PayPalDefers, LifeKept
  <1>7. ASSUME NEW t \in Tasks, MarkRefundFailed(t)
        PROVE  Goal
    <2>1. /\ order'.payMethod = order.payMethod /\ order'.refunded = order.refunded
          /\ order'.status = "Refunded" => order.status = "Refunded"
      BY <1>2, <1>7 DEF MarkRefundFailed, RolledBackRow, Row
    <2> QED
      BY <1>3, <1>7, <2>1 DEF MarkRefundFailed, LifeKept
  <1>8. ASSUME NEW t \in Tasks, MarkRefunded(t)
        PROVE  Goal
    <2>1. /\ order'.payMethod = order.payMethod
          /\ order'.refunded = order.refunded + task[t].cents
          /\ order'.status = IF Near(order.refunded + task[t].cents, Amount)
                             THEN "Refunded" ELSE order.status
          /\ order.status \in {"Paid", "Refunding"}
      BY <1>2, <1>8 DEF MarkRefunded, RefundedRow, RefundAccepted, Row
    <2>2. order'.status = "Refunded" => order'.refunded >= Amount - Tolerance
      <3>1. order.refunded + task[t].cents \in Nat
        BY <1>1, LifeNumbers
      <3> QED
        BY <1>2, <2>1, <3>1 DEF Near, Tolerance
    <2> QED
      BY <1>3, <1>8, <2>1, <2>2 DEF MarkRefunded
  <1>9. ASSUME NEW h \in Requotes, RequoteRead(h)
        PROVE  Goal
    <2>1. /\ requote' = [requote EXCEPT ![h] = [at |-> "save", copy |-> order]]
          /\ UNCHANGED <<order, task, booked, pending>>
      BY <1>9 DEF RequoteRead
    <2>2. requote'[h].copy = order /\ \A g \in Requotes : g # h => requote'[g] = requote[g]
      BY <1>2, <2>1
    <2> QED
      BY <1>1, <2>1, <2>2 DEF LifeKept
  <1>10. ASSUME NEW h \in Requotes, NEW q \in Prices, RequoteSave(h, q)
         PROVE  Goal
    <2>1. /\ requote' = [requote EXCEPT ![h].at = "end"]
          /\ order' = [requote[h].copy EXCEPT !.quote = q]
          /\ UNCHANGED <<task, booked, pending>>
      BY <1>10 DEF RequoteSave
    <2>2. /\ \A g \in Requotes : requote'[g].copy = requote[g].copy
          /\ order'.status = requote[h].copy.status /\ order'.refunded = requote[h].copy.refunded
          /\ order'.payMethod = requote[h].copy.payMethod
      BY <1>2, <2>1 DEF Row
    <2> QED
      BY <1>1, <2>1, <2>2 DEF LifeKept
  <1>11. ASSUME NEW t \in Tasks, PendingCompletes(t)
         PROVE  Goal
    <2>1. pending' \subseteq pending /\ UNCHANGED <<order, task, booked, requote>>
      BY <1>11 DEF PendingCompletes
    <2> QED
      BY <1>1, <1>a, <2>1 DEF LifeKept
  <1>12. CASE UNCHANGED lifeVars
    BY <1>1, <1>12 DEF lifeVars, LifeKept
  <1> HIDE DEF Goal
  <1> QED
    BY <1>4, <1>5, <1>6, <1>7, <1>8, <1>9, <1>10, <1>11, <1>12 DEF LifeNext, Refund, Requote

(* StillSettling: naming the sums that still back the order.                             *)
LEMMA StillSettling ==
  ASSUME NEW P, NEW D \in Nat, SumsUp(P)', Covers(P, D)',
         Backs(D, order.refunded)', \A h \in Requotes : Backs(D, requote[h].copy.refunded)',
         \A t \in Tasks : task'[t].at # "idle" => task'[t].quote = order'.quote,
         IF order'.payMethod = "paypal"
           THEN order'.quote # 0 /\ paid'.cents <= order'.quote + Tolerance
           ELSE paid'.cents <= Amount + Tolerance
  PROVE  Settling'
  BY Zenon DEF Settling

(* TakenTogether: what two shares back, but for half a cent each, they back together.   *)
LEMMA TakenTogether ==
  ASSUME NEW A \in Nat, NEW D \in Nat, NEW n \in Nat, NEW p \in Nat, NEW q \in Nat, NEW r \in Nat, NEW x \in Nat,
         2 * A * D + A * n >= 2 * q * r, 2 * A * p + A >= 2 * x * q
  PROVE  /\ 2 * A * (D + p) + A * (n + 1) >= 2 * q * r
         /\ 2 * A * (D + p) + A * (n + 1) >= 2 * q * (r + x)
  <1> DEFINE ad == A * D  an == A * n  ap == A * p  qr == q * r  cq == x * q
  <1>1. /\ ad \in Nat /\ an \in Nat /\ ap \in Nat /\ qr \in Nat /\ cq \in Nat
    OBVIOUS
  <1>2. 2 * A * (D + p) = 2 * ad + 2 * ap
    OBVIOUS
  <1>3. A * (n + 1) = an + A
    OBVIOUS
  <1>4. 2 * q * (r + x) = 2 * qr + 2 * cq
    OBVIOUS
  <1>5. 2 * ad + an >= 2 * qr /\ 2 * ap + A >= 2 * cq /\ 2 * q * r = 2 * qr
    OBVIOUS
  <1> DEFINE left == 2 * A * (D + p)  rest == A * (n + 1)  one == 2 * q * r  two == 2 * q * (r + x)
  <1>6. /\ left = 2 * ad + 2 * ap /\ rest = an + A /\ one = 2 * qr /\ two = 2 * qr + 2 * cq
    BY <1>2, <1>3, <1>4, <1>5
  <1>7. left + rest >= one /\ left + rest >= two
    <2> HIDE DEF left, rest, one, two, ad, an, ap, qr, cq
    <2> QED
      BY <1>1, <1>5, <1>6
  <1> QED
    BY <1>7

(* BacksMore: a refund that is booked backs what it adds to the balance, and       *)
(* what was backed before.                                                     *)
LEMMA BacksMore ==
  ASSUME LifeTypes, NEW t \in Tasks, t \notin booked, booked' = booked \union {t},
         order'.payMethod = order.payMethod, order'.quote = order.quote,
         order.payMethod = "paypal" => order.quote # 0 /\ task[t].quote = order.quote,
         NEW D \in Nat, NEW r \in Nat, Backs(D, r),
         NEW E, E = D + Prorated(t), NEW s, s = r + task[t].cents
  PROVE  Backs(E, r)' /\ Backs(E, s)'
  <1>1. /\ task[t].cents \in Nat /\ order.quote \in Nat /\ Amount \in Nat \ {0}
        /\ Prorated(t) \in Nat
    BY LifeNumbers
  <1>2. /\ Cardinality(booked) \in Nat
        /\ Cardinality(booked \union {t}) = Cardinality(booked) + 1
    BY FS_CardinalityType, FS_AddElement DEF LifeTypes
  <1>3. Cardinality(booked') = Cardinality(booked) + 1
    BY <1>2
  <1> DEFINE x == task[t].cents  q == order.quote  p == Prorated(t)  n == Cardinality(booked)
  <1>4. CASE order.payMethod = "paypal"
    <2>1. p = (2 * x * q + Amount) \div (2 * Amount)
      BY <1>4 DEF Prorated
    <2>2. 2 * Amount * p + Amount >= 2 * x * q
      BY <1>1, <2>1, RoundedUp
    <2>3. 2 * Amount * D + Amount * n >= 2 * q * r
      BY <1>4 DEF Backs
    <2> HIDE DEF x, q, p, n
    <2>5. /\ 2 * Amount * (D + p) + Amount * (n + 1) >= 2 * q * r
          /\ 2 * Amount * (D + p) + Amount * (n + 1) >= 2 * q * (r + x)
      <3>1. x \in Nat /\ q \in Nat /\ p \in Nat /\ n \in Nat
        BY <1>1, <1>2 DEF x, q, p, n
      <3> QED
        BY <1>1, <2>2, <2>3, <3>1, TakenTogether
    <2>6. E = D + p /\ s = r + x
      BY DEF p, x
    <2>7. 2 * Amount * E + Amount * (n + 1) >= 2 * q * r /\ 2 * Amount * E + Amount * (n + 1) >= 2 * q * s
      BY <2>5, <2>6
    <2>8. order'.payMethod = "paypal" /\ order'.quote = q /\ Cardinality(booked') = n + 1
      BY <1>3, <1>4 DEF q, n
    <2> QED
      BY <2>7, <2>8 DEF Backs
  <1>5. CASE order.payMethod # "paypal"
    <2>1. p = x /\ D >= r
      BY <1>5 DEF Prorated, Backs
    <2>2. E >= r /\ E >= s
      BY <1>1, <2>1
    <2> QED
      BY <1>5, <2>2 DEF Backs
  <1> QED
    BY <1>4, <1>5

(* NumberLater: LifeNumbers, of the next state.                                   *)
LEMMA NumberLater ==
  ASSUME NEW t \in Tasks
  PROVE  (LifeTypes => Prorated(t) \in Nat)'
  <1>1. LifeTypes => Prorated(t) \in Nat
    BY LifeNumbers
  <1> QED
    BY <1>1, PTL

(* SettlingStep: no step takes from what was given back more than it enters.        *)
LEMMA SettlingStep == LifeInv /\ [LifeNext]_lifeVars => (Fair => Settling)'
  <1> DEFINE Goal == Settling'
  <1> SUFFICES ASSUME LifeInv, [LifeNext]_lifeVars, Fair' PROVE Goal
    OBVIOUS
  <1> USE DEF requotes, money
  <1>1. LifeTypes /\ LifeKept
    BY DEF LifeInv, LifeKept
  <1>2. /\ task \in [Tasks -> [at: LifeStates, cents: Asks \union {0}, quote: Prices \union {0}]]
        /\ requote \in [Requotes -> [at: {"idle", "save", "end"}, copy: Row]]
        /\ order \in Row /\ given \in Nat /\ owed \in Int /\ pending \in SUBSET Tasks
    BY <1>1 DEF LifeTypes
  <1>3. /\ order.refunded \in Nat /\ \A h \in Requotes : requote[h].copy.refunded \in Nat
        /\ \A u \in Tasks : u \in booked => task[u].at = "end"
        /\ \A u \in Tasks : u \in pending => task[u].at \in {"rollback", "book", "end"}
        /\ \A u \in Tasks : task[u].at = "idle" => task[u].cents = 0 /\ task[u].quote = 0
        /\ \A h \in Requotes : requote[h].copy.payMethod = order.payMethod
    BY <1>1, <1>2 DEF LifeKept, Row
  <1>4. Entering \in SUBSET Tasks
    BY DEF Entering
  (* A step that replaces no quote: the sums are those before it.                *)
  <1>5. ASSUME Fair
        PROVE  \E P : \E D \in Nat :
                 /\ SumsUp(P) /\ Covers(P, D) /\ Backs(D, order.refunded)
                 /\ \A h \in Requotes : Backs(D, requote[h].copy.refunded)
    BY <1>5, Zenon DEF LifeInv, Settling
  <1>6. ASSUME Fair
        PROVE  /\ IF order.payMethod = "paypal"
                    THEN order.quote # 0 /\ paid.cents <= order.quote + Tolerance
                    ELSE paid.cents <= Amount + Tolerance
               /\ \A t \in Tasks : task[t].at # "idle" => task[t].quote = order.quote
    BY <1>6 DEF LifeInv, Settling
  <1>7. ASSUME NEW t \in Tasks, Refund(t)
        PROVE  Goal
    <2>1. /\ UNCHANGED <<paid, requote, requoted>> /\ order'.payMethod = order.payMethod
          /\ order'.quote = order.quote
      BY <1>2, <1>7 DEF Refund, Lookup, MarkRefunding, Dispatch, DispatchFails, MarkRefundFailed,
         MarkRefunded, RefundRejected, RefundingRow, RolledBackRow, RefundedRow, Row
    <2>2. Fair
      BY <2>1 DEF Fair
    <2>3. PICK P : \E D \in Nat :
                 /\ SumsUp(P) /\ Covers(P, D) /\ Backs(D, order.refunded)
                 /\ \A h \in Requotes : Backs(D, requote[h].copy.refunded)
      BY <1>5, <2>2, Zenon
    <2>4. PICK D \in Nat :
                 /\ SumsUp(P) /\ Covers(P, D) /\ Backs(D, order.refunded)
                 /\ \A h \in Requotes : Backs(D, requote[h].copy.refunded)
      BY <2>3, Zenon
    <2>5. \A S \in SUBSET Tasks : P[S] \in Nat
      BY <2>4 DEF SumsUp
    <2>6. /\ IF order'.payMethod = "paypal"
               THEN order'.quote # 0 /\ paid'.cents <= order'.quote + Tolerance
               ELSE paid'.cents <= Amount + Tolerance
          /\ \A u \in Tasks : task[u].at # "idle" => task[u].quote = order'.quote
      BY <1>6, <2>1, <2>2
    <2>7. Prorated(t) \in Nat
      BY <1>1, LifeNumbers
    (* A refund that moves on, and enters nothing.                             *)
    <2>8. ASSUME NEW state, Go(t, state), task[t].at # "idle", booked' = booked,
                 order'.refunded = order.refunded, Covers(P, D)'
          PROVE  Goal
      <3>1. /\ SumsUp(P)'
            /\ \A u \in Tasks : task'[u].at # "idle" => task'[u].quote = order'.quote
        BY <1>1, <2>1, <2>4, <2>6, <2>8, GoMoves, SameShares
      <3>2. /\ Backs(D, order.refunded)'
            /\ \A h \in Requotes : Backs(D, requote[h].copy.refunded)'
        <4>1. Backs(D, order.refunded)'
          BY <2>1, <2>4, <2>8 DEF Backs
        <4>2. \A h \in Requotes : Backs(D, requote[h].copy.refunded)'
          BY <2>1, <2>4, <2>8 DEF Backs
        <4> QED
          BY <4>1, <4>2
      <3> QED
        BY <2>6, <2>8, <3>1, <3>2, StillSettling
    <2>9. ASSUME NEW state, Go(t, state), task[t].at # "book", state # "book"
          PROVE  Entering' = Entering
      BY <1>1, <2>9, GoMoves DEF Entering
    <2>10. CASE MarkRefunding(t)
      <3>1. order'.refunded = order.refunded
        BY <1>2, <2>10 DEF MarkRefunding, RefundingRow, Row
      <3>2. Entering' = Entering
        BY <2>9, <2>10 DEF MarkRefunding
      <3> QED
        BY <2>4, <2>8, <2>10, <3>1, <3>2 DEF MarkRefunding, Covers
    <2>11. CASE MarkRefundFailed(t)
      <3>1. order'.refunded = order.refunded
        BY <1>2, <2>11 DEF MarkRefundFailed, RolledBackRow, Row
      <3>2. Entering' = Entering
        BY <2>9, <2>11 DEF MarkRefundFailed
      <3> QED
        BY <2>4, <2>8, <2>11, <3>1, <3>2 DEF MarkRefundFailed, Covers
    (* What the gateway takes on: given, or left pending.                       *)
    <2>a. ASSUME GatewayTakes(t), task[t].at = "dispatch"
          PROVE  /\ given' + owed' = given + owed + Prorated(t) \/ UNCHANGED money
                 /\ order.payMethod = paid.by => given' + owed' = given + owed + Prorated(t)
                 /\ owed' = P[pending'] /\ given' \in Nat /\ owed' \in Int
      <3>1. CASE GatewayGives(t) /\ UNCHANGED <<pending, owed>>
        BY <1>2, <2>4, <2>7, <3>1 DEF GatewayGives, Covers
      <3>2. CASE PayPalDefers(t) /\ UNCHANGED given
        <4>1. t \notin pending
          BY <1>3, <2>a
        <4>2. P[pending \union {t}] = P[pending] + Prorated(t)
          BY <1>2, <2>4, <4>1 DEF SumsUp
        <4> QED
          BY <1>2, <2>4, <2>7, <3>2, <4>2 DEF PayPalDefers, Covers
      <3> QED
        BY <2>a, <3>1, <3>2 DEF GatewayTakes
    <2>12. CASE DispatchFails(t)
      <3>1. /\ given' + owed' >= given + owed /\ owed' = P[pending']
            /\ given' \in Nat /\ owed' \in Int
        BY <1>2, <2>4, <2>7, <2>12, <2>a DEF DispatchFails, Covers
      <3>2. Entering' = Entering
        BY <2>9, <2>12 DEF DispatchFails
      <3>3. Covers(P, D)'
        BY <1>2, <1>4, <2>4, <2>5, <3>1, <3>2 DEF Covers
      <3> QED
        BY <2>8, <2>12, <3>3 DEF DispatchFails
    <2>13. CASE Dispatch(t)
      <3>1. /\ given' + owed' = given + owed + Prorated(t) /\ owed' = P[pending']
            /\ given' \in Nat /\ owed' \in Int
        BY <2>2, <2>13, <2>a DEF Dispatch, Fair
      <3>2. Entering' = Entering \union {t} /\ t \notin Entering
        BY <1>1, <2>13, GoMoves DEF Dispatch, Entering
      <3>3. P[Entering'] = P[Entering] + Prorated(t)
        BY <1>4, <2>4, <3>2 DEF SumsUp
      <3>4. Covers(P, D)'
        BY <1>2, <1>4, <2>4, <2>5, <2>7, <3>1, <3>3 DEF Covers
      <3> QED
        BY <2>8, <2>13, <3>4 DEF Dispatch
    <2>14. ASSUME NEW state, Go(t, state), task[t].at = "book", state # "book"
           PROVE  /\ Entering' \in SUBSET Tasks /\ P[Entering] = P[Entering'] + Prorated(t)
                  /\ P[Entering'] \in Nat
      <3>1. Entering' = Entering \ {t} /\ t \in Entering
        BY <1>1, <2>14, GoMoves DEF Entering
      <3>2. Entering = Entering' \union {t} /\ Entering' \in SUBSET Tasks /\ t \notin Entering'
        BY <1>4, <3>1
      <3> QED
        BY <2>4, <2>5, <3>2 DEF SumsUp
    <2>15. CASE RefundRejected(t)
      <3>1. P[Entering] = P[Entering'] + Prorated(t) /\ P[Entering'] \in Nat
        BY <2>14, <2>15 DEF RefundRejected
      <3>2. Covers(P, D)'
        BY <1>2, <2>4, <2>7, <2>15, <3>1 DEF RefundRejected, Covers
      <3> QED
        BY <2>8, <2>15, <3>2 DEF RefundRejected
    <2>16. CASE MarkRefunded(t)
      <3>1. P[Entering] = P[Entering'] + Prorated(t) /\ P[Entering'] \in Nat
        BY <2>14, <2>16 DEF MarkRefunded
      <3>2. PICK E \in Nat : E = D + Prorated(t)
        BY <2>7
      <3>3. Covers(P, E)'
        BY <1>2, <2>4, <2>7, <2>16, <3>1, <3>2 DEF MarkRefunded, Covers
      <3>4. /\ t \notin booked /\ booked' = booked \union {t}
            /\ order'.refunded = order.refunded + task[t].cents
            /\ order.payMethod = "paypal" => order.quote # 0 /\ task[t].quote = order.quote
        BY <1>2, <1>3, <1>6, <2>2, <2>16 DEF MarkRefunded, RefundedRow, Row
      <3>5. Backs(E, order.refunded)'
        <4>1. PICK r \in Nat : r = order.refunded
          BY <1>3
        <4>2. PICK s : s = r + task[t].cents
          OBVIOUS
        <4>3. Backs(D, r)
          BY <2>4, <4>1
        <4>4. Backs(E, s)'
          BY <1>1, <2>1, <3>2, <3>4, <4>2, <4>3, BacksMore
        <4> QED
          BY <3>4, <4>1, <4>2, <4>4 DEF Backs
      <3>6. ASSUME NEW h \in Requotes
            PROVE  Backs(E, requote[h].copy.refunded)'
        <4>1. PICK r \in Nat : r = requote[h].copy.refunded
          BY <1>3
        <4>2. Backs(D, r)
          BY <2>4, <4>1
        <4>3. Backs(E, r)'
          BY <1>1, <2>1, <3>2, <3>4, <4>2, BacksMore
        <4> QED
          BY <2>1, <4>1, <4>3 DEF Backs
      <3>7. /\ SumsUp(P)'
            /\ \A u \in Tasks : task'[u].at # "idle" => task'[u].quote = order'.quote
        BY <1>1, <2>1, <2>4, <2>6, <2>16, GoMoves, SameShares DEF MarkRefunded
      <3> QED
        BY <2>6, <3>2, <3>3, <3>5, <3>6, <3>7, StillSettling
    <2>17. CASE \E cents \in Asks : Lookup(t, cents)
      <3>1. PICK cents \in Asks : Lookup(t, cents)
        BY <2>17
      <3>2. /\ task' = [task EXCEPT ![t] = [at |-> "mark", cents |-> cents, quote |-> order.quote]]
            /\ task[t].at = "idle" /\ UNCHANGED <<order, given, pending, owed, booked>>
        BY <3>1 DEF Lookup
      <3>3. /\ task'[t] = [at |-> "mark", cents |-> cents, quote |-> order.quote]
            /\ \A u \in Tasks : u # t => task'[u] = task[u]
        BY <1>2, <3>2
      <3>4. Entering' = Entering /\ t \notin Entering
        BY <3>2, <3>3 DEF Entering
      <3>5. \A u \in Tasks : u # t => Prorated(u)' = Prorated(u)
        BY <3>2, <3>3 DEF Prorated
      <3>6. Prorated(t) = 0
        BY <1>3, <3>2 DEF Prorated
      <3>7. PICK n \in Nat : n = Prorated(t)'
        <4>1. LifeTypes'
          BY <1>1, LifeTypesStep DEF LifeInv
        <4>2. Prorated(t)' \in Nat
          BY <4>1, NumberLater
        <4> QED
          BY <4>2
      <3> DEFINE T == [S \in SUBSET Tasks |-> P[S] + IF t \in S THEN n ELSE 0]
      <3>8. /\ T \in [SUBSET Tasks -> Nat] /\ T[{}] = 0 /\ T[Entering] = P[Entering]
            /\ T[pending] = P[pending]
        <4>1. t \notin pending
          BY <1>3, <3>2
        <4> QED
          BY <1>2, <1>4, <2>4, <2>5, <3>4, <4>1 DEF SumsUp
      <3>9. ASSUME NEW S \in SUBSET Tasks, NEW u \in Tasks \ S
            PROVE  T[S \union {u}] = T[S] + Prorated(u)'
        <4>1. /\ S \union {u} \in SUBSET Tasks /\ P[S \union {u}] = P[S] + Prorated(u)
              /\ P[S] \in Nat
          BY <2>4, <2>5 DEF SumsUp
        <4>2. CASE u = t
          BY <3>6, <3>7, <4>1, <4>2
        <4>3. CASE u # t
          <5>1. T[S \union {u}] = P[S \union {u}] + IF t \in S THEN n ELSE 0
            BY <4>1, <4>3
          <5>2. T[S] = P[S] + IF t \in S THEN n ELSE 0
            OBVIOUS
          <5>3. Prorated(u) \in Nat
            BY <1>1, LifeNumbers
          <5> DEFINE x == P[S]  y == Prorated(u)  z == IF t \in S THEN n ELSE 0
          <5>4. x \in Nat /\ y \in Nat /\ z \in Nat
            BY <4>1, <5>3
          <5>5. x + y + z = x + z + y
            <6> HIDE DEF x, y, z
            <6> QED
              BY <5>4
          <5> QED
            BY <3>5, <4>1, <4>3, <5>1, <5>2, <5>5
        <4> QED
          BY <4>2, <4>3
      <3> HIDE DEF T
      <3>10. PICK Q : Q = T
        OBVIOUS
      <3>11. SumsUp(Q)'
        BY <3>8, <3>9, <3>10 DEF SumsUp
      <3>12. Covers(Q, D)'
        BY <2>4, <3>2, <3>4, <3>8, <3>10 DEF Covers
      <3>13. /\ Backs(D, order.refunded)'
             /\ \A h \in Requotes : Backs(D, requote[h].copy.refunded)'
        BY <2>1, <2>4, <3>2 DEF Backs
      <3>14. \A u \in Tasks : task'[u].at # "idle" => task'[u].quote = order'.quote
        BY <2>1, <2>6, <3>3
      <3> QED
        BY <2>6, <3>11, <3>12, <3>13, <3>14, StillSettling
    <2> QED
      BY <1>7, <2>10, <2>11, <2>12, <2>13, <2>15, <2>16, <2>17 DEF Refund
  <1>8. ASSUME NEW h \in Requotes, RequoteRead(h)
        PROVE  Goal
    <2>1. /\ requote' = [requote EXCEPT ![h] = [at |-> "save", copy |-> order]]
          /\ UNCHANGED <<order, paid, task, given, pending, owed, booked, requoted>>
      BY <1>8 DEF RequoteRead
    <2>2. Fair
      BY <2>1 DEF Fair
    <2>3. PICK P : \E D \in Nat :
                 /\ SumsUp(P) /\ Covers(P, D) /\ Backs(D, order.refunded)
                 /\ \A g \in Requotes : Backs(D, requote[g].copy.refunded)
      BY <1>5, <2>2, Zenon
    <2>4. PICK D \in Nat :
                 /\ SumsUp(P) /\ Covers(P, D) /\ Backs(D, order.refunded)
                 /\ \A g \in Requotes : Backs(D, requote[g].copy.refunded)
      BY <2>3, Zenon
    <2>5. \A g \in Requotes : requote'[g].copy = IF g = h THEN order ELSE requote[g].copy
      BY <1>2, <2>1
    <2>6. /\ Backs(D, order.refunded)'
          /\ \A g \in Requotes : Backs(D, requote[g].copy.refunded)'
      <3>1. ASSUME NEW g \in Requotes
            PROVE  Backs(D, requote[g].copy.refunded)'
        BY <2>1, <2>4, <2>5 DEF Backs
      <3>2. Backs(D, order.refunded)'
        BY <2>1, <2>4 DEF Backs
      <3> QED
        BY <3>1, <3>2
    <2>7. SumsUp(P)' /\ Entering' = Entering
      BY <2>1, <2>4, SameShares DEF Entering
    <2>8. /\ \A u \in Tasks : task'[u].at # "idle" => task'[u].quote = order'.quote
          /\ IF order'.payMethod = "paypal"
               THEN order'.quote # 0 /\ paid'.cents <= order'.quote + Tolerance
               ELSE paid'.cents <= Amount + Tolerance
      BY <1>6, <2>1, <2>2
    <2> QED
      BY <2>1, <2>4, <2>6, <2>7, <2>8, StillSettling DEF Covers
  <1>9. ASSUME NEW h \in Requotes, NEW q \in Prices, RequoteSave(h, q)
        PROVE  Goal
    <2>1. /\ requote' = [requote EXCEPT ![h].at = "end"]
          /\ order' = [requote[h].copy EXCEPT !.quote = q]
          /\ UNCHANGED <<paid, task, given, pending, owed, booked>>
      BY <1>9 DEF RequoteSave
    <2>2. q = order.quote /\ ~ requoted
      BY <1>9, Zenon DEF RequoteSave, Fair
    <2>3. /\ order'.quote = order.quote /\ order'.payMethod = order.payMethod
          /\ order'.refunded = requote[h].copy.refunded
      BY <1>2, <1>3, <2>1, <2>2 DEF Row
    <2>4. \A g \in Requotes : requote'[g].copy = requote[g].copy
      BY <1>2, <2>1
    <2>5. Fair
      BY <2>1, <2>2, <2>3 DEF Fair
    <2>6. PICK P : \E D \in Nat :
                 /\ SumsUp(P) /\ Covers(P, D) /\ Backs(D, order.refunded)
                 /\ \A g \in Requotes : Backs(D, requote[g].copy.refunded)
      BY <1>5, <2>5, Zenon
    <2>7. PICK D \in Nat :
                 /\ SumsUp(P) /\ Covers(P, D) /\ Backs(D, order.refunded)
                 /\ \A g \in Requotes : Backs(D, requote[g].copy.refunded)
      BY <2>6, Zenon
    <2>8. /\ Backs(D, order.refunded)'
          /\ \A g \in Requotes : Backs(D, requote[g].copy.refunded)'
      <3>1. ASSUME NEW g \in Requotes
            PROVE  Backs(D, requote[g].copy.refunded)'
        BY <2>1, <2>3, <2>4, <2>7 DEF Backs
      <3>2. Backs(D, order.refunded)'
        BY <2>1, <2>3, <2>7 DEF Backs
      <3> QED
        BY <3>1, <3>2
    <2>9. SumsUp(P)' /\ Entering' = Entering
      BY <2>1, <2>3, <2>7, SameShares DEF Entering
    <2>10. /\ \A u \in Tasks : task'[u].at # "idle" => task'[u].quote = order'.quote
           /\ IF order'.payMethod = "paypal"
                THEN order'.quote # 0 /\ paid'.cents <= order'.quote + Tolerance
                ELSE paid'.cents <= Amount + Tolerance
      BY <1>6, <2>1, <2>3, <2>5
    <2> QED
      BY <2>1, <2>7, <2>8, <2>9, <2>10, StillSettling DEF Covers
  <1>10. CASE UNCHANGED lifeVars
    <2>1. Fair /\ Settling
      BY <1>10 DEF lifeVars, Fair, LifeInv
    <2>2. PICK P : \E D \in Nat :
                 /\ SumsUp(P) /\ Covers(P, D) /\ Backs(D, order.refunded)
                 /\ \A g \in Requotes : Backs(D, requote[g].copy.refunded)
      BY <1>5, <2>1, Zenon
    <2>3. PICK D \in Nat :
                 /\ SumsUp(P) /\ Covers(P, D) /\ Backs(D, order.refunded)
                 /\ \A g \in Requotes : Backs(D, requote[g].copy.refunded)
      BY <2>2, Zenon
    <2>4. SumsUp(P)' /\ Entering' = Entering
      BY <1>10, <2>3, SameShares DEF lifeVars, Entering
    <2>5. /\ Backs(D, order.refunded)'
          /\ \A g \in Requotes : Backs(D, requote[g].copy.refunded)'
      BY <1>10, <2>3 DEF lifeVars, Backs
    <2>6. /\ \A u \in Tasks : task'[u].at # "idle" => task'[u].quote = order'.quote
          /\ IF order'.payMethod = "paypal"
               THEN order'.quote # 0 /\ paid'.cents <= order'.quote + Tolerance
               ELSE paid'.cents <= Amount + Tolerance
      BY <1>6, <1>10, <2>1 DEF lifeVars
    <2> QED
      BY <1>10, <2>3, <2>4, <2>5, <2>6, StillSettling DEF lifeVars, Covers
  <1>11. ASSUME NEW t \in Tasks, PendingCompletes(t)
         PROVE  Goal
    <2>1. /\ t \in pending /\ pending' = pending \ {t}
          /\ given' = given + Prorated(t) /\ owed' = owed - Prorated(t)
          /\ UNCHANGED <<order, paid, task, requote, booked, requoted>>
      BY <1>11 DEF PendingCompletes
    <2>2. Fair
      BY <2>1 DEF Fair
    <2>3. PICK P : \E D \in Nat :
                 /\ SumsUp(P) /\ Covers(P, D) /\ Backs(D, order.refunded)
                 /\ \A h \in Requotes : Backs(D, requote[h].copy.refunded)
      BY <1>5, <2>2, Zenon
    <2>4. PICK D \in Nat :
                 /\ SumsUp(P) /\ Covers(P, D) /\ Backs(D, order.refunded)
                 /\ \A h \in Requotes : Backs(D, requote[h].copy.refunded)
      BY <2>3, Zenon
    <2>5. SumsUp(P)' /\ Entering' = Entering
      BY <2>1, <2>4, SameShares DEF Entering
    <2>6. Covers(P, D)'
      <3>1. pending = pending' \union {t} /\ pending' \in SUBSET Tasks /\ t \notin pending'
        BY <1>2, <2>1
      <3>2. P[pending] = P[pending'] + Prorated(t) /\ P[pending'] \in Nat
        BY <2>4, <3>1 DEF SumsUp
      <3>3. Prorated(t) \in Nat
        BY <1>1, LifeNumbers
      <3> QED
        BY <1>2, <2>1, <2>4, <2>5, <3>2, <3>3 DEF Covers
    <2>7. /\ Backs(D, order.refunded)'
          /\ \A h \in Requotes : Backs(D, requote[h].copy.refunded)'
      BY <2>1, <2>4 DEF Backs
    <2>8. /\ \A u \in Tasks : task'[u].at # "idle" => task'[u].quote = order'.quote
          /\ IF order'.payMethod = "paypal"
               THEN order'.quote # 0 /\ paid'.cents <= order'.quote + Tolerance
               ELSE paid'.cents <= Amount + Tolerance
      BY <1>6, <2>1, <2>2
    <2> QED
      BY <2>4, <2>5, <2>6, <2>7, <2>8, StillSettling
  <1> HIDE DEF Goal
  <1> QED
    BY <1>7, <1>8, <1>9, <1>10, <1>11 DEF LifeNext, Requote

(* LifeStarts: nothing was given back yet, and the channel was paid what the order  *)
(* asks, to a cent.                                                            *)
LEMMA LifeStarts == LifeInit => LifeInv
  <1> SUFFICES ASSUME LifeInit PROVE LifeInv
    OBVIOUS
  <1>1. /\ order \in [status: {"Paid"}, payMethod: Methods, quote: Prices \union {0},
                      refunded: {0}, refundNo: {NoNumber}]
        /\ paid \in [by: Methods, cents: {Amount} \union UNION {q - 1 .. q + 1 : q \in Prices}]
        /\ task = [t \in Tasks |-> [at |-> "idle", cents |-> 0, quote |-> 0]]
        /\ requote = [h \in Requotes |-> [at |-> "idle", copy |-> order]]
        /\ given = 0 /\ pending = {} /\ owed = 0 /\ booked = {}
    BY DEF LifeInit
  <1>2. order \in Row /\ order.status = "Paid" /\ order.refunded = 0
    BY <1>1 DEF Row
  <1>3. LifeTypes
    <2>1. paid \in [by: Methods, cents: Nat]
      <3>1. \A q \in Prices : q \in Nat \ {0} /\ q - 1 .. q + 1 \subseteq Nat
        BY LifeAssumption
      <3>2. {Amount} \union UNION {q - 1 .. q + 1 : q \in Prices} \subseteq Nat
        BY <3>1, AmountAssumption
      <3> QED
        BY <1>1, <3>2
    <2>2. task \in [Tasks -> [at: LifeStates, cents: Asks \union {0}, quote: Prices \union {0}]]
      BY <1>1 DEF LifeStates
    <2>3. requote \in [Requotes -> [at: {"idle", "save", "end"}, copy: Row]]
      BY <1>1, <1>2
    <2>4. requoted \in BOOLEAN
      BY Zenon DEF LifeInit
    <2>5. IsFiniteSet(booked)
      BY <1>1, FS_EmptySet
    <2> QED
      BY <1>1, <1>2, <2>1, <2>2, <2>3, <2>4, <2>5 DEF LifeTypes
  <1>4. LifeKept
    BY <1>1, <1>2, <1>3 DEF LifeKept
  <1>5. ASSUME Fair PROVE Settling
    <2>1. /\ order.quote \in Nat /\ paid.cents \in Nat /\ Amount \in Nat
          /\ order.payMethod = paid.by
      BY <1>2, <1>3, <1>5, LifeAssumption, AmountAssumption DEF LifeTypes, Row, Fair
    <2>2. IF order.payMethod = "paypal"
            THEN order.quote # 0 /\ paid.cents <= order.quote + Tolerance
            ELSE paid.cents <= Amount + Tolerance
      <3>1. AmountValid(order, paid.cents, IF paid.by = "paypal" THEN "USD" ELSE "CNY")
        BY DEF LifeInit
      <3> QED
        BY <2>1, <3>1 DEF AmountValid, Near, Tolerance
    <2>3. PICK P : P = [S \in SUBSET Tasks |-> 0]
      OBVIOUS
    <2>4. \A t \in Tasks : Prorated(t) = 0
      BY <1>1 DEF Prorated
    <2>5. SumsUp(P) /\ Covers(P, 0)
      BY <1>1, <2>3, <2>4 DEF SumsUp, Entering, Covers
    <2>6. Backs(0, order.refunded) /\ \A h \in Requotes : Backs(0, requote[h].copy.refunded)
      <3>1. Cardinality(booked) = 0
        BY <1>1, FS_EmptySet
      <3>2. Backs(0, 0)
        BY <2>1, <3>1 DEF Backs
      <3> QED
        BY <1>1, <1>2, <3>2
    <2> QED
      BY <1>1, <2>2, <2>5, <2>6 DEF Settling
  <1> QED
    BY <1>4, <1>5 DEF LifeInv

(* LifeInvariant: the invariant of a paid order.                                   *)
LEMMA LifeInvariant == LifeSpec => []LifeInv
  <1>1. LifeInv /\ [LifeNext]_lifeVars => LifeInv'
    BY LifeKeptStep, SettlingStep DEF LifeInv
  <1> QED
    BY <1>1, LifeStarts, PTL DEF LifeSpec

(* The row, the tasks and the copies stay of their types, whatever is interleaved   *)
(* with whatever (RefundService.execute, PaypalProvider.createOrder).               *)
THEOREM LifeCorrect == LifeSpec => []LifeTypeOK
  <1>1. LifeInv => LifeTypeOK
    <2> SUFFICES ASSUME LifeTypes PROVE LifeTypeOK
      BY DEF LifeInv, LifeKept
    <2>1. \A h \in Requotes : requote[h].at \in {"idle", "save", "end"} /\ requote[h].copy \in Row
      BY DEF LifeTypes
    <2> QED
      BY <2>1, Zenon DEF LifeTypes, LifeTypeOK, LifeStates
  <1> QED
    BY <1>1, LifeInvariant, PTL

(* Who is refunded in full by the channel that was paid gets back what was paid,    *)
(* but for the roundings: for every price, quote, and number of refunds and of      *)
(* createOrders that save over them (RefundService.execute, dispatch).  What PayPal  *)
(* left pending is missing, as long as it is pending, and nothing beyond it        *)
(* (PayPalService.refund).                                                        *)
THEOREM GivenBack == LifeSpec => []FullyGivenBack
  <1>1. LifeInv => FullyGivenBack
    <2> SUFFICES ASSUME LifeInv, order.status = "Refunded", Fair
                 PROVE  Short - owed <= Rounding /\ (pending = {} => Short <= Rounding)
      BY Zenon DEF FullyGivenBack, Fair
    <2>1. LifeTypes /\ Settling /\ order.refunded >= Amount - Tolerance
      BY DEF LifeInv, LifeKept
    <2>2. /\ order.quote \in Nat /\ paid.cents \in Nat /\ Amount \in Nat \ {0}
          /\ order.refunded \in Nat /\ given \in Nat /\ owed \in Int
      <3>1. /\ order.quote \in Prices \union {0} /\ order.refunded \in Nat
            /\ paid.cents \in Nat /\ given \in Nat /\ owed \in Int
        BY <2>1 DEF LifeTypes, Row
      <3>2. \A n \in Prices \union {0} : n \in Nat
        BY LifeAssumption
      <3> QED
        BY <3>1, <3>2, AmountAssumption
    <2>3. PICK P : \E D \in Nat : /\ SumsUp(P) /\ Covers(P, D)
                                  /\ Backs(D, order.refunded)
      BY <2>1, Zenon DEF Settling
    <2>4. PICK D \in Nat : /\ SumsUp(P) /\ Covers(P, D)
                           /\ Backs(D, order.refunded)
      BY <2>3, Zenon
    <2>5. P[Entering] \in Nat
      BY <2>4 DEF SumsUp, Entering
    <2>6. given + owed >= D
      BY <2>2, <2>4, <2>5 DEF Covers
    <2>7. Cardinality(booked) \in Nat
      BY <2>1, FS_CardinalityType DEF LifeTypes
    <2>8. Short - owed <= Rounding
      <3>1. CASE order.payMethod = "paypal"
        <4>1. 2 * Amount * D + Amount * Cardinality(booked) >= 2 * order.quote * order.refunded
          BY <2>4, <3>1 DEF Backs
        <4>2. CentWorth \in Nat /\ Amount * CentWorth >= order.quote
          BY <2>2, <3>1, CeilingCovers DEF CentWorth
        <4>3. order.quote - D <= CentWorth + Cardinality(booked)
          BY <2>1, <2>2, <2>7, <4>1, <4>2, Enough DEF Tolerance
        <4>4. paid.cents <= order.quote + Tolerance
          BY <2>1, <3>1 DEF Settling
        <4> QED
          BY <2>2, <2>6, <2>7, <4>2, <4>3, <4>4 DEF Short, Rounding, Tolerance
      <3>2. CASE order.payMethod # "paypal"
        <4>1. D >= order.refunded /\ paid.cents <= Amount + Tolerance /\ CentWorth = Tolerance
          BY <2>1, <2>4, <3>2 DEF Backs, Settling, CentWorth
        <4> QED
          BY <2>1, <2>2, <2>6, <2>7, <4>1 DEF Short, Rounding, Tolerance
      <3> QED
        BY <3>1, <3>2
    <2>9. ASSUME pending = {} PROVE Short <= Rounding
      <3>1. owed = 0
        BY <2>4, <2>9 DEF Covers, SumsUp
      <3> QED
        BY <2>2, <2>8, <3>1 DEF Short
    <2> QED
      BY <2>8, <2>9
  <1> QED
    BY <1>1, LifeInvariant, PTL
-----------------------------------------------------------------------------
(* MCServer.                                                                 *)

(* CastStep: a step of the server is a step of each of its parts, or leaves it.      *)
LEMMA CastStep ==
  ASSUME cast \in Casts, [Next]_vars
  PROVE  /\ (cast \in Casts)' /\ [ShopNext]_<<merchantVars, gatewayVars>>
         /\ [RatesNext]_ratesVars /\ [OfficeNext]_officeVars
         /\ [ConsoleNext]_<<screenVars, sheetVars>> /\ [LifeNext]_lifeVars
  <1> DEFINE Goal == /\ [ShopNext]_<<merchantVars, gatewayVars>>
                     /\ [RatesNext]_ratesVars /\ [OfficeNext]_officeVars
                     /\ [ConsoleNext]_<<screenVars, sheetVars>> /\ [LifeNext]_lifeVars
  <1>1. /\ cast.clerks \subseteq Clerks /\ cast.calls \subseteq Calls
        /\ cast.servers \subseteq Servers /\ cast.writes \subseteq Writes
        /\ cast.quotes \subseteq Quotes /\ cast.desks \subseteq Desks
        /\ cast.numbers \subseteq Numbers /\ cast.handled \subseteq Numbers
        /\ cast.filters \subseteq Filters /\ cast.turns \subseteq 1..Turns
        /\ cast.deeds \subseteq Deeds /\ cast.hands \subseteq Editors \X Fields
        /\ cast.refunds \subseteq Tasks /\ cast.requotes \subseteq Requotes
    BY CastAssumption, Zenon
  <1>2. cast' = cast
    BY Zenon DEF Next, vars
  <1> SUFFICES Goal
    BY <1>2, Zenon
  <1>a. UNCHANGED <<merchantVars, gatewayVars>> <=> UNCHANGED merchantVars /\ UNCHANGED gatewayVars
    OBVIOUS
  <1>b. UNCHANGED <<screenVars, sheetVars>> <=> UNCHANGED screenVars /\ UNCHANGED sheetVars
    OBVIOUS
  <1> HIDE DEF Goal
  <1>3. CASE Shop /\ UNCHANGED <<ratesVars, officeVars, screenVars, sheetVars, lifeVars>>
    <2>1. ASSUME NEW d \in cast.calls, NEW i \in Ids, NEW stamp \in 0..(MaxNow + MaxSkew),
                 Sign(MessageOf[d], i, stamp)
          PROVE  GatewayNext
      <3>1. MessageOf[d] \in Messages
        BY <1>1, CallAssumption
      <3> QED
        BY <2>1, <3>1, Zenon DEF GatewayNext
    <2>2. ASSUME NEW d \in cast.calls, Serve(d)
          PROVE  GatewayNext
      BY <1>1, <2>2, Zenon DEF GatewayNext
    <2>3. ASSUME NEW t \in cast.clerks, Clerk(t)
          PROVE  MerchantsNext
      BY <1>1, <2>3, Zenon DEF MerchantsNext
    <2>4. ShopNext
      BY <1>3, <2>1, <2>2, <2>3, Zenon DEF Shop, ShopNext, GatewayNext
    <2>9. /\ UNCHANGED ratesVars /\ UNCHANGED officeVars /\ UNCHANGED screenVars
          /\ UNCHANGED sheetVars /\ UNCHANGED lifeVars
      BY <1>3
    <2> QED
      BY <1>a, <1>b, <2>4, <2>9, Zenon DEF Goal
  <1>4. CASE Rating /\ UNCHANGED <<merchantVars, gatewayVars, officeVars, screenVars, sheetVars, lifeVars>>
    <2>1. RatesNext
      BY <1>1, <1>4, Zenon DEF Rating, RatesNext
    <2>9. /\ UNCHANGED merchantVars /\ UNCHANGED gatewayVars /\ UNCHANGED officeVars
          /\ UNCHANGED screenVars /\ UNCHANGED sheetVars /\ UNCHANGED lifeVars
      BY <1>4
    <2> QED
      BY <1>a, <1>b, <2>1, <2>9, Zenon DEF Goal
  <1>5. CASE Back /\ UNCHANGED <<merchantVars, gatewayVars, ratesVars, screenVars, sheetVars, lifeVars>>
    <2>1. OfficeNext
      BY <1>1, <1>5, Zenon DEF Back, OfficeNext
    <2>9. /\ UNCHANGED merchantVars /\ UNCHANGED gatewayVars /\ UNCHANGED ratesVars
          /\ UNCHANGED screenVars /\ UNCHANGED sheetVars /\ UNCHANGED lifeVars
      BY <1>5
    <2> QED
      BY <1>a, <1>b, <2>1, <2>9, Zenon DEF Goal
  <1>6. CASE Pages /\ UNCHANGED <<merchantVars, gatewayVars, ratesVars, officeVars, sheetVars, lifeVars>>
    <2>1. ScreenNext
      BY <1>1, <1>6, Zenon DEF Pages, ScreenNext
    <2>9. /\ UNCHANGED merchantVars /\ UNCHANGED gatewayVars /\ UNCHANGED ratesVars
          /\ UNCHANGED officeVars /\ UNCHANGED sheetVars /\ UNCHANGED lifeVars
      BY <1>6
    <2> QED
      BY <1>a, <1>b, <2>1, <2>9, Zenon DEF Goal, ConsoleNext
  <1>7. ASSUME NEW hand \in cast.hands, Settings(hand[1]) \/ Edit(hand[1], hand[2]),
               UNCHANGED <<merchantVars, gatewayVars, ratesVars, officeVars, screenVars, lifeVars>>
        PROVE  Goal
    <2>1. hand[1] \in Editors /\ hand[2] \in Fields
      BY <1>1
    <2>2. SheetNext
      BY <1>7, <2>1, Zenon DEF SheetNext
    <2>9. /\ UNCHANGED merchantVars /\ UNCHANGED gatewayVars /\ UNCHANGED ratesVars
          /\ UNCHANGED officeVars /\ UNCHANGED screenVars /\ UNCHANGED lifeVars
      BY <1>7
    <2> QED
      BY <1>a, <1>b, <2>2, <2>9, Zenon DEF Goal, ConsoleNext
  <1>8. CASE Life /\ UNCHANGED <<merchantVars, gatewayVars, ratesVars, officeVars, screenVars, sheetVars>>
    <2>1. LifeNext
      BY <1>1, <1>8, Zenon DEF Life, LifeNext
    <2>9. /\ UNCHANGED merchantVars /\ UNCHANGED gatewayVars /\ UNCHANGED ratesVars
          /\ UNCHANGED officeVars /\ UNCHANGED screenVars /\ UNCHANGED sheetVars
      BY <1>8
    <2> QED
      BY <1>a, <1>b, <2>1, <2>9, Zenon DEF Goal
  <1>9. CASE UNCHANGED vars
    BY <1>9 DEF vars, Goal
  <1>10. CASE Next
    BY <1>3, <1>4, <1>5, <1>6, <1>7, <1>8, <1>10 DEF Next, Others
  <1> QED
    BY <1>9, <1>10

(* ServerParts: so every part behaves as its own specification says.               *)
LEMMA ServerParts ==
  Spec => ShopSpec /\ RatesSpec /\ OfficeSpec /\ ConsoleSpec /\ LifeSpec
  <1>1. Init => /\ cast \in Casts /\ ShopInit /\ RatesInit /\ OfficeInit
                /\ ConsoleInit /\ LifeInit
    BY Zenon DEF Init
  <1>2. cast \in Casts /\ [Next]_vars =>
          /\ (cast \in Casts)' /\ [ShopNext]_<<merchantVars, gatewayVars>>
          /\ [RatesNext]_ratesVars /\ [OfficeNext]_officeVars
          /\ [ConsoleNext]_<<screenVars, sheetVars>> /\ [LifeNext]_lifeVars
    BY CastStep
  <1> QED
    BY <1>1, <1>2, PTL DEF Spec, ShopSpec, RatesSpec, OfficeSpec, ConsoleSpec, LifeSpec

(* Of the server as it is run every part keeps its types, whatever the cast (the     *)
(* tables, queues and caches of the services, and the requests over them).        *)
THEOREM ServerTypes == Spec => []ServerTypeOK
  <1>1. MerchantsTypeOK /\ GatewayTypeOK /\ RatesTypeOK /\ OfficeTypeOK /\ ConsoleTypeOK /\ LifeTypeOK
          => ServerTypeOK
    BY Zenon DEF ServerTypeOK
  <1> QED
    BY <1>1, ServerParts, ShopTypes, RatesTypes, OfficeTypes, ConsoleTypes, LifeCorrect, PTL
=============================================================================
