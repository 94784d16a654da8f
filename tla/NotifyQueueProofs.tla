-------------------------- MODULE NotifyQueueProofs -------------------------
(* Theorems about NotifyQueue for every number of notifications and of runs    *)
(* of the job that overlap, every sequence of delays and size of a batch.    *)
EXTENDS NotifyQueue, FiniteSetTheorems, TLAPS

Rows == [status: {"None", "Pending", "Success", "Failed", "Exhausted"},
         retryCount: Nat, age: Nat \union {Never}]

(* What a row or a copy of one may say of item i.  Runs of the job save their  *)
(* copies over each other, so a copy must be as true as the row; a row counts *)
(* no more retries than posts failed, until the delays are used up.          *)
Spent(i) == failures[i] = Limit

True(r, i) ==
  /\ r \in Rows
  /\ r.status = "Success" => i \in delivered
  /\ replays = 0 => (r.retryCount <= failures[i] \/ Spent(i))
  /\ replays = 0 => (r.status = "Exhausted" => Spent(i))

QInv ==
  /\ DOMAIN queue = Items /\ \A i \in Items : True(queue[i], i)
  /\ DOMAIN copy = Workers
  /\ \A w \in Workers : DOMAIN copy[w] = Items /\ \A i \in Items : True(copy[w][i], i)
  /\ failures \in [Items -> 0..Limit] /\ replays \in Nat
  /\ replays = 0 => replaying = {}

(* LimitIsNat: there is at least one delay.                                   *)
LEMMA LimitIsNat == Limit \in Nat \ {0}
  BY DelayAssumption DEF Limit

(* QInitInv: the invariant holds of the empty queue.                          *)
LEMMA QInitInv == Init => QInv
  <1> SUFFICES ASSUME Init PROVE QInv
    OBVIOUS
  <1>1. \A i \in Items : True(Absent, i)
    BY LimitIsNat DEF Init, True, Rows, Absent, Spent
  <1> QED
    BY <1>1, LimitIsNat DEF Init, QInv

(* Later: what was true of an item stays true as posts are answered.           *)
LEMMA Later ==
  ASSUME QInv, NEW i \in Items, NEW r, True(r, i),
         delivered \subseteq delivered', failures' \in [Items -> 0..Limit],
         failures[i] <= failures'[i], replays' \in Nat, replays <= replays'
  PROVE  True(r, i)'
  <1>1. failures[i] \in 0..Limit /\ failures'[i] \in 0..Limit /\ replays \in Nat
    BY DEF QInv
  <1>2. Spent(i) => Spent(i)'
    BY <1>1, LimitIsNat DEF Spent
  <1>3. replays' = 0 => replays = 0
    BY <1>1
  <1> QED
    BY <1>1, <1>2, <1>3 DEF True, Rows

(* AgedIsTrue: time changes only the age of a row.                            *)
LEMMA AgedIsTrue ==
  ASSUME NEW i \in Items, NEW r, True(r, i)
  PROVE  True(Aged(r), i)
  <1> DEFINE age == IF r.age # Never /\ r.age < Longest THEN r.age + 1 ELSE r.age
  <1>1. r \in Rows /\ Aged(r) = [r EXCEPT !.age = age] /\ age \in Nat \union {Never}
    BY DEF True, Rows, Aged
  <1> HIDE DEF age
  <1>2. Aged(r) \in Rows /\ Aged(r).status = r.status /\ Aged(r).retryCount = r.retryCount
    BY <1>1 DEF Rows
  <1> QED
    BY <1>2 DEF True

(* QueueStep: every step keeps the invariant.                                 *)
LEMMA QueueStep == QInv /\ [Next]_vars => QInv'
  <1> SUFFICES ASSUME QInv, [Next]_vars PROVE QInv'
    OBVIOUS
  <1> USE DEF history, admin
  <1> DEFINE Steady == UNCHANGED <<delivered, failures, replays>>
  <1>1. ASSUME Steady, NEW i \in Items, NEW r, True(r, i) PROVE True(r, i)'
    BY <1>1 DEF True, Spent
  <1>2. ASSUME NEW i \in Items, Enqueue(i)
        PROVE  QInv'
    <2>1. [queue[i] EXCEPT !.status = "Pending"] \in Rows
      BY DEF QInv, True, Rows
    <2>2. True([queue[i] EXCEPT !.status = "Pending"], i)
      BY <2>1 DEF QInv, True, Rows
    <2>3. Steady /\ copy' = copy /\ replaying' = replaying
      BY <1>2 DEF Enqueue
    <2>4. queue' = [queue EXCEPT ![i] = [queue[i] EXCEPT !.status = "Pending"]]
      BY <1>2 DEF Enqueue
    <2>5. DOMAIN queue' = Items /\ \A j \in Items : True(queue'[j], j)
      BY <2>2, <2>4 DEF QInv
    <2> QED
      BY <1>1, <2>3, <2>5 DEF QInv
  <1>3. ASSUME NEW i \in Items, ReplayRead(i)
        PROVE  QInv'
    <2>1. /\ queue' = queue /\ copy' = copy /\ replays' = replays + 1
          /\ delivered' = delivered /\ failures' = failures
      BY <1>3 DEF ReplayRead
    <2>2. replays' \in Nat /\ replays <= replays' /\ replays' # 0
      BY <2>1 DEF QInv
    <2>3. \A j \in Items : \A r : True(r, j) => True(r, j)'
      BY <2>1, <2>2 DEF True, Spent
    <2> QED
      BY <2>1, <2>2, <2>3 DEF QInv
  <1>4. CASE ReplaySave
    <2>1. PICK i \in replaying : queue' = [queue EXCEPT ![i] =
                                   [status |-> "Pending", retryCount |-> 0, age |-> 0]]
      BY <1>4 DEF ReplaySave
    <2>2. Steady /\ copy' = copy /\ replaying' = {} /\ replays # 0
      BY <1>4 DEF ReplaySave, QInv
    <2>3. True([status |-> "Pending", retryCount |-> 0, age |-> 0], i)
      BY <2>2 DEF True, Rows
    <2>4. DOMAIN queue' = Items /\ \A j \in Items : True(queue'[j], j)
      BY <2>1, <2>3 DEF QInv
    <2> QED
      BY <1>1, <2>2, <2>4 DEF QInv
  <1>5. CASE Tick
    <2>1. Steady /\ replaying' = replaying
      BY <1>5 DEF Tick
    <2>2. DOMAIN queue' = Items /\ \A i \in Items : True(queue'[i], i)
      BY <1>5, AgedIsTrue DEF Tick, QInv
    <2>3. DOMAIN copy' = Workers
          /\ \A w \in Workers : DOMAIN copy'[w] = Items
                                /\ \A i \in Items : True(copy'[w][i], i)
      BY <1>5, AgedIsTrue DEF Tick, QInv
    <2> QED
      BY <1>1, <2>1, <2>2, <2>3 DEF QInv
  <1>6. \A i \in Items : True(Absent, i)
    BY LimitIsNat DEF QInv, True, Rows, Absent, Spent
  <1>7. CASE Crash
    <2>1. Steady /\ queue' = queue /\ replaying' = {}
      BY <1>7 DEF Crash
    <2>2. copy' = [w \in Workers |-> [i \in Items |-> Absent]]
      BY <1>7 DEF Crash
    <2> QED
      BY <1>1, <1>6, <2>1, <2>2 DEF QInv
  <1>8. ASSUME NEW w \in Workers, Load(w)
        PROVE  QInv'
    <2>1. Steady /\ queue' = queue /\ replaying' = replaying
      BY <1>8 DEF Load
    <2>2. copy' = [copy EXCEPT ![w] = [i \in Items |->
                                         IF i \in Batch THEN queue[i] ELSE Absent]]
      BY <1>8 DEF Load
    <2>3. DOMAIN copy' = Workers
          /\ \A v \in Workers : DOMAIN copy'[v] = Items
                                /\ \A i \in Items : True(copy'[v][i], i)
      BY <1>6, <2>2 DEF QInv
    <2> QED
      BY <1>1, <2>1, <2>3 DEF QInv
  <1>9. ASSUME NEW w \in Workers, Drop(w)
        PROVE  DOMAIN copy' = Workers
               /\ \A v \in Workers : DOMAIN copy'[v] = Items
                                     /\ \A i \in Items : True(copy'[v][i], i)
    <2>1. copy' = [copy EXCEPT ![w] = [copy[w] EXCEPT ![Current(w)] = Absent]]
      BY <1>9 DEF Drop
    <2> QED
      BY <1>6, <2>1 DEF QInv
  <1>10. ASSUME NEW w \in Workers, Skip(w)
         PROVE  QInv'
    <2>1. Steady /\ queue' = queue /\ replaying' = replaying /\ Drop(w)
      BY <1>10 DEF Skip
    <2> QED
      BY <1>1, <1>9, <2>1 DEF QInv
  <1>11. ASSUME NEW w \in Workers, Save(w)
         PROVE  QInv'
    <2>1. Steady /\ replaying' = replaying /\ Drop(w)
          /\ queue' = [queue EXCEPT ![Current(w)] = copy[w][Current(w)]]
      BY <1>11 DEF Save
    <2>2. DOMAIN queue' = Items /\ \A i \in Items : True(queue'[i], i)
      BY <2>1 DEF QInv
    <2> QED
      BY <1>1, <1>9, <2>1, <2>2 DEF QInv
  <1>12. ASSUME NEW w \in Workers, Post(w)
         PROVE  QInv'
    <2> DEFINE c == Current(w)
    <2>1. Steady /\ queue' = queue /\ replaying' = replaying
          /\ copy' = [copy EXCEPT ![w] = [copy[w] EXCEPT ![c] = [copy[w][c] EXCEPT !.age = 0]]]
      BY <1>12 DEF Post
    <2>2. c \in Items => True([copy[w][c] EXCEPT !.age = 0], c)
      BY DEF QInv, True, Rows
    <2> HIDE DEF c
    <2>3. DOMAIN copy' = Workers
          /\ \A v \in Workers : DOMAIN copy'[v] = Items
                                /\ \A i \in Items : True(copy'[v][i], i)
      BY <2>1, <2>2 DEF QInv
    <2> QED
      BY <1>1, <2>1, <2>3 DEF QInv
  <1>13. ASSUME NEW w \in Workers, Answered(w) \/ PostFails(w)
         PROVE  QInv'
    <2>1. PICK c, old, r :
            /\ c = Current(w) /\ old = copy[w][c]
            /\ copy' = [copy EXCEPT ![w] = [copy[w] EXCEPT ![c] = r]]
            /\ \/ Answered(w) /\ r = [old EXCEPT !.status = "Success"]
               \/ PostFails(w) /\ r = FailedCopy(old)
      BY <1>13 DEF Answered, PostFails
    <2>2. queue' = queue /\ replaying' = replaying /\ replays' = replays
          /\ delivered \subseteq delivered'
      BY <1>13 DEF Answered, PostFails
    <2>3. failures' = failures \/ failures' = [failures EXCEPT ![c] =
                        IF failures[c] < Limit THEN failures[c] + 1 ELSE failures[c]]
      BY <1>13, <2>1 DEF Answered, PostFails
    <2>4. failures' \in [Items -> 0..Limit] /\ \A i \in Items : failures[i] <= failures'[i]
      BY <2>3, LimitIsNat DEF QInv
    <2>5. ASSUME NEW i \in Items, NEW s, True(s, i) PROVE True(s, i)'
      BY <2>2, <2>4, <2>5, Later DEF QInv
    <2>6. ASSUME c \in Items PROVE True(r, c)'
      <3>1. True(old, c)
        BY <2>1, <2>6 DEF QInv
      <3>2. True(old, c)'
        BY <2>5, <2>6, <3>1
      <3>3. CASE Answered(w) /\ r = [old EXCEPT !.status = "Success"]
        <4>1. c \in delivered'
          BY <2>1, <3>3 DEF Answered
        <4>2. r \in Rows /\ r.status = "Success" /\ r.retryCount = old.retryCount
          BY <3>1, <3>3 DEF True, Rows
        <4> QED
          BY <3>2, <4>1, <4>2 DEF True
      <3>4. CASE PostFails(w) /\ r = FailedCopy(old)
        <4>1. failures[c] \in 0..Limit /\ DOMAIN failures = Items
          BY <2>6 DEF QInv
        <4>2. failures'[c] = IF failures[c] < Limit THEN failures[c] + 1 ELSE failures[c]
          BY <2>1, <2>6, <3>4, <4>1 DEF PostFails
        <4>3. /\ old.retryCount \in Nat /\ r \in Rows /\ r.retryCount = old.retryCount + 1
              /\ r.status = IF old.retryCount + 1 >= Limit THEN "Exhausted" ELSE "Failed"
          <5>1. old \in Rows /\ old.retryCount + 1 \in Nat
            BY <3>1 DEF True, Rows
          <5> QED
            BY <3>4, <5>1 DEF FailedCopy, Rows
        <4>4. replays = 0 => r.retryCount <= failures'[c] \/ failures'[c] = Limit
          BY <3>1, <4>1, <4>2, <4>3, LimitIsNat DEF True, Spent
        <4>5. replays = 0 => (r.status = "Exhausted" => failures'[c] = Limit)
          BY <4>1, <4>2, <4>3, <4>4, LimitIsNat
        <4> QED
          BY <2>2, <4>3, <4>4, <4>5 DEF True, Spent
      <3> QED
        BY <2>1, <3>3, <3>4
    <2>7. DOMAIN copy' = Workers /\ \A v \in Workers : DOMAIN copy'[v] = Items
      BY <2>1 DEF QInv
    <2>8. ASSUME NEW v \in Workers, NEW i \in Items PROVE True(copy[v][i], i)'
      <3>1. copy'[v][i] = copy[v][i] \/ (c = i /\ copy'[v][i] = r)
        BY <2>1 DEF QInv
      <3>2. True(copy[v][i], i)
        BY DEF QInv
      <3>3. PICK s : s = copy[v][i]
        OBVIOUS
      <3>4. True(s, i)'
        BY <2>5, <3>2, <3>3
      <3> QED
        BY <2>6, <3>1, <3>3, <3>4
    <2> QED
      BY <2>2, <2>4, <2>5, <2>7, <2>8 DEF QInv
  <1>14. CASE UNCHANGED vars
    BY <1>1, <1>14 DEF vars, QInv
  <1> QED
    BY <1>2, <1>3, <1>4, <1>5, <1>7, <1>8, <1>10, <1>11, <1>12, <1>13, <1>14
       DEF Next, Work

(* QueueAlways: the invariant holds in every state.                           *)
LEMMA QueueAlways == Spec => []QInv
  BY QInitInv, QueueStep, PTL DEF Spec

-----------------------------------------------------------------------------
(* The types.  A row that waits has a delay left to wait for, and so has the   *)
(* copy a run of the job is going to post; a run that is not idle has an item *)
(* in hand.                                                                 *)
Kept(r) == r \in Record /\ (r.status \in {"None", "Pending", "Failed"} => r.retryCount < Limit)

InHand(w) ==
  /\ pc[w] \in {"idle", "loop", "post", "save"}
  /\ todo[w] \subseteq Items
  /\ pc[w] # "idle" => todo[w] # {}
  /\ \A i \in todo[w] :
       copy[w][i].status \in {"Pending", "Failed"} \/ (pc[w] = "save" /\ i = Current(w))

TInv ==
  /\ TypeOK
  /\ \A i \in Items : Kept(queue[i])
  /\ \A w \in Workers : InHand(w) /\ \A i \in Items : Kept(copy[w][i])
  /\ replaying = {} \/ \E i \in Items : replaying = {i}

(* LeastItem: a set of numbers that is not empty has a least one.             *)
LEMMA LeastItem ==
  ASSUME NEW T \in SUBSET Nat, T # {}
  PROVE  \E x \in T : \A y \in T : x <= y
  <1> DEFINE R == {ss \in Nat \X Nat : ss[1] < ss[2]}
  <1>1. R = OpToRel(<, Nat)
    BY DEF OpToRel
  <1>2. IsWellFoundedOn(R, Nat)
    BY <1>1, NatLessThanWellFounded
  <1>3. \A a, b \in Nat : a < b => <<a, b>> \in R
    OBVIOUS
  <1> HIDE DEF R
  <1>4. PICK x \in T : \A y \in T : ~ (<<y, x>> \in R)
    BY <1>2, WFMin
  <1>5. ASSUME NEW y \in T PROVE x <= y
    <2>1. x \in Nat /\ y \in Nat /\ ~ (<<y, x>> \in R)
      BY <1>4
    <2>2. ~ (y < x)
      BY <1>3, <2>1, Zenon
    <2> QED
      BY <2>1, <2>2
  <1> QED
    BY <1>5

(* CurrentIsTodo: the item a run works on is one of its batch.                *)
LEMMA CurrentIsTodo ==
  ASSUME NEW w \in Workers, todo[w] \subseteq Items, todo[w] # {}
  PROVE  Current(w) \in todo[w]
  <1>1. todo[w] \in SUBSET Nat
    BY SizeAssumption DEF Items
  <1> QED
    BY <1>1, LeastItem DEF Current

(* LongestIsNat: the longest delay is a number.                              *)
LEMMA LongestIsNat == Longest \in Nat
  BY DelayAssumption DEF Longest, Limit

(* KeptRows: what enqueueing, replaying, ageing, posting and answering make of *)
(* a row.                                                                   *)
LEMMA KeptRows ==
  /\ Kept(Absent)
  /\ Kept([status |-> "Pending", retryCount |-> 0, age |-> 0])
  /\ \A r : Kept(r) =>
       /\ Kept(Aged(r)) /\ Aged(r).status = r.status
       /\ Kept([r EXCEPT !.age = 0]) /\ [r EXCEPT !.age = 0].status = r.status
       /\ Kept([r EXCEPT !.status = "Success"])
       /\ r.status = "None" => Kept([r EXCEPT !.status = "Pending"])
       /\ r.status \in {"Pending", "Failed"} => Kept(FailedCopy(r))
  <1>1. Limit \in Nat \ {0} /\ Longest \in Nat
    BY LimitIsNat, LongestIsNat
  <1> HIDE DEF Limit, Longest
  <1>2. Kept(Absent) /\ Kept([status |-> "Pending", retryCount |-> 0, age |-> 0])
    BY <1>1 DEF Kept, Record, Absent
  <1>3. ASSUME NEW r, Kept(r)
        PROVE  /\ Kept(Aged(r)) /\ Aged(r).status = r.status
               /\ Kept([r EXCEPT !.age = 0]) /\ [r EXCEPT !.age = 0].status = r.status
               /\ Kept([r EXCEPT !.status = "Success"])
               /\ r.status = "None" => Kept([r EXCEPT !.status = "Pending"])
               /\ r.status \in {"Pending", "Failed"} => Kept(FailedCopy(r))
    <2>1. Kept([r EXCEPT !.age = 0]) /\ [r EXCEPT !.age = 0].status = r.status
      BY <1>1, <1>3 DEF Kept, Record
    <2>2. Kept([r EXCEPT !.status = "Success"])
      BY <1>3 DEF Kept, Record
    <2>3. r.status = "None" => Kept([r EXCEPT !.status = "Pending"])
      BY <1>3 DEF Kept, Record
    <2>4. Kept(Aged(r)) /\ Aged(r).status = r.status
      <3> DEFINE age == IF r.age # Never /\ r.age < Longest THEN r.age + 1 ELSE r.age
      <3>1. age \in 0..Longest \union {Never}
        BY <1>1, <1>3 DEF Kept, Record
      <3> HIDE DEF age
      <3>2. Aged(r) = [r EXCEPT !.age = age]
        BY DEF Aged, age
      <3> QED
        BY <1>3, <3>1, <3>2 DEF Kept, Record
    <2>5. r.status \in {"Pending", "Failed"} => Kept(FailedCopy(r))
      <3>1. r.retryCount \in 0..Limit
        BY <1>3 DEF Kept, Record
      <3>2. r.status \in {"Pending", "Failed"} => r.retryCount < Limit
        BY <1>3 DEF Kept
      <3> DEFINE n == r.retryCount + 1
                 status == IF n >= Limit THEN "Exhausted" ELSE "Failed"
      <3>3. r.status \in {"Pending", "Failed"} => n \in 0..Limit
        BY <1>1, <3>1, <3>2
      <3>4. status \in {"Exhausted", "Failed"} /\ (status = "Failed" => ~ (n >= Limit))
        OBVIOUS
      <3>5. n \in 0..Limit /\ ~ (n >= Limit) => n < Limit
        BY <1>1
      <3>6. FailedCopy(r) = [r EXCEPT !.retryCount = n, !.status = status]
        BY DEF FailedCopy
      <3> HIDE DEF n, status
      <3>7. ASSUME n \in 0..Limit
            PROVE  /\ [r EXCEPT !.retryCount = n, !.status = status] \in Record
                   /\ [r EXCEPT !.retryCount = n, !.status = status].status = status
                   /\ [r EXCEPT !.retryCount = n, !.status = status].retryCount = n
        BY <1>3, <3>4, <3>7 DEF Kept, Record
      <3> QED
        BY <3>3, <3>4, <3>5, <3>6, <3>7 DEF Kept
    <2> QED
      BY <2>1, <2>2, <2>3, <2>4, <2>5
  <1> QED
    BY <1>2, <1>3

(* TInitInv: the types hold of the empty queue.                               *)
LEMMA TInitInv == Init => TInv
  <1> SUFFICES ASSUME Init PROVE TInv
    OBVIOUS
  <1>1. Absent \in Record /\ Kept(Absent)
    BY KeptRows DEF Kept
  <1>2. Cardinality({}) = 0
    BY FS_EmptySet
  <1>3. TypeOK
    BY <1>1, <1>2, LimitIsNat, BoundAssumption DEF Init, TypeOK
  <1>4. \A w \in Workers : InHand(w)
    BY DEF Init, InHand
  <1> QED
    BY <1>1, <1>3, <1>4 DEF Init, TInv

(* OneReplay: the administrator has at most one row in hand.                  *)
LEMMA OneReplay ==
  ASSUME NEW S, S = {} \/ \E i \in Items : S = {i}
  PROVE  S \subseteq Items /\ Cardinality(S) <= 1
  BY FS_EmptySet, FS_Singleton

(* TIntro: the types of the next state, put together.                         *)
LEMMA TIntro ==
  ASSUME queue' \in [Items -> Record], \A i \in Items : Kept(queue[i])',
         copy' \in [Workers -> [Items -> Record]],
         \A w \in Workers : InHand(w)' /\ \A i \in Items : Kept(copy[w][i])',
         pc' \in [Workers -> {"idle", "loop", "post", "save"}],
         todo' \in [Workers -> SUBSET Items],
         replaying' = {} \/ \E i \in Items : replaying' = {i},
         delivered' \subseteq Items, posts' \in [Items -> 0..Limit + 1],
         failures' \in [Items -> 0..Limit], replays' \in 0..MaxReplays,
         crashes' \in 0..MaxCrashes
  PROVE  TInv'
  BY OneReplay DEF TInv, TypeOK

(* TakenUp: the steps of a run that leave its batch as it is.                 *)
LEMMA TakenUp ==
  ASSUME TInv, NEW w \in Workers, pc[w] \in {"loop", "post"}, NEW label \in {"post", "save"},
         Goto(w, label), UNCHANGED todo, NEW r, Kept(r),
         copy' = [copy EXCEPT ![w] = [copy[w] EXCEPT ![Current(w)] = r]],
         r.status \in {"Pending", "Failed"} \/ label = "save"
  PROVE  /\ copy' \in [Workers -> [Items -> Record]]
         /\ \A v \in Workers : InHand(v)' /\ \A i \in Items : Kept(copy[v][i])'
         /\ pc' \in [Workers -> {"idle", "loop", "post", "save"}]
         /\ todo' \in [Workers -> SUBSET Items]
         /\ Current(w) \in Items
  <1> DEFINE c == Current(w)
  <1>1. c \in todo[w] /\ c \in Items
    BY CurrentIsTodo DEF TInv, InHand
  <1>2. Current(w)' = c
    BY DEF Current
  <1> HIDE DEF c
  <1>3. /\ pc \in [Workers -> {"idle", "loop", "post", "save"}]
        /\ todo \in [Workers -> SUBSET Items]
        /\ copy \in [Workers -> [Items -> Record]] /\ r \in Record
    BY DEF TInv, TypeOK, Kept
  <1>4. copy' = [copy EXCEPT ![w] = [copy[w] EXCEPT ![c] = r]]
    BY DEF c
  <1>5. /\ copy' \in [Workers -> [Items -> Record]]
        /\ copy'[w][c] = r
        /\ \A i \in Items \ {c} : copy'[w][i] = copy[w][i]
        /\ \A v \in Workers \ {w} : copy'[v] = copy[v]
    <2>1. copy \in [Workers -> [Items -> Record]] /\ r \in Record
      BY <1>3
    <2>2. [copy[w] EXCEPT ![c] = r] \in [Items -> Record]
      BY <2>1
    <2> QED
      BY <1>1, <1>4, <2>1, <2>2
  <1>6. /\ pc' \in [Workers -> {"idle", "loop", "post", "save"}] /\ pc'[w] = label
        /\ \A v \in Workers \ {w} : pc'[v] = pc[v]
    BY <1>3 DEF Goto
  <1>7. \A v \in Workers : \A i \in Items : Kept(copy'[v][i])
    BY <1>5 DEF TInv
  <1>8. \A v \in Workers \ {w} : InHand(v)'
    <2>1. \A v \in Workers : Current(v)' = Current(v)
      BY DEF Current
    <2> QED
      BY <1>5, <1>6, <2>1 DEF TInv, InHand
  <1>9. InHand(w)'
    <2>1. todo[w] \subseteq Items /\ todo[w] # {} /\ pc[w] \in {"loop", "post"}
          /\ \A i \in todo[w] : copy[w][i].status \in {"Pending", "Failed"}
      BY DEF TInv, InHand
    <2> QED
      BY <1>1, <1>2, <1>5, <1>6, <2>1 DEF InHand
  <1> QED
    BY <1>1, <1>3, <1>5, <1>6, <1>7, <1>8, <1>9 DEF c

(* PutDown: a run is done with an item.                                       *)
LEMMA PutDown ==
  ASSUME TInv, NEW w \in Workers, pc[w] \in {"loop", "save"}, Drop(w)
  PROVE  /\ copy' \in [Workers -> [Items -> Record]]
         /\ \A v \in Workers : InHand(v)' /\ \A i \in Items : Kept(copy[v][i])'
         /\ pc' \in [Workers -> {"idle", "loop", "post", "save"}]
         /\ todo' \in [Workers -> SUBSET Items]
         /\ Current(w) \in Items
  <1> DEFINE c == Current(w)
  <1>1. c \in todo[w] /\ c \in Items
    BY CurrentIsTodo DEF TInv, InHand
  <1>2. /\ pc \in [Workers -> {"idle", "loop", "post", "save"}]
        /\ todo \in [Workers -> SUBSET Items]
        /\ copy \in [Workers -> [Items -> Record]] /\ Absent \in Record /\ Kept(Absent)
    BY KeptRows DEF TInv, TypeOK, Kept
  <1>3. /\ copy' = [copy EXCEPT ![w] = [copy[w] EXCEPT ![c] = Absent]]
        /\ todo' = [todo EXCEPT ![w] = todo[w] \ {c}]
        /\ pc' = [pc EXCEPT ![w] = IF todo[w] = {c} THEN "idle" ELSE "loop"]
    BY DEF Drop, Goto
  <1> HIDE DEF c
  <1>4. /\ copy' \in [Workers -> [Items -> Record]]
        /\ copy'[w][c] = Absent
        /\ \A i \in Items \ {c} : copy'[w][i] = copy[w][i]
        /\ \A v \in Workers \ {w} : copy'[v] = copy[v]
    BY <1>1, <1>2, <1>3
  <1>5. /\ pc' \in [Workers -> {"idle", "loop", "post", "save"}]
        /\ pc'[w] = IF todo[w] = {c} THEN "idle" ELSE "loop"
        /\ \A v \in Workers \ {w} : pc'[v] = pc[v] /\ todo'[v] = todo[v]
        /\ todo' \in [Workers -> SUBSET Items] /\ todo'[w] = todo[w] \ {c}
    BY <1>2, <1>3
  <1>6. \A v \in Workers : \A i \in Items : Kept(copy'[v][i])
    BY <1>2, <1>4 DEF TInv
  <1>7. \A v \in Workers \ {w} : InHand(v)'
    <2>1. \A v \in Workers \ {w} : Current(v)' = Current(v)
      BY <1>5 DEF Current
    <2> QED
      BY <1>4, <1>5, <2>1 DEF TInv, InHand
  <1>8. InHand(w)'
    <2>1. \A i \in todo[w] \ {c} : copy[w][i].status \in {"Pending", "Failed"}
      BY DEF TInv, InHand, c
    <2>2. todo[w] \subseteq Items /\ todo[w] # {}
      BY <1>1, <1>2
    <2> QED
      BY <1>1, <1>4, <1>5, <2>1, <2>2 DEF InHand
  <1> QED
    BY <1>1, <1>4, <1>5, <1>6, <1>7, <1>8 DEF c

(* TypeStep: every step keeps the types.                                      *)
LEMMA TypeStep == TInv /\ [Next]_vars => TInv'
  <1> DEFINE Goal == TInv'
  <1> SUFFICES ASSUME TInv, [Next]_vars PROVE Goal
    OBVIOUS
  <1> USE DEF history, admin
  <1>a. /\ queue \in [Items -> Record] /\ \A i \in Items : Kept(queue[i])
        /\ replaying = {} \/ \E i \in Items : replaying = {i}
        /\ delivered \subseteq Items /\ posts \in [Items -> 0..Limit + 1]
        /\ failures \in [Items -> 0..Limit] /\ replays \in 0..MaxReplays
        /\ crashes \in 0..MaxCrashes
    BY DEF TInv, TypeOK
  <1>b. /\ copy \in [Workers -> [Items -> Record]]
        /\ pc \in [Workers -> {"idle", "loop", "post", "save"}]
        /\ todo \in [Workers -> SUBSET Items]
        /\ \A w \in Workers : InHand(w) /\ \A i \in Items : Kept(copy[w][i])
    BY DEF TInv, TypeOK
  <1>c. ASSUME UNCHANGED <<pc, todo, copy>>
        PROVE  /\ copy' \in [Workers -> [Items -> Record]]
               /\ \A w \in Workers : InHand(w)' /\ \A i \in Items : Kept(copy[w][i])'
               /\ pc' \in [Workers -> {"idle", "loop", "post", "save"}]
               /\ todo' \in [Workers -> SUBSET Items]
    BY <1>b, <1>c DEF InHand, Current
  <1>d. ASSUME NEW i \in Items, NEW r, Kept(r), queue' = [queue EXCEPT ![i] = r]
        PROVE  queue' \in [Items -> Record] /\ \A j \in Items : Kept(queue[j])'
    BY <1>a, <1>d DEF Kept
  <1>1. ASSUME NEW i \in Items, Enqueue(i)
        PROVE  Goal
    <2>1. /\ queue' = [queue EXCEPT ![i] = [queue[i] EXCEPT !.status = "Pending"]]
          /\ UNCHANGED <<pc, todo, copy, replaying, replays, delivered, posts, failures, crashes>>
          /\ Kept([queue[i] EXCEPT !.status = "Pending"])
      BY <1>1, <1>a, KeptRows DEF Enqueue
    <2> QED
      BY <2>1, <1>a, <1>c, <1>d, TIntro
  <1>2. ASSUME NEW i \in Items, ReplayRead(i)
        PROVE  Goal
    <2>1. /\ replaying' = {i} /\ replays' \in 0..MaxReplays
          /\ UNCHANGED <<queue, pc, todo, copy, delivered, posts, failures, crashes>>
      BY <1>2, <1>a, BoundAssumption DEF ReplayRead
    <2> QED
      BY <2>1, <1>a, <1>c, TIntro
  <1>3. CASE ReplaySave
    <2>1. PICK i \in replaying :
            /\ queue' = [queue EXCEPT ![i] =
                           [status |-> "Pending", retryCount |-> 0, age |-> 0]]
            /\ replaying' = {}
            /\ UNCHANGED <<pc, todo, copy, delivered, posts, failures, replays, crashes>>
      BY <1>3 DEF ReplaySave
    <2>2. i \in Items
      BY <1>a
    <2>3. queue' \in [Items -> Record] /\ \A j \in Items : Kept(queue[j])'
      BY <1>d, <2>1, <2>2, KeptRows
    <2> QED
      BY <2>1, <2>3, <1>a, <1>c, TIntro
  <1>4. CASE Tick
    <2>1. /\ queue' = [i \in Items |-> Aged(queue[i])]
          /\ copy' = [w \in Workers |-> [i \in Items |-> Aged(copy[w][i])]]
          /\ UNCHANGED <<pc, todo, replaying, replays, delivered, posts, failures, crashes>>
      BY <1>4 DEF Tick
    <2>2. \A r : Kept(r) => Kept(Aged(r)) /\ Aged(r).status = r.status /\ Aged(r) \in Record
      BY KeptRows DEF Kept
    <2>3. queue' \in [Items -> Record] /\ \A i \in Items : Kept(queue[i])'
      BY <1>a, <2>1, <2>2
    <2>4. copy' \in [Workers -> [Items -> Record]]
          /\ \A w \in Workers : \A i \in Items : Kept(copy'[w][i])
                                  /\ copy'[w][i].status = copy[w][i].status
      BY <1>b, <2>1, <2>2
    <2>5. \A w \in Workers : Current(w)' = Current(w)
      BY <2>1 DEF Current
    <2>6. \A w \in Workers : InHand(w)'
      BY <1>b, <2>1, <2>4, <2>5 DEF InHand
    <2> QED
      BY <1>a, <1>b, <2>1, <2>3, <2>4, <2>6, TIntro
  <1>5. CASE Crash
    <2>1. /\ crashes' \in 0..MaxCrashes /\ replaying' = {}
          /\ pc' = [w \in Workers |-> "idle"] /\ todo' = [w \in Workers |-> {}]
          /\ copy' = [w \in Workers |-> [i \in Items |-> Absent]]
          /\ UNCHANGED <<queue, delivered, posts, failures, replays>>
      BY <1>5, <1>a, BoundAssumption DEF Crash
    <2>2. Kept(Absent) /\ Absent \in Record
      BY KeptRows DEF Kept
    <2>3. \A w \in Workers : InHand(w)'
      BY <2>1 DEF InHand
    <2> QED
      BY <1>a, <2>1, <2>2, <2>3, TIntro
  <1>6. ASSUME NEW w \in Workers, Load(w)
        PROVE  Goal
    <2> DEFINE row == [i \in Items |-> IF i \in Batch THEN queue[i] ELSE Absent]
    <2>1. /\ Batch # {} /\ pc' = [pc EXCEPT ![w] = "loop"]
          /\ todo' = [todo EXCEPT ![w] = Batch] /\ copy' = [copy EXCEPT ![w] = row]
          /\ UNCHANGED <<queue, replaying, replays, delivered, posts, failures, crashes>>
      BY <1>6 DEF Load, Goto
    <2>2. Batch \subseteq Items /\ \A i \in Batch : queue[i].status \in {"Pending", "Failed"}
      BY DEF Batch, Waiting
    <2>3. /\ row \in [Items -> Record] /\ \A i \in Items : Kept(row[i])
          /\ \A i \in Batch : row[i].status \in {"Pending", "Failed"}
      BY <1>a, <2>2, KeptRows DEF Kept
    <2> HIDE DEF row
    <2>4. /\ pc' \in [Workers -> {"idle", "loop", "post", "save"}]
          /\ todo' \in [Workers -> SUBSET Items]
          /\ copy' \in [Workers -> [Items -> Record]]
          /\ pc'[w] = "loop" /\ todo'[w] = Batch /\ copy'[w] = row
          /\ \A v \in Workers \ {w} : pc'[v] = pc[v] /\ todo'[v] = todo[v] /\ copy'[v] = copy[v]
      BY <1>b, <2>1, <2>2, <2>3
    <2>5. \A v \in Workers : \A i \in Items : Kept(copy'[v][i])
      BY <1>b, <2>3, <2>4
    <2>6. ASSUME NEW v \in Workers PROVE InHand(v)'
      <3>1. CASE v = w
        BY <2>1, <2>2, <2>3, <2>4, <3>1 DEF InHand
      <3>2. CASE v # w
        <4>1. Current(v)' = Current(v)
          BY <2>4, <3>2 DEF Current
        <4> QED
          BY <1>b, <2>4, <3>2, <4>1 DEF InHand
      <3> QED
        BY <3>1, <3>2
    <2> QED
      BY <1>a, <2>1, <2>4, <2>5, <2>6, TIntro
  <1>7. ASSUME NEW w \in Workers, Skip(w)
        PROVE  Goal
    <2>1. /\ pc[w] \in {"loop", "save"} /\ Drop(w)
          /\ UNCHANGED <<queue, replaying, replays, delivered, posts, failures, crashes>>
      BY <1>7 DEF Skip
    <2> HIDE DEF Goal
    <2> QED
      BY <1>a, <2>1, PutDown, TIntro DEF Goal
  <1>8. ASSUME NEW w \in Workers, Save(w)
        PROVE  Goal
    <2>1. /\ pc[w] \in {"loop", "save"} /\ Drop(w)
          /\ queue' = [queue EXCEPT ![Current(w)] = copy[w][Current(w)]]
          /\ UNCHANGED <<replaying, replays, delivered, posts, failures, crashes>>
      BY <1>8 DEF Save
    <2>2. Current(w) \in Items
      BY <2>1, PutDown
    <2>3. queue' \in [Items -> Record] /\ \A j \in Items : Kept(queue[j])'
      BY <1>b, <1>d, <2>1, <2>2
    <2> QED
      BY <1>a, <2>1, <2>3, PutDown, TIntro
  <1>9. ASSUME NEW w \in Workers, pc[w] \in {"loop", "post"}
        PROVE  Current(w) \in Items /\ Current(w) \in todo[w] /\ Kept(copy[w][Current(w)])
               /\ copy[w][Current(w)].status \in {"Pending", "Failed"}
    BY <1>9, <1>b, CurrentIsTodo DEF InHand
  <1>10. ASSUME NEW w \in Workers, Post(w)
         PROVE  Goal
    <2> DEFINE c == Current(w)
               r == [copy[w][c] EXCEPT !.age = 0]
    <2>1. /\ pc[w] = "loop" /\ Goto(w, "post")
          /\ copy' = [copy EXCEPT ![w] = [copy[w] EXCEPT ![c] = r]]
          /\ posts' = [posts EXCEPT ![c] = IF posts[c] <= Limit THEN posts[c] + 1 ELSE posts[c]]
          /\ UNCHANGED <<queue, todo, replaying, replays, delivered, failures, crashes>>
      BY <1>10 DEF Post
    <2>2. c \in Items /\ Kept(r) /\ r.status \in {"Pending", "Failed"}
      BY <1>9, <2>1, KeptRows
    <2>3. posts' \in [Items -> 0..Limit + 1]
      BY <1>a, <2>1, <2>2, LimitIsNat
    <2> HIDE DEF r
    <2> QED
      BY <1>a, <2>1, <2>2, <2>3, TakenUp, TIntro
  <1>11. ASSUME NEW w \in Workers, Answered(w)
         PROVE  Goal
    <2> DEFINE c == Current(w)
               r == [copy[w][c] EXCEPT !.status = "Success"]
    <2>1. /\ pc[w] = "post" /\ Goto(w, "save")
          /\ copy' = [copy EXCEPT ![w] = [copy[w] EXCEPT ![c] = r]]
          /\ delivered' = delivered \union {c}
          /\ UNCHANGED <<queue, todo, replaying, replays, posts, failures, crashes>>
      BY <1>11 DEF Answered
    <2>2. c \in Items /\ Kept(r)
      BY <1>9, <2>1, KeptRows
    <2> HIDE DEF r
    <2> QED
      BY <1>a, <2>1, <2>2, TakenUp, TIntro
  <1>12. ASSUME NEW w \in Workers, PostFails(w)
         PROVE  Goal
    <2> DEFINE c == Current(w)
               r == FailedCopy(copy[w][c])
    <2>1. /\ pc[w] = "post" /\ Goto(w, "save")
          /\ copy' = [copy EXCEPT ![w] = [copy[w] EXCEPT ![c] = r]]
          /\ delivered' \subseteq delivered \union {c}
          /\ failures' = [failures EXCEPT ![c] =
                            IF failures[c] < Limit THEN failures[c] + 1 ELSE failures[c]]
          /\ UNCHANGED <<queue, todo, replaying, replays, posts, crashes>>
      BY <1>12 DEF PostFails
    <2>2. c \in Items /\ Kept(r)
      BY <1>9, <2>1, KeptRows
    <2>3. failures' \in [Items -> 0..Limit]
      BY <1>a, <2>1, <2>2, LimitIsNat
    <2> HIDE DEF r
    <2> QED
      BY <1>a, <2>1, <2>2, <2>3, TakenUp, TIntro
  <1>13. CASE UNCHANGED vars
    BY <1>13, <1>a, <1>c, TIntro DEF vars
  <1> HIDE DEF Goal
  <1> QED
    BY <1>1, <1>2, <1>3, <1>4, <1>5, <1>6, <1>7, <1>8, <1>10, <1>11, <1>12, <1>13
       DEF Next, Work

(* TypeCorrect: rows and copies keep their types: the counter that chooses the *)
(* delay stays within the delays of the code, whatever runs of the job,        *)
(* replays and restarts overwrite (handleNotifications, handleFailure).       *)
THEOREM TypeCorrect == Spec => []TypeOK
  <1>1. TInv => TypeOK
    BY DEF TInv
  <1> QED
    BY <1>1, TInitInv, TypeStep, PTL DEF Spec
-----------------------------------------------------------------------------
(* SuccessDelivered: a notification marked Success was accepted by the         *)
(* merchant, however many runs of the job and replays overlap.               *)
THEOREM SuccessDelivered == Spec => []SuccessIsDelivered
  <1>1. QInv => SuccessIsDelivered
    BY DEF QInv, True, SuccessIsDelivered
  <1> QED
    BY <1>1, QueueAlways, PTL

(* GivenUpLate: a notification that was not replayed is given up only after    *)
(* as many failed posts as there are delays, even when runs of the job lose  *)
(* each other's counts.                                                     *)
THEOREM GivenUpLate == Spec => []NotGivenUpEarly
  <1>1. QInv => NotGivenUpEarly
    BY DEF QInv, True, Spent, NotGivenUpEarly
  <1> QED
    BY <1>1, QueueAlways, PTL
=============================================================================
