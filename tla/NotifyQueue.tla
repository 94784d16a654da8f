----------------------------- MODULE NotifyQueue ----------------------------
(***************************************************************************)
(* NotifyService: the queue of merchant notifications, drained by a cron    *)
(* job that runs every minute and may still be running when it starts        *)
(* again, here or in another instance of the server, and rearmed by the      *)
(* administrator.                                                           *)
(*                                                                         *)
(* A run of the job is a worker: it loads a batch of rows, then posts and    *)
(* saves them one by one from the copies it loaded.  Time is a tick that     *)
(* ages every timestamp by one unit, up to the longest delay.               *)
(***************************************************************************)
EXTENDS Integers, Sequences, FiniteSets

CONSTANTS
  N,           \* the number of notifications, numbered by createdAt
  Workers,     \* the runs of the cron job that may overlap
  Delays,      \* the delays of the code, in units of time
  Take,        \* the size of a batch
  Never,       \* lastAttemptAt not set
  MaxReplays,  \* bound on the administrator's replays
  MaxCrashes   \* bound on the restarts

ASSUME SizeAssumption  == N \in Nat \ {0} /\ Take \in Nat \ {0}
(* The delays of the code rise: 5, 15, 60, 300 and 900 seconds.                *)
ASSUME DelayAssumption ==
  /\ Delays \in Seq(Nat \ {0}) /\ Len(Delays) > 0
  /\ \A k \in 1..(Len(Delays) - 1) : Delays[k] <= Delays[k + 1]
ASSUME NeverAssumption == Never \notin Int
ASSUME BoundAssumption == MaxReplays \in Nat /\ MaxCrashes \in Nat

VARIABLES
  queue,     \* the table notify_queue: row of each item
  pc,        \* where each worker stands
  todo,      \* the items of a worker's batch it has not finished
  copy,      \* the rows a worker loaded
  replaying, \* the row the administrator loaded, by item; else {}
  delivered, \* the items the merchant has received and accepted
  posts,     \* the posts of each item, counted up to one more than Delays
  failures,  \* the posts of each item that failed, counted up to Delays
  replays, crashes

vars == <<queue, pc, todo, copy, replaying, delivered, posts, failures,
          replays, crashes>>

Items   == 1..N
Limit   == Len(Delays)
Longest == Delays[Limit]

Record == [status: {"None", "Pending", "Success", "Failed", "Exhausted"},
           retryCount: 0..Limit, age: 0..Longest \union {Never}]

Absent == [status |-> "None", retryCount |-> 0, age |-> Never]

TypeOK ==
  /\ queue \in [Items -> Record]
  /\ pc \in [Workers -> {"idle", "loop", "post", "save"}]
  /\ todo \in [Workers -> SUBSET Items]
  /\ copy \in [Workers -> [Items -> Record]]
  /\ replaying \subseteq Items /\ Cardinality(replaying) <= 1
  /\ delivered \subseteq Items
  /\ posts \in [Items -> 0..Limit + 1]
  /\ failures \in [Items -> 0..Limit]
  /\ replays \in 0..MaxReplays
  /\ crashes \in 0..MaxCrashes

Init ==
  /\ queue = [i \in Items |-> Absent]
  /\ pc = [w \in Workers |-> "idle"]
  /\ todo = [w \in Workers |-> {}]
  /\ copy = [w \in Workers |-> [i \in Items |-> Absent]]
  /\ replaying = {} /\ delivered = {}
  /\ posts = [i \in Items |-> 0]
  /\ failures = [i \in Items |-> 0]
  /\ replays = 0 /\ crashes = 0

Goto(w, label) == pc' = [pc EXCEPT ![w] = label]

history == <<delivered, posts, failures>>
admin   == <<replaying, replays>>
-----------------------------------------------------------------------------
(* enqueueNotification inserts a row; rows are ordered by createdAt.           *)
Enqueue(i) ==
  /\ queue[i].status = "None"
  /\ \A j \in 1..(i - 1) : queue[j].status # "None"
  /\ queue' = [queue EXCEPT ![i].status = "Pending"]
  /\ UNCHANGED <<pc, todo, copy, admin, history, crashes>>

Waiting == {i \in Items : queue[i].status \in {"Pending", "Failed"}}

(* handleNotifications: the oldest waiting rows, due or not.                   *)
Batch == {i \in Waiting : Cardinality({j \in Waiting : j < i}) < Take}

Load(w) ==
  /\ pc[w] = "idle"
  /\ Batch # {}
  /\ todo' = [todo EXCEPT ![w] = Batch]
  /\ copy' = [copy EXCEPT ![w] = [i \in Items |->
                                    IF i \in Batch THEN queue[i] ELSE Absent]]
  /\ Goto(w, "loop")
  /\ UNCHANGED <<queue, admin, history, crashes>>

Current(w) == CHOOSE i \in todo[w] : \A j \in todo[w] : i <= j

(* A row never attempted is due; any other waits for the delay its number of  *)
(* retries selects, the last one serving for all beyond.                     *)
DelayIndex(r) == IF r.retryCount < Limit THEN r.retryCount + 1 ELSE Limit
Due(r) == r.age # Never => r.age >= Delays[DelayIndex(r)]

(* The copy of an item that is done with is forgotten.                        *)
Drop(w) ==
  /\ todo' = [todo EXCEPT ![w] = @ \ {Current(w)}]
  /\ copy' = [copy EXCEPT ![w][Current(w)] = Absent]
  /\ Goto(w, IF todo[w] = {Current(w)} THEN "idle" ELSE "loop")

Skip(w) ==
  /\ pc[w] = "loop"
  /\ ~Due(copy[w][Current(w)])
  /\ Drop(w)
  /\ UNCHANGED <<queue, admin, history, crashes>>

(* processNotify: the attempt is stamped and the request posted.               *)
Post(w) ==
  /\ pc[w] = "loop"
  /\ Due(copy[w][Current(w)])
  /\ copy' = [copy EXCEPT ![w][Current(w)].age = 0]
  /\ posts' = [posts EXCEPT ![Current(w)] = IF @ <= Limit THEN @ + 1 ELSE @]
  /\ Goto(w, "post")
  /\ UNCHANGED <<queue, todo, admin, delivered, failures, crashes>>

(* A 2xx answer.                                                             *)
Answered(w) ==
  /\ pc[w] = "post"
  /\ copy' = [copy EXCEPT ![w][Current(w)].status = "Success"]
  /\ delivered' = delivered \union {Current(w)}
  /\ Goto(w, "save")
  /\ UNCHANGED <<queue, todo, admin, posts, failures, crashes>>

(* Mutants: one post too few; no limit, counting on or not.                   *)
FailedCopyEarly(r) ==
  LET n == r.retryCount + 1
  IN  [r EXCEPT !.retryCount = n,
                !.status = IF n + 1 >= Limit THEN "Exhausted" ELSE "Failed"]

FailedCopyCounting(r) == [r EXCEPT !.retryCount = @ + 1, !.status = "Failed"]
FailedCopyForever(r)  == [r EXCEPT !.status = "Failed"]

(* handleFailure: another answer, an error, or no answer within the timeout,   *)
(* in which case the merchant may have accepted it all the same.             *)
FailedCopy(r) ==
  LET n == r.retryCount + 1
  IN  [r EXCEPT !.retryCount = n,
                !.status = IF n >= Limit THEN "Exhausted" ELSE "Failed"]

(* Mutant: the status of the answer is not read.                              *)
PostFailsUnread(w) ==
  /\ pc[w] = "post"
  /\ copy' = [copy EXCEPT ![w][Current(w)].status = "Success"]
  /\ Goto(w, "save")
  /\ UNCHANGED <<queue, todo, admin, history, crashes>>

PostFails(w) ==
  /\ pc[w] = "post"
  /\ copy' = [copy EXCEPT ![w][Current(w)] = FailedCopy(@)]
  /\ failures' = [failures EXCEPT ![Current(w)] = IF @ < Limit THEN @ + 1 ELSE @]
  /\ \/ UNCHANGED delivered
     \/ delivered' = delivered \union {Current(w)}
  /\ Goto(w, "save")
  /\ UNCHANGED <<queue, todo, admin, posts, crashes>>

(* The copy is written over the row, whatever the row has become.             *)
Save(w) ==
  /\ pc[w] = "save"
  /\ queue' = [queue EXCEPT ![Current(w)] = copy[w][Current(w)]]
  /\ Drop(w)
  /\ UNCHANGED <<admin, history, crashes>>
-----------------------------------------------------------------------------
(* replayNotification: loads a row, then saves it as a fresh Pending one.       *)
ReplayRead(i) ==
  /\ replays < MaxReplays
  /\ replaying = {}
  /\ queue[i].status # "None"
  /\ replaying' = {i}
  /\ replays' = replays + 1
  /\ UNCHANGED <<queue, pc, todo, copy, history, crashes>>

ReplaySave ==
  \E i \in replaying :
    /\ queue' = [queue EXCEPT ![i] =
                   [status |-> "Pending", retryCount |-> 0, age |-> 0]]
    /\ replaying' = {}
    /\ UNCHANGED <<pc, todo, copy, history, replays, crashes>>

Aged(r) == [r EXCEPT !.age = IF r.age # Never /\ r.age < Longest
                             THEN r.age + 1 ELSE r.age]

Tick ==
  /\ queue' = [i \in Items |-> Aged(queue[i])]
  /\ copy' = [w \in Workers |-> [i \in Items |-> Aged(copy[w][i])]]
  /\ UNCHANGED <<pc, todo, admin, history, crashes>>

Crash ==
  /\ crashes < MaxCrashes
  /\ crashes' = crashes + 1
  /\ pc' = [w \in Workers |-> "idle"]
  /\ todo' = [w \in Workers |-> {}]
  /\ copy' = [w \in Workers |-> [i \in Items |-> Absent]]
  /\ replaying' = {}
  /\ UNCHANGED <<queue, history, replays>>
-----------------------------------------------------------------------------
Work(w) ==
  Load(w) \/ Skip(w) \/ Post(w) \/ Answered(w) \/ PostFails(w) \/ Save(w)

Next ==
  \/ \E i \in Items : Enqueue(i) \/ ReplayRead(i)
  \/ \E w \in Workers : Work(w)
  \/ ReplaySave \/ Tick \/ Crash

(* The job starts every minute, a post ends by its timeout, and time passes.   *)
Fairness == WF_vars(Tick) /\ \A w \in Workers : WF_vars(Work(w))

Spec == Init /\ [][Next]_vars /\ Fairness
-----------------------------------------------------------------------------
(* SuccessIsDelivered: a notification is marked Success only if the merchant   *)
(* accepted it, whatever runs of the job and replays overwrite each other    *)
(* (processNotify's save of a stale row).                                   *)
SuccessIsDelivered ==
  \A i \in Items : queue[i].status = "Success" => i \in delivered

(* NotGivenUpEarly: a notification that was not replayed is Exhausted only     *)
(* after as many failed posts as there are delays, also when runs of the job *)
(* lose each other's updates (handleFailure).                               *)
NotGivenUpEarly ==
  replays = 0 =>
    \A i \in Items : queue[i].status = "Exhausted" => failures[i] = Limit

(* EventuallyDecided: every notification ends as Success or Exhausted,         *)
(* although runs of the job save stale rows over each other's, and a batch is *)
(* filled by the oldest rows whether they are due or not                     *)
(* (handleNotifications, handleFailure).                                    *)
EventuallyDecided ==
  \A i \in Items :
    queue[i].status \in {"Pending", "Failed"}
      ~> queue[i].status \in {"Success", "Exhausted"}
=============================================================================
