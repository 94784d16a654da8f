---------------------------- MODULE MCNotifyQueue ---------------------------
(* Instances of NotifyQueue for TLC: the delays are scaled down, keeping them  *)
(* increasing: a notification fails, waits and fails again before the last.   *)
(* A behaviour has one of two casts: one notification that two runs of the   *)
(* job work on at once, or two that one run at a time takes in batches of one. *)
EXTENDS NotifyQueue

CONSTANTS w1, w2

VARIABLE cast

ThreeDelays == <<1, 2, 3>>

Casts == {[items |-> {1}, workers |-> {w1, w2}],
          [items |-> {1, 2}, workers |-> {w1}]}

mcVars == <<vars, cast>>

MCInit == Init /\ cast \in Casts

Same(A) == A /\ UNCHANGED cast

MCNext ==
  \/ \E i \in cast.items :
       Same(Enqueue(i)) \/ Same(ReplayRead(i))
  \/ \E w \in cast.workers : Same(Work(w))
  \/ Same(ReplaySave) \/ Same(Tick) \/ Same(Crash)

(* The fairness of NotifyQueue, for the runs of the cast.                     *)
MCFairness ==
  /\ WF_mcVars(Same(Tick))
  /\ \A w \in Workers : WF_mcVars(w \in cast.workers /\ Same(Work(w)))

MCSpec == MCInit /\ [][MCNext]_mcVars /\ MCFairness
=============================================================================
