------------------------ MODULE BlockingQueueVista ------------------------
(***************************************************************************)
(* blocking_queue as built for Windows Vista and later: the two condition   *)
(* variables are CONDITION_VARIABLEs, which release the critical section    *)
(* and go to sleep in one step.                                             *)
(***************************************************************************)
EXTENDS BlockingQueue

Init == QueueInit

(* SleepConditionVariableCS *)
Sleep(t) ==
  /\ MustWait(t)
  /\ sync_' = None
  /\ Goto(t, "waiting")
  /\ UNCHANGED <<q_, call, reply>>

(* It times out, and takes the critical section again to return false. *)
Expire(t) ==
  /\ pc[t] = "waiting"
  /\ call[t].timed
  /\ reply' = [reply EXCEPT ![t] = Fifo!GaveUp]
  /\ Goto(t, "expired")
  /\ UNCHANGED <<q_, sync_, call>>

(* Faulty: returns false without it, as the other build does. *)
ExpiredReturns(t) ==
  /\ pc[t] = "expired"
  /\ Return(t)
  /\ sync_' = None
  /\ UNCHANGED q_

ExpiredEnters(t) ==
  /\ pc[t] = "expired"
  /\ sync_ = None
  /\ sync_' = t
  /\ Goto(t, "leave")
  /\ UNCHANGED <<q_, call, reply>>

(* It returns for no reason, or with an error that is not a timeout: the    *)
(* loop goes round.                                                         *)
WakeSpuriously(t) ==
  /\ pc[t] = "waiting"
  /\ Goto(t, "woken")
  /\ UNCHANGED <<q_, sync_, call, reply>>

(* Faulty: cond_wake only if the queue was empty, or full, before. *)
WakeOnEdge(t) ==
  /\ pc[t] = "wake"
  /\ \E op \in Ops :
       /\ call[t].op = Other(op)
       /\ \/ /\ Room(op) = 1
             /\ \E u \in At({"waiting"}, op) :
                  pc' = [pc EXCEPT ![t] = "leave", ![u] = "woken"]
          \/ /\ Room(op) # 1 \/ At({"waiting"}, op) = {}
             /\ Goto(t, "leave")
  /\ UNCHANGED <<q_, sync_, call, reply>>

(* cond_wake, that is WakeConditionVariable, of the other operation's *)
(* condition variable: one sleeper if there is any.                   *)
Wake(t) ==
  /\ pc[t] = "wake"
  /\ \E op \in Ops :
       /\ call[t].op = Other(op)
       /\ \/ \E u \in At({"waiting"}, op) :
               pc' = [pc EXCEPT ![t] = "leave", ![u] = "woken"]
          \/ /\ At({"waiting"}, op) = {}
             /\ Goto(t, "leave")
  /\ UNCHANGED <<q_, sync_, call, reply>>

Step(t) ==
  \/ Enter(t)
  \/ PushBack(t)
  \/ PopFront(t)
  \/ Sleep(t)
  \/ Expire(t)
  \/ ExpiredEnters(t)
  \/ Wake(t)
  \/ Leave(t)

Orderly == \E t \in Threads : Step(t) \/ \E c \in Calls : Call(t, c)

Next == Orderly \/ \E t \in Threads : WakeSpuriously(t)

Spec == Init /\ [][Next]_queueVars

(* Threads are scheduled, and the critical section, which hands itself to   *)
(* its waiters in turn, lets none of them wait for ever.                    *)
Fairness ==
  \A t \in Threads :
    /\ WF_queueVars(Step(t))
    /\ SF_queueVars(Enter(t))
    /\ SF_queueVars(ExpiredEnters(t))

FairSpec == Spec /\ Fairness

(* No wake-up is spurious, and no wait fails other than by its timeout. *)
OrderlySpec == Init /\ [][Orderly]_queueVars /\ Fairness

(* "return false; // timout" (try_push_back, try_pop_front): a call with a  *)
(* finite timeout returns.                                                  *)
TimedCallReturns ==
  \A t \in Threads :
    (call[t] # None /\ call[t].timed) ~> (call[t] = None)

=============================================================================
