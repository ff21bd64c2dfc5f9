-------------------------- MODULE BlockingQueueXP --------------------------
(***************************************************************************)
(* blocking_queue as built for Windows 2000 and XP: the two condition       *)
(* variables are auto-reset events, and the critical section is left before *)
(* the wait and entered again after it.                                     *)
(***************************************************************************)
EXTENDS BlockingQueue

VARIABLE signalled   \* operations whose event is set: queue_is_empty for pop

vars == <<queueVars, signalled>>

XPTypeOK == QueueTypeOK /\ signalled \subseteq Ops

Init == QueueInit /\ signalled = {}

(* LeaveCriticalSection, before the wait *)
Unlock(t) ==
  /\ MustWait(t)
  /\ sync_' = None
  /\ Goto(t, "waiting")
  /\ UNCHANGED <<q_, call, reply, signalled>>

(* Faulty: goes on without EnterCriticalSection. *)
SignalledUnlocked(t) ==
  /\ pc[t] = "waiting"
  /\ call[t].op \in signalled
  /\ signalled' = signalled \ {call[t].op}
  /\ Goto(t, "test")
  /\ UNCHANGED <<q_, sync_, call, reply>>

(* WaitForSingleObject returns WAIT_OBJECT_0 and resets the event.  A       *)
(* thread at waiting may not have called it yet, so that an event set for   *)
(* it can be taken by another, or set again before anyone has taken it.     *)
Signalled(t) ==
  /\ pc[t] = "waiting"
  /\ call[t].op \in signalled
  /\ signalled' = signalled \ {call[t].op}
  /\ Goto(t, "woken")
  /\ UNCHANGED <<q_, sync_, call, reply>>

(* Faulty: sets the event its own operation waits for. *)
WakeOwn(t) ==
  /\ pc[t] = "wake"
  /\ signalled' = signalled \cup {call[t].op}
  /\ Goto(t, "leave")
  /\ UNCHANGED <<q_, sync_, call, reply>>

(* cond_wake, that is SetEvent: the event stays set if nobody waits, and    *)
(* setting it twice is setting it once.                                     *)
Wake(t) ==
  /\ pc[t] = "wake"
  /\ signalled' = signalled \cup {Other(call[t].op)}
  /\ Goto(t, "leave")
  /\ UNCHANGED <<q_, sync_, call, reply>>

Step(t) ==
  \/ Signalled(t)
  \/ Wake(t)
  \/ Unlock(t)
  \/ (Enter(t) \/ PushBack(t) \/ PopFront(t) \/ Leave(t)) /\ UNCHANGED signalled

Next ==
  \E t \in Threads :
    \/ \E c \in Calls : Call(t, c) /\ UNCHANGED signalled
    \/ Step(t)

Spec == Init /\ [][Next]_vars

(* An event is one bit for all its waiters, so that wake-ups get lost and,   *)
(* with three threads, a thread may wait for ever although it could go on:  *)
(* NoneForgotten fails.  What SetEvent and the two loops still ensure, for   *)
(* any number of threads, is that producers and consumers never sleep all together: of the  *)
(* two operations one can succeed, and nobody waits for it, or its event is *)
(* set, or a thread is on its way to it.                                    *)
OneSideAwake ==
  max_size_ > 0 =>
    \E op \in Ops :
      /\ Room(op) > 0
      /\ At({"waiting"}, op) = {} \/ op \in signalled \/ Coming(op) # {}

(* There are no three threads. *)
Pair == \A t, u, v \in Threads : t = u \/ u = v \/ t = v

(* With two threads an event has one waiter to wake: a thread that waits     *)
(* while its operation can succeed has its event set, or the other thread   *)
(* is about to set it.  With a third thread this fails, as two SetEvents    *)
(* for two waiters are one, and nothing is said here.                       *)
PairIsWoken ==
  Pair =>
    \A op \in Ops :
      At({"waiting"}, op) # {} /\ Room(op) > 0 =>
        op \in signalled \/ At({"wake"}, Other(op)) # {}

(* See BlockingQueueVista: threads are scheduled, the lock is fair. *)
FairSpec ==
  /\ Spec
  /\ \A t \in Threads :
       /\ WF_vars(Step(t))
       /\ SF_vars(Enter(t) /\ UNCHANGED signalled)

-----------------------------------------------------------------------------
(* What finite timeouts add *)

(* WAIT_TIMEOUT: return false, with the critical section left already. *)
TimeOut(t) ==
  /\ pc[t] = "waiting"
  /\ call[t].timed
  /\ reply' = [reply EXCEPT ![t] = Fifo!GaveUp]
  /\ Goto(t, "leave")
  /\ UNCHANGED <<q_, sync_, call, signalled>>

(* ~sync_t leaves a critical section that the thread does not own.  Its     *)
(* count is then wrong: nothing shows, or it is free for others while its   *)
(* owner is inside, or it is never free again.                              *)
LeaveUnowned(t) ==
  /\ pc[t] = "leave"
  /\ sync_ # t
  /\ sync_' \in {sync_, None, t}
  /\ Return(t)
  /\ UNCHANGED <<q_, signalled>>

TimedSpec ==
  Init /\ [][Next \/ \E t \in Threads : TimeOut(t) \/ LeaveUnowned(t)]_vars

(* WAIT_FAILED, as with an event the constructor could not create: the loop *)
(* goes round without the critical section.                                 *)
WaitFails(t) ==
  /\ pc[t] = "waiting"
  /\ Goto(t, "test")
  /\ UNCHANGED <<q_, sync_, call, reply, signalled>>

FailingSpec ==
  Init /\ [][Next \/ \E t \in Threads : WaitFails(t) \/ LeaveUnowned(t)]_vars

=============================================================================
