--------------------------- MODULE BlockingQueue ---------------------------
(***************************************************************************)
(* blocking_queue (src/containers): the part of try_push_back and           *)
(* try_pop_front that does not depend on the version of Windows.  Waiting   *)
(* and waking are in BlockingQueueVista (condition variables) and in        *)
(* BlockingQueueXP (auto-reset events), which extend this module.           *)
(*                                                                          *)
(* The label in pc[t] names the next step of thread t inside a call:        *)
(*   out      no call                 enter    EnterCriticalSection         *)
(*   test     the loop's condition    waiting  on its condition variable    *)
(*   woken    signalled, unlocked     expired  timed out, unlocked          *)
(*   wake     cond_wake               leave    LeaveCriticalSection         *)
(***************************************************************************)
EXTENDS Naturals, Sequences, FiniteSets

CONSTANTS
  Threads,     \* threads that use the queue
  Items,       \* what they push
  Default,     \* T(), a default-constructed element
  Timed,       \* whether a call may have a finite timeout: a subset of BOOLEAN
  max_size_,
  None         \* no owner, no call, no reply, no element

ASSUME QueueAssumption ==
  /\ IsFiniteSet(Threads)
  /\ Timed \subseteq BOOLEAN
  /\ max_size_ \in Nat
  /\ None \notin Threads \cup Items

VARIABLES
  q_,          \* the deque
  sync_,       \* owner of the critical section
  pc,
  call,        \* what each thread called
  reply        \* what its call will return

queueVars == <<q_, sync_, pc, call, reply>>

(* The constructor creates the deque with max_size elements. *)
Filling == [i \in 1..max_size_ |-> Default]

Fifo == INSTANCE BoundedFifo WITH queue <- q_, Capacity <- max_size_

Calls == Fifo!Calls

Replies == [ok : BOOLEAN, item : Items \cup {Default, None}]

ASSUME NoneAssumption == None \notin Calls \cup Replies

Labels == {"out", "enter", "test", "waiting", "woken", "expired", "wake", "leave"}

QueueTypeOK ==
  /\ q_ \in Seq(Items \cup {Default})
  /\ Len(q_) <= max_size_
  /\ sync_ \in Threads \cup {None}
  /\ pc \in [Threads -> Labels]
  /\ call \in [Threads -> Calls \cup {None}]
  /\ reply \in [Threads -> Replies \cup {None}]
  /\ \A t \in Threads : pc[t] = "out" <=> call[t] = None
  /\ \A t \in Threads : pc[t] \in {"wake", "leave", "expired"} <=> reply[t] # None

QueueInit ==
  /\ q_ = Filling
  /\ sync_ = None
  /\ pc = [t \in Threads |-> "out"]
  /\ call = [t \in Threads |-> None]
  /\ reply = [t \in Threads |-> None]

-----------------------------------------------------------------------------
Ops == {"push", "pop"}

Other(op) == IF op = "push" THEN "pop" ELSE "push"

(* The threads at one of the given labels in a call of op. *)
At(labels, op) ==
  {t \in Threads : pc[t] \in labels /\ call[t] # None /\ call[t].op = op}

(* How often op can succeed before it has to wait. *)
Room(op) == IF op = "pop" THEN Len(q_) ELSE max_size_ - Len(q_)

(* The threads that will test the condition of op before they sleep again,  *)
(* or wake a thread that will.                                              *)
Coming(op) == At({"woken", "test"}, op) \cup At({"wake"}, Other(op))

Goto(t, label) == pc' = [pc EXCEPT ![t] = label]

(* push_back and pop_front call try_push_back and try_pop_front with INFINITE. *)
Call(t, c) ==
  /\ pc[t] = "out"
  /\ call' = [call EXCEPT ![t] = c]
  /\ Goto(t, "enter")
  /\ UNCHANGED <<q_, sync_, reply>>

(* sync(sync_), or the return from a wait that was signalled *)
Enter(t) ==
  /\ pc[t] \in {"enter", "woken"}
  /\ sync_ = None
  /\ sync_' = t
  /\ Goto(t, "test")
  /\ UNCHANGED <<q_, call, reply>>

Succeed(t, x) ==
  /\ reply' = [reply EXCEPT ![t] = Fifo!Done(x)]
  /\ Goto(t, "wake")
  /\ UNCHANGED <<sync_, call>>

(* Faulty: while( q_.size() > max_size_ ). *)
PushBackOverfull(t) ==
  /\ t \in At({"test"}, "push")
  /\ Len(q_) <= max_size_
  /\ q_' = Append(q_, call[t].item)
  /\ Succeed(t, None)

PushBack(t) ==
  /\ t \in At({"test"}, "push")
  /\ Len(q_) < max_size_
  /\ q_' = Append(q_, call[t].item)
  /\ Succeed(t, None)

(* Faulty: takes the newest element, back() and pop_back(). *)
PopBack(t) ==
  /\ t \in At({"test"}, "pop")
  /\ q_ # <<>>
  /\ q_' = SubSeq(q_, 1, Len(q_) - 1)
  /\ Succeed(t, q_[Len(q_)])

PopFront(t) ==
  /\ t \in At({"test"}, "pop")
  /\ q_ # <<>>
  /\ q_' = Tail(q_)
  /\ Succeed(t, Head(q_))

(* The loop's condition holds: the thread has to wait. *)
MustWait(t) == \E op \in Ops : t \in At({"test"}, op) /\ Room(op) = 0

Return(t) ==
  /\ call' = [call EXCEPT ![t] = None]
  /\ reply' = [reply EXCEPT ![t] = None]
  /\ Goto(t, "out")

(* ~sync_t, at the end of the block and at a return from inside it *)
Leave(t) ==
  /\ pc[t] = "leave"
  /\ sync_ = t
  /\ sync_' = None
  /\ Return(t)
  /\ UNCHANGED q_

-----------------------------------------------------------------------------
(* Properties *)

(* The label of a thread tells whether it owns the critical section. *)
Locked ==
  \A t \in Threads : pc[t] \in {"test", "wake", "leave"} <=> sync_ = t

(* The block of sync(sync_) has one thread at a time in it: the deque is    *)
(* never touched by two.                                                    *)
MutualExclusion ==
  \A t, u \in Threads :
    pc[t] \in {"test", "wake"} /\ pc[u] \in {"test", "wake"} => t = u

(* A thread that waits while it could go on is owed a wake-up: there are at *)
(* least as many threads on their way, woken or about to wake somebody, as  *)
(* calls that can succeed.                                                  *)
Owed(op) == At({"waiting"}, op) # {} => Room(op) <= Cardinality(Coming(op))

NoLostWakeup == \A op \in Ops : Owed(op)

(* Calls take effect atomically and in FIFO order. *)
Linearizable == Fifo!FifoSpec

(* "conditional variables" (threading.h), each cond_wake of which wakes one  *)
(* waiter: no thread waits for ever while there is an element for its pop,  *)
(* or room for its push.  It holds of the Vista build; on XP, where a        *)
(* cond_var is an event, it fails with three threads.                       *)
NoneForgotten ==
  \A t \in Threads, op \in Ops :
    (t \in At({"waiting"}, op) /\ Room(op) > 0) ~>
      (t \notin At({"waiting"}, op) \/ Room(op) = 0)

(* "max_size" (the constructor's only argument): what a pop returns is what *)
(* some push put in.                                                        *)
PoppedWasPushed ==
  \A t \in Threads : reply[t] # None => reply[t].item # Default

=============================================================================
