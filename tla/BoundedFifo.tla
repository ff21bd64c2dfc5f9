---------------------------- MODULE BoundedFifo ----------------------------
(***************************************************************************)
(* What blocking_queue promises, with no lock and no condition variables:   *)
(* a call takes effect once, in one step between its start and its return,  *)
(* elements leave in the order they came, and a call that gives up leaves   *)
(* the queue as it was.                                                     *)
(***************************************************************************)
EXTENDS Naturals, Sequences

CONSTANTS
  Threads,   \* callers
  Items,     \* what they push
  Timed,     \* whether a call may have a finite timeout: a subset of BOOLEAN
  Capacity,  \* max_size
  Filling,   \* elements the queue is made with
  None       \* no call, no reply, no element

VARIABLES queue, call, reply

fifoVars == <<queue, call, reply>>

Calls ==
  [op : {"push"}, item : Items, timed : Timed] \cup
  [op : {"pop"}, item : {None}, timed : Timed]

(* What a call returns; a pop also assigns its argument. *)
Done(x) == [ok |-> TRUE, item |-> x]
GaveUp  == [ok |-> FALSE, item |-> None]

FifoInit ==
  /\ queue = Filling
  /\ call = [t \in Threads |-> None]
  /\ reply = [t \in Threads |-> None]

Pending(t, op) ==
  /\ call[t] # None
  /\ call[t].op = op
  /\ reply[t] = None

Ask(t, c) ==
  /\ call[t] = None
  /\ call' = [call EXCEPT ![t] = c]
  /\ UNCHANGED <<queue, reply>>

Push(t) ==
  /\ Pending(t, "push")
  /\ Len(queue) < Capacity
  /\ queue' = Append(queue, call[t].item)
  /\ reply' = [reply EXCEPT ![t] = Done(None)]
  /\ UNCHANGED call

Pop(t) ==
  /\ Pending(t, "pop")
  /\ queue # <<>>
  /\ queue' = Tail(queue)
  /\ reply' = [reply EXCEPT ![t] = Done(Head(queue))]
  /\ UNCHANGED call

GiveUp(t) ==
  /\ call[t] # None /\ call[t].timed
  /\ reply[t] = None
  /\ reply' = [reply EXCEPT ![t] = GaveUp]
  /\ UNCHANGED <<queue, call>>

Answer(t) ==
  /\ reply[t] # None
  /\ call' = [call EXCEPT ![t] = None]
  /\ reply' = [reply EXCEPT ![t] = None]
  /\ UNCHANGED queue

FifoNext ==
  \E t \in Threads :
    \/ \E c \in Calls : Ask(t, c)
    \/ Push(t) \/ Pop(t) \/ GiveUp(t) \/ Answer(t)

FifoSpec == FifoInit /\ [][FifoNext]_fifoVars

=============================================================================
