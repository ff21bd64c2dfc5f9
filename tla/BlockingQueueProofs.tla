------------------------ MODULE BlockingQueueProofs ------------------------
(***************************************************************************)
(* What the steps that both builds of blocking_queue share keep true: the   *)
(* types, the meaning of the labels for the critical section, and that each *)
(* is a step of the abstract FIFO or none.                                  *)
(***************************************************************************)
EXTENDS BlockingQueue, TLAPS

Inv == QueueTypeOK /\ Locked

(* A call has its operation and its item, and is not None. *)
LEMMA CallShape ==
  \A c \in Calls :
    /\ c # None
    /\ c.op \in Ops
    /\ c.op = "push" => c.item \in Items
    /\ c.timed \in BOOLEAN
  BY QueueAssumption, NoneAssumption DEF Calls, Fifo!Calls, Ops

(* What a call returns is not None. *)
LEMMA ReplyShape ==
  /\ Fifo!GaveUp \in Replies \ {None}
  /\ \A x \in Items \cup {Default, None} : Fifo!Done(x) \in Replies \ {None}
<1>1. Fifo!GaveUp \in Replies
  BY DEF Replies, Fifo!GaveUp
<1>2. ASSUME NEW x \in Items \cup {Default, None}
      PROVE  Fifo!Done(x) \in Replies
  BY DEF Replies, Fifo!Done
<1> QED BY <1>1, <1>2, NoneAssumption

(* A thread inside a call has one. *)
LEMMA InsideCall ==
  ASSUME QueueTypeOK, NEW t \in Threads, pc[t] # "out"
  PROVE  call[t] \in Calls /\ call[t] # None /\ call[t].op \in Ops
  BY CallShape DEF QueueTypeOK

(* The constructor leaves a queue that the abstract one starts from. *)
THEOREM InitInv ==
  ASSUME QueueInit
  PROVE  Inv /\ Fifo!FifoInit
<1>1. q_ \in Seq(Items \cup {Default}) /\ Len(q_) = max_size_
  BY QueueAssumption DEF QueueInit, Filling
<1>2. QueueTypeOK
  BY <1>1, QueueAssumption DEF QueueInit, QueueTypeOK, Labels
<1>3. Locked
  BY QueueAssumption DEF QueueInit, Locked
<1>4. Fifo!FifoInit
  BY DEF QueueInit, Fifo!FifoInit
<1> QED BY <1>2, <1>3, <1>4 DEF Inv

(* A new call is an Ask. *)
LEMMA CallStep ==
  ASSUME Inv, NEW t \in Threads, NEW c \in Calls, Call(t, c)
  PROVE  Inv' /\ Fifo!FifoNext
<1> USE DEF Inv
<1>1. c # None /\ call[t] = None
  BY CallShape DEF Call, QueueTypeOK
<1>2. QueueTypeOK'
  BY <1>1 DEF QueueTypeOK, Call, Goto, Labels
<1>3. Locked'
  BY DEF Locked, QueueTypeOK, Call, Goto
<1>4. Fifo!Ask(t, c)
  BY <1>1 DEF Fifo!Ask, Call
<1> QED BY <1>2, <1>3, <1>4 DEF Fifo!FifoNext, Calls

(* Entering the critical section is invisible. *)
LEMMA EnterStep ==
  ASSUME Inv, NEW t \in Threads, Enter(t)
  PROVE  Inv' /\ UNCHANGED Fifo!fifoVars
<1> USE DEF Inv
<1>1. QueueTypeOK'
  BY DEF QueueTypeOK, Enter, Goto, Labels
<1>2. Locked'
  BY QueueAssumption DEF Locked, QueueTypeOK, Enter, Goto
<1> QED BY <1>1, <1>2 DEF Enter, Fifo!fifoVars

(* A reply is set and the lock kept. *)
LEMMA SucceedStep ==
  ASSUME Inv, NEW t \in Threads, pc[t] = "test",
         NEW x \in Items \cup {Default, None}, Succeed(t, x),
         q_' \in Seq(Items \cup {Default}), Len(q_') <= max_size_
  PROVE  Inv'
<1> USE DEF Inv
<1>1. Fifo!Done(x) \in Replies \ {None}
  BY ReplyShape
<1>2. QueueTypeOK'
  BY <1>1 DEF QueueTypeOK, Succeed, Goto, Labels
<1>3. Locked'
  BY DEF Locked, QueueTypeOK, Succeed, Goto
<1> QED BY <1>2, <1>3

(* q_.push_back is a Push. *)
LEMMA PushStep ==
  ASSUME Inv, NEW t \in Threads, PushBack(t)
  PROVE  Inv' /\ Fifo!FifoNext /\ Len(q_') = Len(q_) + 1
<1> USE DEF Inv
<1>1. pc[t] = "test" /\ call[t] \in Calls /\ call[t].op = "push" /\ reply[t] = None
  BY InsideCall DEF PushBack, At, QueueTypeOK
<1>2. call[t] # None /\ call[t].item \in Items
  BY <1>1, CallShape
<1>3. /\ q_' \in Seq(Items \cup {Default})
      /\ Len(q_') = Len(q_) + 1 /\ Len(q_') <= max_size_
  BY <1>2, QueueAssumption DEF PushBack, QueueTypeOK
<1>4. Inv'
  BY <1>1, <1>3, SucceedStep DEF PushBack
<1>5. Fifo!Push(t)
  BY <1>1, <1>2 DEF Fifo!Push, Fifo!Pending, PushBack, Succeed
<1> QED BY <1>3, <1>4, <1>5 DEF Fifo!FifoNext

(* q_.front and q_.pop_front are a Pop. *)
LEMMA PopStep ==
  ASSUME Inv, NEW t \in Threads, PopFront(t)
  PROVE  Inv' /\ Fifo!FifoNext /\ Len(q_') = Len(q_) - 1
<1> USE DEF Inv
<1>1. pc[t] = "test" /\ call[t] # None /\ call[t].op = "pop" /\ reply[t] = None
  BY InsideCall DEF PopFront, At, QueueTypeOK
<1>2. /\ Head(q_) \in Items \cup {Default, None}
      /\ q_' \in Seq(Items \cup {Default})
      /\ Len(q_') = Len(q_) - 1 /\ Len(q_') <= max_size_
  BY QueueAssumption DEF PopFront, QueueTypeOK
<1>3. Inv'
  BY <1>1, <1>2, SucceedStep DEF PopFront
<1>4. Fifo!Pop(t)
  BY <1>1 DEF Fifo!Pop, Fifo!Pending, PopFront, Succeed
<1> QED BY <1>2, <1>3, <1>4 DEF Fifo!FifoNext

(* The return is an Answer. *)
LEMMA LeaveStep ==
  ASSUME Inv, NEW t \in Threads, Leave(t)
  PROVE  Inv' /\ Fifo!FifoNext
<1> USE DEF Inv
<1>1. QueueTypeOK'
  BY DEF QueueTypeOK, Leave, Return, Goto, Labels
<1>2. Locked'
  BY QueueAssumption DEF Locked, QueueTypeOK, Leave, Return, Goto
<1>3. Fifo!Answer(t)
  BY DEF Fifo!Answer, Leave, Return, QueueTypeOK
<1> QED BY <1>1, <1>2, <1>3 DEF Fifo!FifoNext

(* One thread at a time is in the block. *)
LEMMA LockedExcludes ==
  ASSUME Locked
  PROVE  MutualExclusion
  BY DEF Locked, MutualExclusion

=============================================================================
