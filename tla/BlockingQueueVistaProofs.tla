---------------------- MODULE BlockingQueueVistaProofs ----------------------
(***************************************************************************)
(* The Vista build, with timeouts and spurious wake-ups: the lock excludes, *)
(* no wake-up is lost, and the queue implements the abstract FIFO, for any   *)
(* number of threads.                                                       *)
(***************************************************************************)
EXTENDS BlockingQueueVista, BlockingQueueProofs, FiniteSetTheorems

VistaInv == Inv /\ NoLostWakeup

Waiting(op) == At({"waiting"}, op)

(* The room is a number. *)
LEMMA RoomType ==
  ASSUME QueueTypeOK, NEW op \in Ops
  PROVE  Room(op) \in Nat
  BY QueueAssumption DEF QueueTypeOK, Room

(* Threads are finitely many, on their way or not. *)
LEMMA ComingFinite ==
  ASSUME NEW op \in Ops
  PROVE  /\ IsFiniteSet(Coming(op)) /\ Cardinality(Coming(op)) \in Nat
         /\ IsFiniteSet(Coming(op)') /\ Cardinality(Coming(op)') \in Nat
<1>1. Coming(op) \subseteq Threads /\ Coming(op)' \subseteq Threads
  BY DEF Coming, At
<1> QED BY <1>1, QueueAssumption, FS_Subset, FS_CardinalityType

(* As much room, no new waiter, and nobody gone who was on the way. *)
LEMMA KeepOwed ==
  ASSUME QueueTypeOK, NEW op \in Ops, Owed(op),
         Waiting(op)' \subseteq Waiting(op), Room(op)' = Room(op),
         Coming(op) \subseteq Coming(op)'
  PROVE  Owed(op)'
<1>1. Cardinality(Coming(op)) <= Cardinality(Coming(op)')
  BY ComingFinite, FS_Subset
<1> QED BY <1>1, RoomType, ComingFinite DEF Owed, Waiting

(* One more place, and one more thread on the way. *)
LEMMA GainOwed ==
  ASSUME QueueTypeOK, NEW op \in Ops, Owed(op), NEW t,
         Waiting(op)' \subseteq Waiting(op), Room(op)' = Room(op) + 1,
         t \notin Coming(op), Coming(op)' = Coming(op) \cup {t}
  PROVE  Owed(op)'
<1>1. Cardinality(Coming(op)') = Cardinality(Coming(op)) + 1
  BY ComingFinite, FS_AddElement
<1> QED BY <1>1, RoomType, ComingFinite DEF Owed, Waiting

(* One place less, and one thread less on the way. *)
LEMMA LoseOwed ==
  ASSUME QueueTypeOK, NEW op \in Ops, Owed(op), NEW t,
         Waiting(op)' \subseteq Waiting(op), Room(op)' = Room(op) - 1,
         t \in Coming(op), Coming(op)' = Coming(op) \ {t}
  PROVE  Owed(op)'
<1>1. Cardinality(Coming(op)') = Cardinality(Coming(op)) - 1
  BY ComingFinite, FS_RemoveElement
<1> QED BY <1>1, RoomType, ComingFinite DEF Owed, Waiting

(* The waker leaves and the thread it woke comes. *)
LEMMA SwapOwed ==
  ASSUME QueueTypeOK, NEW op \in Ops, Owed(op), NEW t, NEW u,
         Waiting(op) # {}, Room(op)' = Room(op),
         t \in Coming(op), u \notin Coming(op), t # u,
         Coming(op)' = (Coming(op) \ {t}) \cup {u}
  PROVE  Owed(op)'
<1>1. /\ IsFiniteSet(Coming(op) \ {t})
      /\ Cardinality(Coming(op) \ {t}) = Cardinality(Coming(op)) - 1
  BY ComingFinite, FS_RemoveElement
<1>2. Cardinality(Coming(op)') = Cardinality(Coming(op) \ {t}) + 1
  BY <1>1, FS_AddElement
<1> QED BY <1>1, <1>2, RoomType, ComingFinite DEF Owed, Waiting

(* A thread with neither label of the counting argument, before and after.  *)
LEMMA BystanderOwed ==
  ASSUME Inv, NoLostWakeup, NEW t \in Threads, UNCHANGED q_,
         \A u \in Threads \ {t} : pc'[u] = pc[u] /\ call'[u] = call[u],
         pc[t] \notin {"woken", "test", "wake"},
         pc'[t] # "waiting"
  PROVE  NoLostWakeup'
<1> SUFFICES ASSUME NEW op \in Ops PROVE Owed(op)'
  BY DEF NoLostWakeup
<1>1. Waiting(op)' \subseteq Waiting(op)
  BY DEF Waiting, At
<1>2. Coming(op) \subseteq Coming(op)'
  BY DEF Coming, At
<1>3. Room(op)' = Room(op)
  BY DEF Room
<1> QED BY <1>1, <1>2, <1>3, KeepOwed DEF Inv, NoLostWakeup

(* Entering keeps a woken thread on its way. *)
LEMMA EnterOwed ==
  ASSUME Inv, NoLostWakeup, NEW t \in Threads, Enter(t)
  PROVE  NoLostWakeup'
<1> SUFFICES ASSUME NEW op \in Ops PROVE Owed(op)'
  BY DEF NoLostWakeup
<1>1. Waiting(op)' \subseteq Waiting(op)
  BY DEF Waiting, At, Enter, Goto, Inv, QueueTypeOK
<1>2. Coming(op) \subseteq Coming(op)'
  BY DEF Coming, At, Enter, Goto, Inv, QueueTypeOK
<1>3. Room(op)' = Room(op)
  BY DEF Room, Enter
<1> QED BY <1>1, <1>2, <1>3, KeepOwed DEF Inv, NoLostWakeup

(* A success takes the thread's own place and owes the other side a wake-up, *)
(* which the thread is about to give.                                        *)
LEMMA SucceedOwed ==
  ASSUME Inv, NoLostWakeup, NEW t \in Threads, PushBack(t) \/ PopFront(t)
  PROVE  NoLostWakeup'
<1>1. PICK op \in Ops : t \in At({"test"}, op) /\ call[t].op = op
  BY DEF PushBack, PopFront, At, Ops
<1>2. /\ pc[t] = "test" /\ call[t] # None /\ call' = call
      /\ pc' = [pc EXCEPT ![t] = "wake"]
  BY <1>1 DEF PushBack, PopFront, Succeed, Goto, At
<1>3. Len(q_) \in Nat /\ Len(q_') \in Nat
  BY PushStep, PopStep DEF Inv, QueueTypeOK
<1>4. Room(op)' = Room(op) - 1 /\ Room(Other(op))' = Room(Other(op)) + 1
  BY <1>1, <1>3, PushStep, PopStep, QueueAssumption
     DEF PushBack, PopFront, At, Room, Other, Ops
<1>5. op # Other(op) /\ Other(Other(op)) = op /\ Other(op) \in Ops
      /\ Ops = {op, Other(op)}
  BY <1>1 DEF Other, Ops
<1>6. \A o \in Ops : Waiting(o)' \subseteq Waiting(o)
  BY <1>2 DEF Waiting, At, Inv, QueueTypeOK
<1>7. Owed(op)'
  <2>1. t \in Coming(op)
    BY <1>1 DEF Coming, At
  <2>2. Coming(op)' = Coming(op) \ {t}
    BY <1>1, <1>2, <1>5 DEF Coming, At, Inv, QueueTypeOK
  <2> QED BY <1>4, <1>6, <2>1, <2>2, LoseOwed DEF Inv, NoLostWakeup
<1>8. Owed(Other(op))'
  <2>1. t \notin Coming(Other(op))
    BY <1>1, <1>2, <1>5 DEF Coming, At
  <2>2. Coming(Other(op))' = Coming(Other(op)) \cup {t}
    BY <1>1, <1>2, <1>5 DEF Coming, At, Inv, QueueTypeOK
  <2> QED BY <1>4, <1>5, <1>6, <2>1, <2>2, GainOwed DEF Inv, NoLostWakeup
<1> QED BY <1>5, <1>7, <1>8 DEF NoLostWakeup

(* Nobody sleeps while there is room. *)
LEMMA SleepOwed ==
  ASSUME Inv, NoLostWakeup, NEW t \in Threads, Sleep(t)
  PROVE  NoLostWakeup'
<1> SUFFICES ASSUME NEW o \in Ops PROVE Owed(o)'
  BY DEF NoLostWakeup
<1>1. PICK op \in Ops : t \in At({"test"}, op) /\ Room(op) = 0
  BY DEF Sleep, MustWait
<1>2. /\ pc[t] = "test" /\ call' = call
      /\ pc' = [pc EXCEPT ![t] = "waiting"] /\ Room(o)' = Room(o)
  BY <1>1 DEF Sleep, Goto, At, Room
<1>3. CASE o = op
  BY <1>1, <1>2, <1>3, ComingFinite DEF Owed
<1>4. CASE o # op
  <2>1. Waiting(o)' \subseteq Waiting(o)
    BY <1>1, <1>2, <1>4 DEF Waiting, At, Inv, QueueTypeOK
  <2>2. Coming(o) \subseteq Coming(o)'
    BY <1>1, <1>2, <1>4 DEF Coming, At, Inv, QueueTypeOK
  <2> QED BY <1>2, <2>1, <2>2, KeepOwed DEF Inv, NoLostWakeup
<1> QED BY <1>3, <1>4

(* A wake-up that is given is one less that is owed, or nobody waited. *)
LEMMA WakeOwed ==
  ASSUME Inv, NoLostWakeup, NEW t \in Threads, Wake(t)
  PROVE  NoLostWakeup'
<1>1. PICK op \in Ops :
        /\ call[t].op = Other(op)
        /\ \/ \E u \in Waiting(op) :
               pc' = [pc EXCEPT ![t] = "leave", ![u] = "woken"]
           \/ Waiting(op) = {} /\ pc' = [pc EXCEPT ![t] = "leave"]
  BY DEF Wake, Goto, Waiting
<1>2. /\ pc[t] = "wake" /\ call[t] # None /\ call' = call
      /\ \A o \in Ops : Room(o)' = Room(o)
  BY InsideCall DEF Wake, Inv, Room
<1>3. op # Other(op) /\ Other(Other(op)) = op /\ Ops = {op, Other(op)}
  BY DEF Other, Ops
<1>4. \A o \in Ops : Waiting(o)' \subseteq Waiting(o)
  BY <1>1, <1>2 DEF Waiting, At, Inv, QueueTypeOK
<1>5. Owed(Other(op))'
  <2>1. Coming(Other(op)) \subseteq Coming(Other(op))'
    BY <1>1, <1>2, <1>3 DEF Coming, Waiting, At, Inv, QueueTypeOK
  <2> QED BY <1>2, <1>3, <1>4, <2>1, KeepOwed DEF Inv, NoLostWakeup
<1>6. Owed(op)'
  <2>1. CASE Waiting(op) = {}
    BY <1>4, <2>1 DEF Owed, Waiting
  <2>2. ASSUME NEW u \in Waiting(op),
               pc' = [pc EXCEPT ![t] = "leave", ![u] = "woken"]
        PROVE  Owed(op)'
    <3>1. /\ u \in Threads /\ u # t /\ pc[u] = "waiting"
          /\ call[u] # None /\ call[u].op = op
      BY <1>2, <2>2 DEF Waiting, At
    <3>2. t \in Coming(op) /\ u \notin Coming(op)
      BY <1>1, <1>2, <3>1 DEF Coming, At
    <3>3. Coming(op)' = (Coming(op) \ {t}) \cup {u}
      BY <1>1, <1>2, <1>3, <2>2, <3>1 DEF Coming, At, Inv, QueueTypeOK
    <3> QED BY <1>2, <2>2, <3>1, <3>2, <3>3, SwapOwed DEF Inv, NoLostWakeup
  <2> QED BY <1>1, <2>1, <2>2
<1> QED BY <1>3, <1>5, <1>6 DEF NoLostWakeup

(* Every step of the Vista build keeps the invariant and is a step of the *)
(* abstract queue, or invisible.                                          *)
LEMMA VistaNextStep ==
  ASSUME VistaInv, [Next]_queueVars
  PROVE  VistaInv' /\ [Fifo!FifoNext]_(Fifo!fifoVars)
<1> USE DEF VistaInv
<1>1. CASE UNCHANGED queueVars
  <2>1. Inv' /\ UNCHANGED Fifo!fifoVars
    BY <1>1 DEF queueVars, Inv, QueueTypeOK, Locked, Fifo!fifoVars
  <2>2. ASSUME NEW op \in Ops PROVE Owed(op)'
    <3>1. /\ Waiting(op)' = Waiting(op) /\ Coming(op)' = Coming(op)
          /\ Room(op)' = Room(op)
      BY <1>1 DEF queueVars, Waiting, Coming, At, Room
    <3> QED BY <3>1, KeepOwed DEF Inv, NoLostWakeup
  <2> QED BY <2>1, <2>2 DEF NoLostWakeup
<1>2. ASSUME NEW t \in Threads, NEW c \in Calls, Call(t, c)
      PROVE  VistaInv' /\ Fifo!FifoNext
  <2>1. NoLostWakeup'
    BY <1>2, BystanderOwed DEF Call, Goto, Inv, QueueTypeOK
  <2> QED BY <1>2, <2>1, CallStep
<1>3. ASSUME NEW t \in Threads, Enter(t)
      PROVE  VistaInv' /\ UNCHANGED Fifo!fifoVars
  BY <1>3, EnterStep, EnterOwed
<1>4. ASSUME NEW t \in Threads, PushBack(t) \/ PopFront(t)
      PROVE  VistaInv' /\ Fifo!FifoNext
  BY <1>4, PushStep, PopStep, SucceedOwed
<1>5. ASSUME NEW t \in Threads, Sleep(t)
      PROVE  VistaInv' /\ UNCHANGED Fifo!fifoVars
  <2>1. QueueTypeOK'
    BY <1>5 DEF Inv, QueueTypeOK, Sleep, MustWait, At, Goto, Labels
  <2>2. Locked'
    BY <1>5, QueueAssumption DEF Inv, QueueTypeOK, Locked, Sleep, MustWait, At, Goto
  <2> QED BY <1>5, <2>1, <2>2, SleepOwed DEF Inv, Sleep, Fifo!fifoVars
<1>6. ASSUME NEW t \in Threads, Expire(t)
      PROVE  VistaInv' /\ Fifo!FifoNext
  <2>1. QueueTypeOK'
    BY <1>6, ReplyShape DEF Inv, QueueTypeOK, Expire, Goto, Labels
  <2>2. Locked'
    BY <1>6 DEF Inv, QueueTypeOK, Locked, Expire, Goto
  <2>3. NoLostWakeup'
    BY <1>6, BystanderOwed DEF Expire, Goto, Inv, QueueTypeOK
  <2>4. Fifo!GiveUp(t)
    BY <1>6, InsideCall DEF Fifo!GiveUp, Expire, Inv, QueueTypeOK
  <2> QED BY <2>1, <2>2, <2>3, <2>4 DEF Inv, Fifo!FifoNext
<1>7. ASSUME NEW t \in Threads, ExpiredEnters(t)
      PROVE  VistaInv' /\ UNCHANGED Fifo!fifoVars
  <2>1. QueueTypeOK'
    BY <1>7 DEF Inv, QueueTypeOK, ExpiredEnters, Goto, Labels
  <2>2. Locked'
    BY <1>7, QueueAssumption DEF Inv, QueueTypeOK, Locked, ExpiredEnters, Goto
  <2>3. NoLostWakeup'
    BY <1>7, BystanderOwed DEF ExpiredEnters, Goto, Inv, QueueTypeOK
  <2> QED BY <1>7, <2>1, <2>2, <2>3 DEF Inv, ExpiredEnters, Fifo!fifoVars
<1>8. ASSUME NEW t \in Threads, Wake(t)
      PROVE  VistaInv' /\ UNCHANGED Fifo!fifoVars
  <2>1. QueueTypeOK'
    BY <1>8 DEF Inv, QueueTypeOK, Wake, At, Goto, Labels
  <2>2. Locked'
    BY <1>8 DEF Inv, QueueTypeOK, Locked, Wake, At, Goto
  <2> QED BY <1>8, <2>1, <2>2, WakeOwed DEF Inv, Wake, Fifo!fifoVars
<1>9. ASSUME NEW t \in Threads, Leave(t)
      PROVE  VistaInv' /\ Fifo!FifoNext
  <2>1. NoLostWakeup'
    BY <1>9, BystanderOwed DEF Leave, Return, Goto, Inv, QueueTypeOK
  <2> QED BY <1>9, <2>1, LeaveStep
<1>10. ASSUME NEW t \in Threads, WakeSpuriously(t)
       PROVE  VistaInv' /\ UNCHANGED Fifo!fifoVars
  <2>1. QueueTypeOK'
    BY <1>10 DEF Inv, QueueTypeOK, WakeSpuriously, Goto, Labels
  <2>2. Locked'
    BY <1>10 DEF Inv, QueueTypeOK, Locked, WakeSpuriously, Goto
  <2>3. NoLostWakeup'
    BY <1>10, BystanderOwed DEF WakeSpuriously, Goto, Inv, QueueTypeOK
  <2> QED BY <1>10, <2>1, <2>2, <2>3 DEF Inv, WakeSpuriously, Fifo!fifoVars
<1> QED BY <1>1, <1>2, <1>3, <1>4, <1>5, <1>6, <1>7, <1>8, <1>9, <1>10
        DEF Next, Orderly, Step

(* The invariant of the Vista queue holds in every reachable state. *)
LEMMA VistaInvHolds == Spec => []VistaInv
<1>1. Init => VistaInv
  BY InitInv DEF Init, QueueInit, VistaInv, NoLostWakeup, Owed, At
<1>2. VistaInv /\ [Next]_queueVars => VistaInv'
  BY VistaNextStep
<1> QED BY <1>1, <1>2, PTL DEF Spec

(* The variables keep to their types, and the deque to its bound. *)
THEOREM VistaTypeCorrect == Spec => []QueueTypeOK
<1>1. VistaInv => QueueTypeOK
  BY DEF VistaInv, Inv
<1> QED BY <1>1, VistaInvHolds, PTL

(* The deque is used by one thread at a time. *)
THEOREM VistaExclusion == Spec => []MutualExclusion
<1>1. VistaInv => MutualExclusion
  BY LockedExcludes DEF VistaInv, Inv
<1> QED BY <1>1, VistaInvHolds, PTL

(* A thread that waits while it could go on is owed a wake-up. *)
THEOREM VistaWakes == Spec => []NoLostWakeup
<1>1. VistaInv => NoLostWakeup
  BY DEF VistaInv
<1> QED BY <1>1, VistaInvHolds, PTL

(* Every call that returns took effect atomically, in FIFO order, or gave *)
(* up and left the queue as it was.                                       *)
THEOREM VistaImplementsFifo == Spec => Linearizable
<1>1. Init => Fifo!FifoInit
  BY InitInv DEF Init
<1>2. VistaInv /\ [Next]_queueVars => [Fifo!FifoNext]_(Fifo!fifoVars)
  BY VistaNextStep
<1> QED BY <1>1, <1>2, VistaInvHolds, PTL DEF Spec, Linearizable, Fifo!FifoSpec

=============================================================================
