----------------------- MODULE BlockingQueueXPProofs -----------------------
(***************************************************************************)
(* The XP build, with calls that do not time out: the lock excludes and the *)
(* queue implements the abstract FIFO, for any number of threads, although  *)
(* the lock is left before the wait; the events never leave both sides      *)
(* asleep, and between two threads they lose no wake-up.                    *)
(***************************************************************************)
EXTENDS BlockingQueueXP, BlockingQueueProofs

XPInv == Inv /\ signalled \subseteq Ops

(* The operation can succeed, and nobody who waits for it is forgotten. *)
Awake(op) ==
  /\ Room(op) > 0
  /\ At({"waiting"}, op) = {} \/ op \in signalled \/ Coming(op) # {}

(* Every step keeps the invariant and is a step of the FIFO, or none. *)
LEMMA XPNextStep ==
  ASSUME XPInv, [Next]_vars
  PROVE  XPInv' /\ [Fifo!FifoNext]_(Fifo!fifoVars)
<1> USE DEF XPInv
<1>1. CASE UNCHANGED vars
  BY <1>1 DEF vars, queueVars, Inv, QueueTypeOK, Locked, Fifo!fifoVars
<1>2. ASSUME NEW t \in Threads, NEW c \in Calls, Call(t, c), UNCHANGED signalled
      PROVE  XPInv' /\ [Fifo!FifoNext]_(Fifo!fifoVars)
  BY <1>2, CallStep
<1>3. ASSUME NEW t \in Threads, Signalled(t)
      PROVE  XPInv' /\ UNCHANGED Fifo!fifoVars
  <2>1. QueueTypeOK'
    BY <1>3 DEF Inv, QueueTypeOK, Signalled, Goto, Labels
  <2>2. Locked'
    BY <1>3 DEF Inv, QueueTypeOK, Locked, Signalled, Goto
  <2> QED BY <1>3, <2>1, <2>2 DEF Inv, Signalled, Fifo!fifoVars
<1>4. ASSUME NEW t \in Threads, Wake(t)
      PROVE  XPInv' /\ UNCHANGED Fifo!fifoVars
  <2>1. QueueTypeOK'
    BY <1>4 DEF Inv, QueueTypeOK, Wake, Goto, Labels
  <2>2. Locked'
    BY <1>4 DEF Inv, QueueTypeOK, Locked, Wake, Goto
  <2>3. signalled' \subseteq Ops
    BY <1>4 DEF Wake, Other, Ops
  <2> QED BY <1>4, <2>1, <2>2, <2>3 DEF Inv, Wake, Fifo!fifoVars
<1>5. ASSUME NEW t \in Threads, Unlock(t)
      PROVE  XPInv' /\ UNCHANGED Fifo!fifoVars
  <2>1. QueueTypeOK'
    BY <1>5 DEF Inv, QueueTypeOK, Unlock, MustWait, At, Goto, Labels
  <2>2. Locked'
    BY <1>5, QueueAssumption DEF Inv, QueueTypeOK, Locked, Unlock, MustWait, At, Goto
  <2> QED BY <1>5, <2>1, <2>2 DEF Inv, Unlock, Fifo!fifoVars
<1>6. ASSUME NEW t \in Threads, Enter(t), UNCHANGED signalled
      PROVE  XPInv' /\ UNCHANGED Fifo!fifoVars
  BY <1>6, EnterStep
<1>7. ASSUME NEW t \in Threads,
             PushBack(t) \/ PopFront(t) \/ Leave(t), UNCHANGED signalled
      PROVE  XPInv' /\ Fifo!FifoNext
  BY <1>7, PushStep, PopStep, LeaveStep
<1> QED BY <1>1, <1>2, <1>3, <1>4, <1>5, <1>6, <1>7 DEF Next, Step

(* The invariant of the XP queue holds in every reachable state. *)
LEMMA XPInvHolds == Spec => []XPInv
<1>1. Init => XPInv
  BY InitInv DEF Init, XPInv
<1>2. XPInv /\ [Next]_vars => XPInv'
  BY XPNextStep
<1> QED BY <1>1, <1>2, PTL DEF Spec

(* The variables keep to their types, and the deque to its bound. *)
THEOREM XPTypeCorrect == Spec => []XPTypeOK
<1>1. XPInv => XPTypeOK
  BY DEF XPInv, Inv, XPTypeOK
<1> QED BY <1>1, XPInvHolds, PTL

(* The deque is used by one thread at a time. *)
THEOREM XPExclusion == Spec => []MutualExclusion
<1>1. XPInv => MutualExclusion
  BY LockedExcludes DEF XPInv, Inv
<1> QED BY <1>1, XPInvHolds, PTL

(* Every call that returns took effect atomically, in FIFO order. *)
THEOREM XPImplementsFifo == Spec => Linearizable
<1>1. Init => Fifo!FifoInit
  BY InitInv DEF Init
<1>2. XPInv /\ [Next]_vars => [Fifo!FifoNext]_(Fifo!fifoVars)
  BY XPNextStep
<1> QED BY <1>1, <1>2, XPInvHolds, PTL DEF Spec, Linearizable, Fifo!FifoSpec

(* The side that can go on keeps somebody awake.  A thread goes to sleep     *)
(* only where there is no room, which leaves the other side all of it; one  *)
(* that succeeds makes room for the other side and is about to set its      *)
(* event; one that takes an event is itself on its way.                     *)
LEMMA AwakeStep ==
  ASSUME XPInv, OneSideAwake, [Next]_vars
  PROVE  OneSideAwake'
<1> SUFFICES ASSUME max_size_ > 0
             PROVE  \E op \in Ops : Awake(op)'
  BY DEF OneSideAwake, Awake
<1> USE DEF XPInv, Inv
<1>0. PICK op \in Ops : Awake(op)
  BY DEF OneSideAwake, Awake
<1>1. CASE UNCHANGED vars
  BY <1>0, <1>1 DEF vars, queueVars, Awake, Room, Coming, At
<1>2. ASSUME NEW t \in Threads, NEW c \in Calls, Call(t, c), UNCHANGED signalled
      PROVE  Awake(op)'
  BY <1>0, <1>2 DEF Awake, Room, Coming, At, Call, Goto, QueueTypeOK
<1>3. ASSUME NEW t \in Threads, Signalled(t)
      PROVE  Awake(op)'
  BY <1>0, <1>3, InsideCall DEF Awake, Room, Coming, At, Signalled, Goto, QueueTypeOK
<1>4. ASSUME NEW t \in Threads, Wake(t)
      PROVE  Awake(op)'
  BY <1>0, <1>4 DEF Awake, Room, Coming, At, Wake, Goto, QueueTypeOK, Ops, Other
<1>5. ASSUME NEW t \in Threads, Unlock(t)
      PROVE  Awake(op)'
  BY <1>0, <1>5 DEF Awake, Room, Coming, At, Unlock, MustWait, Goto, QueueTypeOK, Ops, Other
<1>6. ASSUME NEW t \in Threads, Enter(t), UNCHANGED signalled
      PROVE  Awake(op)'
  BY <1>0, <1>6 DEF Awake, Room, Coming, At, Enter, Goto, QueueTypeOK
<1>7. ASSUME NEW t \in Threads, PushBack(t) \/ PopFront(t), UNCHANGED signalled
      PROVE  Awake(Other(call[t].op))'
  BY <1>7, PushStep, PopStep, QueueAssumption
     DEF Awake, Room, Coming, At, PushBack, PopFront, Succeed, Goto, QueueTypeOK, Ops, Other
<1>8. ASSUME NEW t \in Threads, Leave(t), UNCHANGED signalled
      PROVE  Awake(op)'
  BY <1>0, <1>8 DEF Awake, Room, Coming, At, Leave, Return, Goto, QueueTypeOK
<1> QED BY <1>1, <1>2, <1>3, <1>4, <1>5, <1>6, <1>7, <1>8 DEF Next, Step, Other, Ops

(* Producers and consumers never sleep all together, for any number of      *)
(* threads and any queue that can hold an element.                          *)
THEOREM XPNeverAllAsleep == Spec => []OneSideAwake
<1>1. Init => OneSideAwake
  BY InitInv, QueueAssumption
     DEF Init, OneSideAwake, QueueInit, Room, At, Ops, Filling
<1> QED BY <1>1, AwakeStep, XPInvHolds, PTL DEF Spec

(* Two threads wait for the same operation only while neither can go on:    *)
(* the second one found no room, and there is no third to make some.        *)
PairInv ==
  Pair =>
    /\ PairIsWoken
    /\ \A op \in Ops : \A t, u \in At({"waiting"}, op) : t = u \/ Room(op) = 0

LEMMA PairStep ==
  ASSUME XPInv, Pair, PairInv, [Next]_vars
  PROVE  PairInv'
<1> USE DEF XPInv, Inv
<1> USE DEF Pair
<1> DEFINE Woken(op) == At({"waiting"}, op) # {} /\ Room(op) > 0 =>
                          op \in signalled \/ At({"wake"}, Other(op)) # {}
           Alone(op) == \A t, u \in At({"waiting"}, op) : t = u \/ Room(op) = 0
<1>0. ASSUME NEW op \in Ops PROVE Woken(op) /\ Alone(op)
  BY <1>0 DEF PairInv, PairIsWoken
<1> SUFFICES ASSUME NEW op \in Ops
             PROVE  Woken(op)' /\ Alone(op)'
  BY DEF PairInv, PairIsWoken
<1>1. CASE UNCHANGED vars
  BY <1>0, <1>1 DEF vars, queueVars, Room, At
<1>2. ASSUME NEW t \in Threads, NEW c \in Calls, Call(t, c), UNCHANGED signalled
      PROVE  Woken(op)' /\ Alone(op)'
  BY <1>0, <1>2 DEF Room, At, Call, Goto, QueueTypeOK
<1>3. ASSUME NEW t \in Threads, Signalled(t)
      PROVE  Woken(op)' /\ Alone(op)'
  BY <1>0, <1>3, InsideCall DEF Room, At, Signalled, Goto, QueueTypeOK
<1>4. ASSUME NEW t \in Threads, Wake(t)
      PROVE  Woken(op)' /\ Alone(op)'
  BY <1>0, <1>4 DEF Room, At, Wake, Goto, QueueTypeOK, Ops, Other
<1>5. ASSUME NEW t \in Threads, Unlock(t)
      PROVE  Woken(op)' /\ Alone(op)'
  BY <1>0, <1>5 DEF Room, At, Unlock, MustWait, Goto, QueueTypeOK, Ops, Other
<1>6. ASSUME NEW t \in Threads, Enter(t), UNCHANGED signalled
      PROVE  Woken(op)' /\ Alone(op)'
  BY <1>0, <1>6 DEF Room, At, Enter, Goto, QueueTypeOK
<1>7. ASSUME NEW t \in Threads, PushBack(t) \/ PopFront(t), UNCHANGED signalled
      PROVE  Woken(op)' /\ Alone(op)'
  BY <1>0, <1>7, PushStep, PopStep, QueueAssumption
     DEF Room, At, PushBack, PopFront, Succeed, Goto, QueueTypeOK, Ops, Other
<1>8. ASSUME NEW t \in Threads, Leave(t), UNCHANGED signalled
      PROVE  Woken(op)' /\ Alone(op)'
  BY <1>0, <1>8 DEF Room, At, Leave, Return, Goto, QueueTypeOK
<1> QED BY <1>1, <1>2, <1>3, <1>4, <1>5, <1>6, <1>7, <1>8 DEF Next, Step

(* With two threads no wake-up is lost, although an event is only one bit.  *)
THEOREM XPPairWoken == Spec => []PairIsWoken
<1>1. Init => PairInv
  BY DEF Init, PairInv, PairIsWoken, QueueInit, At
<1>2. XPInv /\ PairInv /\ [Next]_vars => PairInv'
  BY PairStep DEF PairInv, Pair
<1>3. PairInv => PairIsWoken
  BY DEF PairInv, PairIsWoken, Pair
<1> QED BY <1>1, <1>2, <1>3, XPInvHolds, PTL DEF Spec

=============================================================================
