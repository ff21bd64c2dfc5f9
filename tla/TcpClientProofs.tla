-------------------------- MODULE TcpClientProofs --------------------------
(***************************************************************************)
(* Proofs about TcpClient, for any number of workers, contexts and handles: *)
(* ClientInvariant is inductive.  disconnect takes the client's context for *)
(* the listener's, and so the connection of a client is never released; the *)
(* context is used by one worker at a time, and what it sends arrives.      *)
(***************************************************************************)
EXTENDS TcpClient, TLAPS

-----------------------------------------------------------------------------
(* What a worker with a packet knows. *)
LEMMA WorkerHasPacket ==
  ASSUME ClientInvariant, NEW w \in Workers, pc[w] \notin {"none", "idle", "exited"}
  PROVE  /\ the_socket_context_ # None /\ the_socket_context_ \in Contexts
         /\ job[w].key = the_socket_context_ /\ live = {the_socket_context_}
         /\ LastOperation[the_socket_context_] = "IOReceive"
         /\ receiving = {} /\ port = {}
         /\ \A v \in Workers \ {w} :
              /\ pc[v] \in {"none", "idle", "exited"}
              /\ job[v] = NoPacket /\ cur[v] = None
         /\ main \notin {"init", "handler", "threads", "associate", "receive"}
<1> USE DEF ClientInvariant
<1>1. /\ the_socket_context_ # None /\ job[w].key = the_socket_context_
      /\ live = {the_socket_context_}
      /\ LastOperation[the_socket_context_] = "IOReceive"
  BY DEF ThreadsReceive, OneContext
<1>2. the_socket_context_ \in Contexts
  BY <1>1 DEF ClientTypeOK, HandlerTypeOK
<1>3. the_socket_context_ \in Holds(w)
  BY <1>1 DEF Holds
<1>4. the_socket_context_ \notin receiving \cup Queued
  BY <1>3 DEF SingleOwner, InFlight
<1>5. receiving = {} /\ port = {}
  BY <1>1, <1>4 DEF OneContext, Queued
<1>6. ASSUME NEW v \in Workers \ {w}
      PROVE  pc[v] \in {"none", "idle", "exited"} /\ job[v] = NoPacket /\ cur[v] = None
  <2>1. the_socket_context_ \notin Holds(v)
    BY <1>3 DEF SingleOwner
  <2>2. job[v].key # the_socket_context_
    BY <1>1, <2>1 DEF Holds
  <2> QED BY <2>2 DEF ThreadsReceive
<1>7. main \notin {"init", "handler", "threads", "associate", "receive"}
  BY <1>1 DEF OneContext, NoPacket
<1> QED BY <1>1, <1>2, <1>5, <1>6, <1>7

(* A context that stays where it is has one owner before and after. *)
LEMMA NothingMoves ==
  ASSUME SingleOwner, UNCHANGED <<accepting, receiving, port, job>>,
         \A w \in Workers : cur'[w] \in {cur[w], job[w].key, None}
  PROVE  SingleOwner'
<1>1. \A w \in Workers : Holds(w)' \subseteq Holds(w)
  BY DEF Holds
<1>2. InFlight' = InFlight /\ Queued' = Queued
  BY DEF InFlight, Queued
<1> QED BY <1>1, <1>2 DEF SingleOwner

-----------------------------------------------------------------------------
(* The steps of Start. *)
LEMMA StartSteps ==
  ASSUME ClientInvariant,
         \/ InitConnect \/ ConnectFails \/ StartHandler
         \/ \E w \in Workers : StartWorker(w)
         \/ HandlerStarted \/ HandlerFails
         \/ InitReceive \/ InitReceiveFails
         \/ PostFirstReceive \/ FirstReceiveFails
  PROVE  ClientInvariant'
<1> USE HandlerAssumption, ClientAssumption
    DEF ClientInvariant, MainGoto, engineVars, registryVars, contextVars, connVars,
        acceptVars, threadVars, socketVars, ioVars, handlerVars, NoStraySend

<1>InitConnect. CASE InitConnect
  <2> USE <1>InitConnect DEF InitConnect
  <2>1. ClientTypeOK'
    BY DEF ClientTypeOK, HandlerTypeOK, MainLabels
  <2>2. SingleOwner'
    BY NothingMoves
  <2>3. OneContext'
    BY DEF OneContext, Queued
  <2>4. ThreadsReceive'
    BY DEF ThreadsReceive
  <2>5. StaysConnected'
    BY DEF StaysConnected, ClientTypeOK, HandlerTypeOK, OneContext
  <2> QED BY <2>1, <2>2, <2>3, <2>4, <2>5

<1>ConnectFails. CASE ConnectFails
  <2> USE <1>ConnectFails DEF ConnectFails
  <2>1. ClientTypeOK'
    BY DEF ClientTypeOK, HandlerTypeOK, MainLabels
  <2>2. SingleOwner'
    BY NothingMoves
  <2>3. OneContext'
    BY DEF OneContext, Queued
  <2>4. ThreadsReceive'
    BY DEF ThreadsReceive
  <2>5. StaysConnected'
    BY DEF StaysConnected, OneContext
  <2> QED BY <2>1, <2>2, <2>3, <2>4, <2>5

<1>StartHandler. CASE StartHandler
  <2> USE <1>StartHandler DEF StartHandler, InitHandler
  <2>1. ClientTypeOK'
    BY DEF ClientTypeOK, HandlerTypeOK, MainLabels
  <2>2. SingleOwner'
    BY NothingMoves
  <2>3. OneContext' /\ ThreadsReceive' /\ StaysConnected'
    BY DEF OneContext, Queued, ThreadsReceive, StaysConnected
  <2> QED BY <2>1, <2>2, <2>3

<1>StartWorker. ASSUME NEW w \in Workers, StartWorker(w)
                PROVE  ClientInvariant'
  <2> USE <1>StartWorker DEF StartWorker, CreateWorker, Goto
  <2>1. ClientTypeOK'
    BY DEF ClientTypeOK, HandlerTypeOK, MainLabels, ClientLabels, Labels
  <2>2. SingleOwner'
    BY NothingMoves
  <2>3. OneContext' /\ StaysConnected'
    BY DEF OneContext, Queued, StaysConnected
  <2>4. ThreadsReceive'
    BY DEF ThreadsReceive, ClientTypeOK, HandlerTypeOK
  <2> QED BY <2>1, <2>2, <2>3, <2>4

<1>HandlerStarted. CASE HandlerStarted
  <2> USE <1>HandlerStarted DEF HandlerStarted, SetRunning
  <2>1. ClientTypeOK'
    BY DEF ClientTypeOK, HandlerTypeOK, MainLabels
  <2>2. SingleOwner'
    BY NothingMoves
  <2>3. OneContext' /\ ThreadsReceive' /\ StaysConnected'
    BY DEF OneContext, Queued, ThreadsReceive, StaysConnected
  <2> QED BY <2>1, <2>2, <2>3

<1>HandlerFails. CASE HandlerFails
  <2> USE <1>HandlerFails DEF HandlerFails, InitHandler, CreateWorkerFails
  <2>1. ClientTypeOK'
    BY DEF ClientTypeOK, HandlerTypeOK, MainLabels
  <2>2. SingleOwner'
    BY NothingMoves
  <2>3. OneContext' /\ ThreadsReceive' /\ StaysConnected'
    BY DEF OneContext, Queued, ThreadsReceive, StaysConnected
  <2> QED BY <2>1, <2>2, <2>3

<1>InitReceive. CASE InitReceive
  <2> USE <1>InitReceive DEF InitReceive, NewContext
  <2>1. PICK n \in Contexts :
          /\ NewContext(n, socket_[connection_], "IOReceive")
          /\ the_socket_context_' = n
          /\ socket_contexts_' = socket_contexts_ \cup {n}
    OBVIOUS
  <2>2. ClientTypeOK'
    BY <2>1 DEF ClientTypeOK, HandlerTypeOK, MainLabels, Operations
  <2>3. SingleOwner'
    BY NothingMoves
  <2>4. the_socket_context_ = None /\ live = {} /\ n # None
    BY DEF OneContext
  <2>5. receiving = {} /\ port = {} /\ \A w \in Workers : job[w] = NoPacket
    BY <2>4 DEF OneContext, Queued, ThreadsReceive
  <2>6. OneContext'
    BY <2>1, <2>4, <2>5 DEF OneContext, Queued, ClientTypeOK, HandlerTypeOK
  <2>7. \A w \in Workers : pc[w] \in {"none", "idle", "exited"}
    BY <2>4 DEF ThreadsReceive
  <2>8. ThreadsReceive'
    BY <2>7 DEF ThreadsReceive
  <2>9. StaysConnected'
    BY <2>1, <2>4 DEF StaysConnected, ClientTypeOK, HandlerTypeOK
  <2> QED BY <2>2, <2>3, <2>6, <2>8, <2>9

<1>InitReceiveFails. CASE InitReceiveFails
  <2> USE <1>InitReceiveFails DEF InitReceiveFails
  <2>1. the_socket_context_ = None
    BY DEF OneContext
  <2>2. ClientTypeOK'
    BY DEF ClientTypeOK, HandlerTypeOK, MainLabels
  <2>3. SingleOwner'
    BY NothingMoves
  <2>4. OneContext' /\ ThreadsReceive' /\ StaysConnected'
    BY <2>1 DEF OneContext, Queued, ThreadsReceive, StaysConnected
  <2> QED BY <2>2, <2>3, <2>4

<1>PostFirstReceive. CASE PostFirstReceive
  <2> USE <1>PostFirstReceive DEF PostFirstReceive
  <2>1. /\ the_socket_context_ # None /\ receiving = {} /\ port = {}
        /\ \A w \in Workers : job[w] = NoPacket
        /\ live = {the_socket_context_} /\ accepting = {}
    BY DEF OneContext
  <2>2. ClientTypeOK'
    BY <2>1 DEF ClientTypeOK, HandlerTypeOK, MainLabels
  <2>3. \A w \in Workers : cur[w] = None
    BY <2>1 DEF ThreadsReceive, NoPacket
  <2>4. SingleOwner'
    BY <2>1, <2>3 DEF SingleOwner, Holds, Queued, InFlight, NoPacket
  <2>5. OneContext' /\ ThreadsReceive' /\ StaysConnected'
    BY <2>1 DEF OneContext, Queued, ThreadsReceive, StaysConnected
  <2> QED BY <2>2, <2>4, <2>5

<1>FirstReceiveFails. CASE FirstReceiveFails
  <2> USE <1>FirstReceiveFails DEF FirstReceiveFails
  <2>1. ClientTypeOK'
    BY DEF ClientTypeOK, HandlerTypeOK, MainLabels
  <2>2. SingleOwner'
    BY NothingMoves
  <2>3. OneContext' /\ ThreadsReceive' /\ StaysConnected'
    BY DEF OneContext, Queued, ThreadsReceive, StaysConnected
  <2> QED BY <2>1, <2>2, <2>3

<1> QED BY <1>InitConnect, <1>ConnectFails, <1>StartHandler, <1>StartWorker,
           <1>HandlerStarted, <1>HandlerFails, <1>InitReceive,
           <1>InitReceiveFails, <1>PostFirstReceive, <1>FirstReceiveFails

(* The steps of the owner after Start. *)
LEMMA OwnerSteps ==
  ASSUME ClientInvariant,
         ClientSend \/ Stop \/ Destroy \/ DestroyHalfStarted \/ UseDestroyed
  PROVE  ClientInvariant'
<1> USE ClientAssumption
    DEF ClientInvariant, MainGoto, engineVars, registryVars, contextVars, connVars,
        acceptVars, threadVars, socketVars, ioVars, handlerVars
<1>1. strayed' = {}
  BY DEF ClientSend, Send, ReachesPeer, Stop, Destroy, DestroyHalfStarted,
         UseDestroyed, NoStraySend, StaysConnected
<1>2. /\ UNCHANGED <<engineVars, locker_, registryVars, contextVars, socket_,
                     connected_, notified, threadVars, socketVars, ioVars>>
      /\ undefined' \in {undefined, TRUE}
      /\ main' \in {main, "stopped", "destroyed"}
  BY DEF ClientSend, Stop, Destroy, DestroyHalfStarted, UseDestroyed
<1>3. ClientTypeOK'
  <2>1. main' \in MainLabels
    BY <1>2 DEF ClientTypeOK, MainLabels
  <2>2. undefined' \in BOOLEAN
    BY <1>2 DEF ClientTypeOK, HandlerTypeOK
  <2>3. HandlerTypeOK'
    BY <1>1, <1>2, <2>2 DEF ClientTypeOK, HandlerTypeOK
  <2>4. pc' = pc
    BY <1>2
  <2> QED BY <2>1, <2>3, <2>4 DEF ClientTypeOK
<1>4. SingleOwner'
  BY <1>2, NothingMoves
<1>5. OneContext' /\ ThreadsReceive' /\ StaysConnected'
  BY <1>2 DEF OneContext, Queued, ThreadsReceive, StaysConnected
<1> QED BY <1>1, <1>3, <1>4, <1>5 DEF NoStraySend

-----------------------------------------------------------------------------
(* A worker takes the packet: the context leaves the port for the worker. *)
LEMMA DequeueSteps ==
  ASSUME ClientInvariant, UNCHANGED main, NEW w \in Workers, Dequeue(w)
  PROVE  ClientInvariant'
<1> USE DEF ClientInvariant, engineVars, registryVars, contextVars, connVars,
            acceptVars, threadVars, socketVars, ioVars, NoStraySend
<1>1. ~GetExitPacket(w)
  BY DEF GetExitPacket, OneContext
<1>2. PICK p \in port : GetPacket(w, p)
  BY <1>1 DEF Dequeue
<1> USE <1>2 DEF GetPacket, Goto
<1>3. /\ p \in Packet /\ p.key = the_socket_context_ /\ p.key # None
      /\ p.key \in Queued
  <2>1. p \in Packet
    BY DEF ClientTypeOK, HandlerTypeOK
  <2>2. p.key \in Queued
    BY DEF Queued
  <2>3. p.key \in live
    BY <2>2 DEF OneContext
  <2> QED BY <2>1, <2>2, <2>3 DEF OneContext
<1>4. ClientTypeOK'
  BY <1>3 DEF ClientTypeOK, HandlerTypeOK, ClientLabels, Labels
<1>5. SingleOwner'
  <2>1. /\ Queued' \subseteq Queued /\ p.key \notin Queued'
        /\ p.key \notin accepting \cup receiving
    BY <1>3 DEF SingleOwner, Queued
  <2>2. Holds(w)' = {p.key}
    BY <1>3 DEF Holds, ThreadsReceive, ClientTypeOK, HandlerTypeOK
  <2>3. \A v \in Workers \ {w} : Holds(v)' = Holds(v) /\ p.key \notin Holds(v)
    BY <1>3 DEF Holds, SingleOwner, InFlight, ClientTypeOK, HandlerTypeOK
  <2> QED BY <2>1, <2>2, <2>3 DEF SingleOwner, InFlight
<1>6. OneContext'
  BY <1>3 DEF OneContext, Queued
<1>7. ThreadsReceive'
  BY <1>3 DEF ThreadsReceive, ClientTypeOK, HandlerTypeOK
<1>8. StaysConnected'
  BY DEF StaysConnected
<1> QED BY <1>4, <1>5, <1>6, <1>7, <1>8

(* While a worker has the packet, nothing else is under way. *)
LEMMA WorkSteps ==
  ASSUME ClientInvariant, UNCHANGED main, NEW w \in Workers,
         \/ StopWorker(w) \/ DispatchReceive(w) \/ HandleReceive(w)
         \/ CallbackSend(w) \/ CallbackReturns(w)
         \/ PostReceive(w) \/ PostReceiveFails(w)
         \/ DispatchDisconnect(w) \/ RefuseDisconnect(w)
  PROVE  ClientInvariant'
<1> USE HandlerAssumption, ClientAssumption
    DEF ClientInvariant, Goto, engineVars, registryVars, contextVars, connVars,
        acceptVars, threadVars, socketVars, ioVars, NoStraySend
<1>w. pc[w] \notin {"none", "idle", "exited"}
  BY DEF StopWorker, DispatchReceive, HandleReceive, CallbackSend, CallbackReturns,
         PostReceive, PostReceiveFails, DispatchDisconnect, RefuseDisconnect, HasWork
<1>h. /\ the_socket_context_ # None /\ the_socket_context_ \in Contexts
      /\ job[w].key = the_socket_context_ /\ live = {the_socket_context_}
      /\ receiving = {} /\ port = {}
      /\ \A v \in Workers \ {w} :
           /\ pc[v] \in {"none", "idle", "exited"}
           /\ job[v] = NoPacket /\ cur[v] = None
      /\ main \notin {"init", "handler", "threads", "associate", "receive"}
  BY <1>w, WorkerHasPacket
<1>j. job[w] \in Packet
  BY <1>h DEF ClientTypeOK, HandlerTypeOK, ExitPacket, NoPacket
<1>c. pc[w] \in {"lookup", "callback", "post", "lock"} => cur[w] = job[w].key
  BY <1>h DEF ThreadsReceive

<1>StopWorker. CASE StopWorker(w)
  <2> USE <1>StopWorker DEF StopWorker, LeaveThread
  <2>1. ClientTypeOK'
    BY DEF ClientTypeOK, HandlerTypeOK, ClientLabels, Labels
  <2>2. SingleOwner'
    <3>1. \A v \in Workers : Holds(v)' \subseteq Holds(v)
      BY DEF Holds, ClientTypeOK, HandlerTypeOK, NoPacket
    <3> QED BY <3>1 DEF SingleOwner, InFlight, Queued
  <2>3. OneContext' /\ StaysConnected'
    BY <1>h DEF OneContext, Queued, StaysConnected
  <2>4. ThreadsReceive'
    BY DEF ThreadsReceive, ClientTypeOK, HandlerTypeOK
  <2> QED BY <2>1, <2>2, <2>3, <2>4

<1>Dispatch. CASE DispatchReceive(w) \/ DispatchDisconnect(w)
  <2> USE <1>Dispatch DEF DispatchReceive, DispatchDisconnect, Dispatch
  <2>1. ClientTypeOK'
    BY <1>h DEF ClientTypeOK, HandlerTypeOK, ClientLabels, Labels
  <2>2. SingleOwner'
    <3>1. \A v \in Workers : cur'[v] \in {cur[v], job[v].key, None}
      BY DEF ClientTypeOK, HandlerTypeOK
    <3> QED BY <3>1, NothingMoves
  <2>3. OneContext' /\ StaysConnected'
    BY DEF OneContext, Queued, StaysConnected
  <2>4. ThreadsReceive'
    BY <1>w, <1>h DEF ThreadsReceive, ClientTypeOK, HandlerTypeOK, HasWork
  <2> QED BY <2>1, <2>2, <2>3, <2>4

<1>HandleReceive. CASE HandleReceive(w)
  <2> USE <1>HandleReceive DEF HandleReceive
  <2>1. conn' = [conn EXCEPT ![w] = connection_]
    OBVIOUS
  <2>2. ClientTypeOK'
    BY <2>1 DEF ClientTypeOK, HandlerTypeOK, ClientLabels, Labels
  <2>3. SingleOwner'
    BY NothingMoves
  <2>4. OneContext' /\ StaysConnected'
    BY DEF OneContext, Queued, StaysConnected
  <2>5. ThreadsReceive'
    BY <2>1, <1>w DEF ThreadsReceive, ClientTypeOK, HandlerTypeOK
  <2> QED BY <2>2, <2>3, <2>4, <2>5

<1>CallbackSend. CASE CallbackSend(w)
  <2> USE <1>CallbackSend DEF CallbackSend
  <2>1. conn[w] = connection_
    BY DEF ThreadsReceive
  <2>2. strayed' = {}
    BY <2>1 DEF Send, ReachesPeer, StaysConnected
  <2>3. ClientTypeOK'
    BY <2>2 DEF ClientTypeOK, HandlerTypeOK
  <2>4. SingleOwner'
    BY NothingMoves
  <2>5. OneContext' /\ ThreadsReceive' /\ StaysConnected'
    BY DEF OneContext, Queued, ThreadsReceive, StaysConnected
  <2> QED BY <2>2, <2>3, <2>4, <2>5

<1>CallbackReturns. CASE CallbackReturns(w)
  <2> USE <1>CallbackReturns DEF CallbackReturns
  <2>1. ClientTypeOK'
    BY DEF ClientTypeOK, HandlerTypeOK, ClientLabels, Labels
  <2>2. SingleOwner'
    BY NothingMoves
  <2>3. OneContext' /\ StaysConnected'
    BY DEF OneContext, Queued, StaysConnected
  <2>4. ThreadsReceive'
    BY <1>w DEF ThreadsReceive, ClientTypeOK, HandlerTypeOK
  <2> QED BY <2>1, <2>2, <2>3, <2>4

<1>PostReceive. CASE PostReceive(w)
  <2> USE <1>PostReceive DEF PostReceive
  <2>1. EndJob(w) /\ cur[w] = the_socket_context_
    BY <1>c, <1>h DEF Return
  <2>2. ClientTypeOK'
    BY <2>1, <1>h DEF ClientTypeOK, HandlerTypeOK, ClientLabels, Labels,
                      Operations, EndJob
  <2>3. \A v \in Workers : job'[v] = NoPacket /\ cur'[v] = None
    BY <2>1, <1>h DEF EndJob, ClientTypeOK, HandlerTypeOK
  <2>4. SingleOwner'
    <3>1. \A v \in Workers : Holds(v)' = {}
      BY <2>3 DEF Holds, NoPacket
    <3> QED BY <3>1, <1>h DEF SingleOwner, OneContext, Queued
  <2>5. OneContext' /\ StaysConnected'
    BY <2>1, <1>h DEF OneContext, Queued, StaysConnected, ClientTypeOK, HandlerTypeOK
  <2>6. ThreadsReceive'
    BY <2>1, <1>h DEF ThreadsReceive, EndJob, ClientTypeOK, HandlerTypeOK
  <2> QED BY <2>2, <2>4, <2>5, <2>6

<1>PostReceiveFails. CASE PostReceiveFails(w)
  <2> USE <1>PostReceiveFails DEF PostReceiveFails
  <2>1. ClientTypeOK'
    BY <1>h, <1>c DEF ClientTypeOK, HandlerTypeOK, ClientLabels, Labels, Operations
  <2>2. SingleOwner'
    BY NothingMoves
  <2>3. OneContext' /\ StaysConnected'
    BY <1>h, <1>c DEF OneContext, Queued, StaysConnected, ClientTypeOK, HandlerTypeOK
  <2>4. ThreadsReceive'
    BY <1>w DEF ThreadsReceive, ClientTypeOK, HandlerTypeOK
  <2> QED BY <2>1, <2>2, <2>3, <2>4

<1>RefuseDisconnect. CASE RefuseDisconnect(w)
  <2> USE <1>RefuseDisconnect DEF RefuseDisconnect
  <2>1. EndJob(w)
    BY <1>c, <1>h DEF Return
  <2>2. ClientTypeOK'
    BY <2>1 DEF ClientTypeOK, HandlerTypeOK, ClientLabels, Labels, EndJob
  <2>3. \A v \in Workers : job'[v] = NoPacket /\ cur'[v] = None
    BY <2>1, <1>h DEF EndJob, ClientTypeOK, HandlerTypeOK
  <2>4. SingleOwner'
    <3>1. \A v \in Workers : Holds(v)' = {}
      BY <2>3 DEF Holds, NoPacket
    <3> QED BY <3>1, <1>h DEF SingleOwner, OneContext, Queued
  <2>5. OneContext' /\ StaysConnected'
    BY <1>h DEF OneContext, Queued, StaysConnected
  <2>6. ThreadsReceive'
    BY <2>1, <1>h DEF ThreadsReceive, EndJob, ClientTypeOK, HandlerTypeOK
  <2> QED BY <2>2, <2>4, <2>5, <2>6

<1> QED BY <1>StopWorker, <1>Dispatch, <1>HandleReceive, <1>CallbackSend,
           <1>CallbackReturns, <1>PostReceive, <1>PostReceiveFails,
           <1>RefuseDisconnect

(* The rest of the engine is for servers: no accept, and no way into the    *)
(* body of disconnect.                                                      *)
LEMMA ServerStepsDisabled ==
  ASSUME ClientInvariant, NEW w \in Workers
  PROVE  /\ ~AcceptStep(w)
         /\ ~EnterDisconnect(w) /\ ~NotifyDisconnected(w) /\ ~EraseConnection(w)
         /\ ~CloseSocket(w) /\ ~FreeContext(w)
<1> USE DEF ClientInvariant
<1>1. pc[w] \in ClientLabels
  BY DEF ClientTypeOK
<1>2. ~DispatchAccept(w)
  <2> SUFFICES ASSUME DispatchAccept(w) PROVE FALSE
    OBVIOUS
  <2>1. pc[w] = "got" /\ LastOperation[job[w].key] = "IOAccept"
    BY DEF DispatchAccept, HasWork
  <2> QED BY <2>1, WorkerHasPacket
<1>3. ~EnterDisconnect(w)
  <2> SUFFICES ASSUME EnterDisconnect(w) PROVE FALSE
    OBVIOUS
  <2> QED BY DEF EnterDisconnect, ThreadsReceive
<1>4. ~AcceptStep(w)
  BY <1>1, <1>2 DEF AcceptStep, ClientLabels, AcceptFails, HandleAccept,
     AssociateFails, CanHandleAccept, PushContext, RegisterConnection, Rearm, RearmFails
<1> QED BY <1>1, <1>3, <1>4 DEF ClientLabels, NotifyDisconnected, EraseConnection,
        CloseSocket, FreeContext

(* The system moves the context from the outstanding WSARecv to the port. *)
LEMMA SystemSteps ==
  ASSUME ClientInvariant, UNCHANGED main, SystemStep
  PROVE  ClientInvariant'
<1> USE DEF ClientInvariant, engineVars, registryVars, contextVars, connVars,
            acceptVars, threadVars, socketVars, ioVars, NoStraySend
<1>1. ASSUME NEW c \in receiving, NEW r \in Results, CompleteReceive(c, r)
      PROVE  ClientInvariant'
  <2> USE <1>1 DEF CompleteReceive
  <2> DEFINE p == [key |-> c, result |-> r]
  <2>1. /\ c \in Contexts /\ c = the_socket_context_ /\ c # None /\ accepting = {}
        /\ main # "receive"
    BY DEF OneContext, ClientTypeOK, HandlerTypeOK
  <2>2. p \in Packet /\ p.key = c
    BY <2>1 DEF Packet
  <2>3. ClientTypeOK'
    BY <2>2 DEF ClientTypeOK, HandlerTypeOK
  <2>4. Queued' = Queued \cup {c}
    BY <2>2 DEF Queued
  <2>5. c \notin Queued /\ \A q \in port : q.key # c
    BY DEF SingleOwner, Queued
  <2>6. SingleOwner'
    <3>1. InFlight' = InFlight
      BY <2>4 DEF InFlight
    <3>2. \A v \in Workers : Holds(v)' = Holds(v)
      BY DEF Holds
    <3>3. Queued' \cap (accepting' \cup receiving') = {}
      BY <2>1, <2>4 DEF SingleOwner
    <3>4. \A q, s \in port' : q.key = s.key => q = s
      BY <2>2, <2>5 DEF SingleOwner
    <3> QED BY <2>1, <3>1, <3>2, <3>3, <3>4 DEF SingleOwner
  <2>7. OneContext'
    BY <2>1, <2>4 DEF OneContext
  <2>8. ThreadsReceive' /\ StaysConnected'
    BY DEF ThreadsReceive, StaysConnected
  <2> QED BY <2>3, <2>6, <2>7, <2>8
<1>2. CASE DataRace
  <2> USE <1>2 DEF DataRace
  <2>1. ClientTypeOK'
    BY DEF ClientTypeOK, HandlerTypeOK
  <2>2. SingleOwner'
    BY NothingMoves
  <2>3. OneContext' /\ ThreadsReceive' /\ StaysConnected'
    BY DEF OneContext, Queued, ThreadsReceive, StaysConnected
  <2> QED BY <2>1, <2>2, <2>3
<1> QED BY <1>1, <1>2 DEF SystemStep, OneContext

-----------------------------------------------------------------------------
LEMMA ClientInit == Init => ClientInvariant
<1> SUFFICES ASSUME Init PROVE ClientInvariant
  OBVIOUS
<1> USE HandlerAssumption, ClientAssumption DEF Init, HandlerInit
<1>1. ClientTypeOK
  BY DEF ClientTypeOK, HandlerTypeOK, MainLabels, ClientLabels, Labels
<1>2. SingleOwner
  BY DEF SingleOwner, Queued, InFlight, Holds, NoPacket
<1>3. OneContext /\ ThreadsReceive /\ StaysConnected
  BY DEF OneContext, Queued, ThreadsReceive, StaysConnected
<1> QED BY <1>1, <1>2, <1>3 DEF ClientInvariant, NoStraySend

LEMMA ClientStep == ClientInvariant /\ [Next]_vars => ClientInvariant'
<1> SUFFICES ASSUME ClientInvariant, [Next]_vars
             PROVE  ClientInvariant'
  OBVIOUS
<1>1. CASE MainStep
  BY <1>1, StartSteps, OwnerSteps DEF MainStep
<1>2. CASE EngineStep
  <2>1. ASSUME NEW w \in Workers, WorkerStep(w) \/ CallbackSend(w)
        PROVE  ClientInvariant'
    BY <1>2, <2>1, DequeueSteps, WorkSteps, ServerStepsDisabled
    DEF EngineStep, WorkerStep, ReceiveStep, DisconnectStep
  <2> QED BY <1>2, <2>1, SystemSteps DEF EngineStep
<1>3. CASE UNCHANGED vars
  <2> USE <1>3 DEF ClientInvariant, vars, handlerVars, engineVars, registryVars,
      contextVars, connVars, acceptVars, threadVars, socketVars, ioVars
  <2>1. ClientTypeOK' /\ NoStraySend'
    BY DEF ClientTypeOK, HandlerTypeOK, NoStraySend
  <2>2. SingleOwner'
    BY NothingMoves
  <2>3. OneContext' /\ ThreadsReceive' /\ StaysConnected'
    BY DEF OneContext, Queued, ThreadsReceive, StaysConnected
  <2> QED BY <2>1, <2>2, <2>3
<1> QED BY <1>1, <1>2, <1>3 DEF Next

(* The client's inductive invariant, for every value of the constants. *)
THEOREM ClientInvariantHolds == Spec => []ClientInvariant
<1> QED BY ClientInit, ClientStep, PTL DEF Spec

(* The client's variables keep to their types, and no worker of a client    *)
(* reaches the code of accepts, or gets past the first test of disconnect.  *)
THEOREM ClientTypeCorrect == Spec => []ClientTypeOK
<1>1. ClientInvariant => ClientTypeOK
  BY DEF ClientInvariant
<1> QED BY <1>1, ClientInvariantHolds, PTL

(* The client's context is outstanding, queued, or with one worker. *)
THEOREM ClientOneOwner == Spec => []SingleOwner
<1>1. ClientInvariant => SingleOwner
  BY DEF ClientInvariant
<1> QED BY <1>1, ClientInvariantHolds, PTL

(* The client keeps its connection, whatever fails and whoever closes it. *)
THEOREM ConnectionStays == Spec => []ConnectionKept
<1>1. ClientInvariant => ConnectionKept
  BY HandlerAssumption DEF ClientInvariant, ConnectionKept, StaysConnected, OneContext
<1> QED BY <1>1, ClientInvariantHolds, PTL

(* Sends of the session thread and of the callback are made on the open     *)
(* handle of the connection to the server.                                  *)
THEOREM ClientSendReachesPeer == Spec => []NoStraySend
<1>1. ClientInvariant => NoStraySend
  BY DEF ClientInvariant
<1> QED BY <1>1, ClientInvariantHolds, PTL

-----------------------------------------------------------------------------
(* The callbacks of a client come in the order ConnectionEvents promises *)

(* At most one worker is in the client's onDataReceived. *)
LEMMA CallbackAlone ==
  ASSUME ClientInvariant
  PROVE  /\ \A w \in Workers : pc[w] = "callback" => InCallback = {connection_}
         /\ (\A w \in Workers : pc[w] # "callback") => InCallback = {}
         /\ \A w \in Workers : conn[w] = connection_ <=> pc[w] = "callback"
BY HandlerAssumption, ClientAssumption
   DEF ClientInvariant, ThreadsReceive, InCallback

(* A step that neither connects nor starts or ends a callback. *)
LEMMA SilentStep ==
  ASSUME UNCHANGED <<conn, connected_, notified>>
  PROVE  UNCHANGED Events!eventVars
BY DEF Events!eventVars, Stage, InCallback

(* init_connect is Connect. *)
LEMMA ConnectRefines ==
  ASSUME ClientInvariant, notified = {}, InitConnect
  PROVE  Events!EventsNext
<1> USE ClientAssumption DEF InitConnect, MainGoto, threadVars
<1>1. ~connected_[connection_]
  BY DEF ClientInvariant, StaysConnected
<1>2. Stage[connection_] = "away"
  BY <1>1 DEF Stage
<1>3. Stage' = [Stage EXCEPT ![connection_] = "open"]
  BY DEF Stage, ClientInvariant, ClientTypeOK, HandlerTypeOK
<1>4. InCallback' = InCallback
  BY DEF InCallback
<1>5. Events!Connect(connection_)
  BY <1>2, <1>3, <1>4 DEF Events!Connect
<1> QED BY <1>5 DEF Events!EventsNext

(* onDataReceived begins and ends, once for each packet. *)
LEMMA DataRefines ==
  ASSUME ClientInvariant, ClientInvariant', notified = {}, NEW w \in Workers,
         HandleReceive(w) \/ CallbackReturns(w)
  PROVE  Events!EventsNext
<1> USE ClientAssumption DEF ClientInvariant, ClientTypeOK, HandlerTypeOK
<1>1. pc[w] \in {"lookup", "callback"} /\ UNCHANGED Stage
  BY DEF HandleReceive, CallbackReturns, connVars, Stage
<1>2. /\ \A v \in Workers \ {w} : pc[v] \in {"none", "idle", "exited"}
      /\ the_socket_context_ # None
  BY <1>1, WorkerHasPacket
<1>3. Stage[connection_] = "open"
  BY <1>2 DEF StaysConnected, Stage
<1>4. CASE HandleReceive(w)
  <2>1. InCallback = {}
    BY <1>2, <1>4, CallbackAlone DEF HandleReceive
  <2>2. pc'[w] = "callback"
    BY <1>4 DEF HandleReceive, Goto
  <2>3. InCallback' = {connection_}
    BY <2>2, HandlerAssumption, ClientAssumption DEF ThreadsReceive, InCallback
  <2>4. Events!BeginData(connection_)
    BY <1>1, <1>3, <2>1, <2>3 DEF Events!BeginData
  <2> QED BY <2>4 DEF Events!EventsNext
<1>5. CASE CallbackReturns(w)
  <2>1. InCallback = {connection_}
    BY <1>5, CallbackAlone DEF CallbackReturns
  <2>2. \A v \in Workers : pc'[v] # "callback"
    BY <1>2, <1>5 DEF CallbackReturns, Goto
  <2>3. InCallback' = {}
    BY <2>2, HandlerAssumption, ClientAssumption DEF ThreadsReceive, InCallback
  <2>4. Events!EndData(connection_)
    BY <1>1, <2>1, <2>3 DEF Events!EndData
  <2> QED BY <2>4 DEF Events!EventsNext
<1> QED BY <1>4, <1>5

(* Every step of the client is one of the promise, or invisible in it, and  *)
(* none reports the end of the connection.                                  *)
LEMMA ClientStepRefines ==
  ASSUME ClientInvariant, ClientInvariant', notified = {}, [Next]_vars
  PROVE  notified' = {} /\ [Events!EventsNext]_(Events!eventVars)
<1> USE DEF handlerVars, connVars, threadVars, MainGoto
<1>1. CASE UNCHANGED vars
  BY <1>1, SilentStep DEF vars
<1>2. CASE InitConnect
  BY <1>2, ConnectRefines DEF InitConnect
<1>3. CASE MainStep /\ ~InitConnect
  BY <1>3, SilentStep
  DEF MainStep, ConnectFails, StartHandler, InitHandler, StartWorker, CreateWorker,
      HandlerStarted, SetRunning, HandlerFails, CreateWorkerFails, InitReceive,
      InitReceiveFails, PostFirstReceive, FirstReceiveFails, ClientSend, Stop,
      Destroy, DestroyHalfStarted, UseDestroyed
<1>4. ASSUME NEW w \in Workers, WorkerStep(w) \/ CallbackSend(w)
      PROVE  notified' = {} /\ [Events!EventsNext]_(Events!eventVars)
  <2>1. CASE Dequeue(w) \/ StopWorker(w)
    BY <2>1, SilentStep DEF Dequeue, GetPacket, GetExitPacket, StopWorker
  <2>2. CASE HandleReceive(w) \/ CallbackReturns(w)
    BY <2>2, DataRefines DEF HandleReceive, CallbackReturns
  <2>3. CASE \/ DispatchReceive(w) \/ PostReceive(w) \/ PostReceiveFails(w)
             \/ CallbackSend(w) \/ DispatchDisconnect(w) \/ RefuseDisconnect(w)
    BY <2>3, SilentStep
    DEF DispatchReceive, Dispatch, PostReceive, PostReceiveFails, CallbackSend,
        DispatchDisconnect, RefuseDisconnect
  <2>4. /\ ~AcceptStep(w)
        /\ ~EnterDisconnect(w) /\ ~NotifyDisconnected(w) /\ ~EraseConnection(w)
        /\ ~CloseSocket(w) /\ ~FreeContext(w)
    BY ServerStepsDisabled
  <2> HIDE DEF handlerVars, connVars, threadVars, MainGoto
  <2> QED BY <1>4, <2>1, <2>2, <2>3, <2>4 DEF WorkerStep, ReceiveStep, DisconnectStep
<1>5. CASE SystemStep
  BY <1>5, SilentStep
  DEF SystemStep, CompleteAccept, AbortAccept, CompleteReceive, DataRace
<1> QED BY <1>1, <1>2, <1>3, <1>4, <1>5 DEF Next, EngineStep

(* A client never reports the end of its connection. *)
THEOREM NothingReported == Spec => [](notified = {})
<1>1. Init => notified = {}
  BY DEF Init, HandlerInit
<1>2. ClientInvariant /\ ClientInvariant' /\ notified = {} /\ [Next]_vars
      => (notified = {})'
  BY ClientStepRefines
<1> QED BY <1>1, <1>2, ClientInvariantHolds, PTL DEF Spec

(* The client implements ConnectionEvents: the connection is set up once,   *)
(* and its callbacks come one at a time, however many workers there are.    *)
THEOREM ClientCallbacksOrdered == Spec => CallbacksInOrder
<1>1. Init => Events!EventsInit
  <2> SUFFICES ASSUME Init PROVE Events!EventsInit
    OBVIOUS
  <2>1. InCallback = {}
    BY DEF Init, HandlerInit, InCallback
  <2> QED BY <2>1 DEF Init, HandlerInit, Stage, Events!EventsInit
<1>2. ClientInvariant /\ ClientInvariant' /\ notified = {} /\ [Next]_vars
      => [Events!EventsNext]_(Events!eventVars)
  BY ClientStepRefines
<1> QED BY <1>1, <1>2, ClientInvariantHolds, NothingReported, PTL
        DEF Spec, CallbacksInOrder, Events!EventsSpec

=============================================================================
