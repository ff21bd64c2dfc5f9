-------------------------- MODULE TcpServerProofs --------------------------
(***************************************************************************)
(* Proofs about TcpServer, for any number of workers, contexts, handles and *)
(* connections.  OwnershipInvariant is inductive, and so the type invariant,*)
(* SingleOwner and NoDanglingContext hold in every reachable state; beside  *)
(* it HandleInvariant is: no two contexts share a handle in spite of handle *)
(* reuse, and workers race on containers but never on one entry.  Then two  *)
(* invariants of the engine's life: exit packets only follow Stop, and the  *)
(* chain of AcceptEx calls ends only with a worker that leaves or with an   *)
(* AcceptEx that is refused.                                                *)
(***************************************************************************)
EXTENDS TcpServer, FiniteSetTheorems, TLAPS

-----------------------------------------------------------------------------
(* What the owners of the contexts are after the steps that move a context *)

(* No context changes hands; worker w drops some, or allocates a new one. *)
LEMMA KeepOwners ==
  ASSUME SingleOwner, NoDanglingContext, NEW w \in Workers,
         UNCHANGED <<accepting, receiving, port, the_socket_context_>>,
         live \subseteq live',
         \A v \in Workers \ {w} : Holds(v)' = Holds(v),
         Holds(w)' \subseteq Holds(w) \cup (live' \ live)
  PROVE  SingleOwner' /\ NoDanglingContext'
<1>1. InFlight' = InFlight /\ Queued' = Queued
  BY DEF InFlight, Queued
<1>2. \A v \in Workers : Holds(v)' \subseteq Holds(v) \cup (live' \ live)
  OBVIOUS
<1>3. \A v \in Workers : Holds(v)' \cap InFlight' = {}
  BY <1>1, <1>2 DEF SingleOwner, NoDanglingContext
<1>4. \A u, v \in Workers : u # v => Holds(u)' \cap Holds(v)' = {}
  BY DEF SingleOwner, NoDanglingContext
<1>5. SingleOwner'
  BY <1>1, <1>3, <1>4 DEF SingleOwner
<1>6. NoDanglingContext'
  BY <1>1, <1>2 DEF NoDanglingContext
<1> QED BY <1>5, <1>6

(* No context is touched at all. *)
LEMMA NothingMoves ==
  ASSUME SingleOwner, NoDanglingContext,
         UNCHANGED <<accepting, receiving, port, live, the_socket_context_, job,
                     cur>>
  PROVE  SingleOwner' /\ NoDanglingContext'
BY DEF SingleOwner, NoDanglingContext, Holds, InFlight, Queued

(* Worker w starts an operation on context c, and so gives it up. *)
LEMMA HandOver ==
  ASSUME SingleOwner, NoDanglingContext, NEW w \in Workers, NEW c \in Holds(w),
         UNCHANGED <<port, live, the_socket_context_>>,
         \/ accepting' = accepting \cup {c} /\ receiving' = receiving
         \/ receiving' = receiving \cup {c} /\ accepting' = accepting,
         \A v \in Workers \ {w} : Holds(v)' = Holds(v),
         Holds(w)' \subseteq Holds(w) \ {c}
  PROVE  SingleOwner' /\ NoDanglingContext'
<1>1. InFlight' = InFlight \cup {c} /\ Queued' = Queued
  BY DEF InFlight, Queued
<1>2. \A v \in Workers : Holds(v)' \subseteq Holds(v) \ {c}
  BY DEF SingleOwner
<1>3. c \notin InFlight
  BY DEF SingleOwner
<1>4. /\ accepting' \cap receiving' = {}
      /\ Queued' \cap (accepting' \cup receiving') = {}
  BY <1>1, <1>3 DEF SingleOwner, InFlight
<1>5. \A v \in Workers : Holds(v)' \cap InFlight' = {}
  BY <1>1, <1>2 DEF SingleOwner
<1>6. \A u, v \in Workers : u # v => Holds(u)' \cap Holds(v)' = {}
  BY <1>2 DEF SingleOwner
<1>7. SingleOwner'
  BY <1>4, <1>5, <1>6 DEF SingleOwner
<1>8. NoDanglingContext'
  BY <1>1, <1>2 DEF NoDanglingContext
<1> QED BY <1>7, <1>8

(* Worker w, with nothing to do, takes packet p out of the port. *)
LEMMA TakePacket ==
  ASSUME SingleOwner, NoDanglingContext, NEW w \in Workers, NEW p \in port,
         UNCHANGED <<accepting, receiving, live, the_socket_context_>>,
         port' = port \ {p},
         \A v \in Workers \ {w} : Holds(v)' = Holds(v),
         Holds(w)' = {p.key}
  PROVE  SingleOwner' /\ NoDanglingContext'
<1>1. Queued' = Queued \ {p.key} /\ p.key \in Queued
  BY DEF Queued, SingleOwner
<1>2. InFlight' = InFlight \ {p.key}
  BY <1>1 DEF InFlight, SingleOwner
<1>3. \A v \in Workers : Holds(v)' \cap InFlight' = {}
  BY <1>2 DEF SingleOwner
<1>4. \A u, v \in Workers : u # v => Holds(u)' \cap Holds(v)' = {}
  BY <1>1 DEF SingleOwner, InFlight
<1>5. SingleOwner'
  BY <1>1, <1>3, <1>4 DEF SingleOwner
<1>6. NoDanglingContext'
  BY <1>1, <1>2 DEF NoDanglingContext, InFlight
<1> QED BY <1>5, <1>6

(* The system completes the operation outstanding on context c. *)
LEMMA Complete ==
  ASSUME SingleOwner, NoDanglingContext, NEW c, NEW r,
         UNCHANGED <<live, the_socket_context_>>,
         \/ /\ c \in accepting
            /\ accepting' = accepting \ {c} /\ receiving' = receiving
         \/ /\ c \in receiving
            /\ receiving' = receiving \ {c} /\ accepting' = accepting,
         port' = port \cup {[key |-> c, result |-> r]},
         \A v \in Workers : Holds(v)' = Holds(v)
  PROVE  SingleOwner' /\ NoDanglingContext'
<1>1. Queued' = Queued \cup {c}
  <2> DEFINE packet == [key |-> c, result |-> r]
  <2>1. packet.key = c
    OBVIOUS
  <2>2. port' = port \cup {packet}
    OBVIOUS
  <2> HIDE DEF packet
  <2> QED BY <2>1, <2>2 DEF Queued
<1>2. InFlight' = InFlight
  BY <1>1 DEF InFlight, SingleOwner
<1>3. /\ accepting' \cap receiving' = {}
      /\ Queued' \cap (accepting' \cup receiving') = {}
  BY <1>1 DEF SingleOwner
<1>4. \A p, q \in port' : p.key = q.key => p = q
  <2>1. \A p \in port : p.key # c
    BY DEF SingleOwner, Queued
  <2> QED BY <2>1 DEF SingleOwner
<1>5. SingleOwner'
  BY <1>2, <1>3, <1>4 DEF SingleOwner
<1>6. NoDanglingContext'
  BY <1>2 DEF NoDanglingContext
<1> QED BY <1>5, <1>6

(* Worker w deletes context c, which is not the listener's. *)
LEMMA Release ==
  ASSUME SingleOwner, NoDanglingContext, NEW w \in Workers, NEW c \in Holds(w),
         UNCHANGED <<accepting, receiving, port, the_socket_context_>>,
         live' = live \ {c},
         c # the_socket_context_,
         \A v \in Workers \ {w} : Holds(v)' = Holds(v),
         Holds(w)' \subseteq Holds(w) \ {c}
  PROVE  SingleOwner' /\ NoDanglingContext'
<1>1. InFlight' = InFlight /\ Queued' = Queued
  BY DEF InFlight, Queued
<1>2. \A v \in Workers : Holds(v)' \subseteq Holds(v) \ {c}
  BY DEF SingleOwner
<1>3. SingleOwner'
  BY <1>1, <1>2 DEF SingleOwner
<1>4. NoDanglingContext'
  BY <1>1, <1>2 DEF NoDanglingContext, SingleOwner
<1> QED BY <1>3, <1>4

-----------------------------------------------------------------------------
(* Two facts about types *)

(* num_worker_threads is a natural number. *)
LEMMA WorkersCounted == Cardinality(Workers) \in Nat
BY HandlerAssumption, FS_CardinalityType DEF HandlerAssumption

(* A worker that gets as far as the switch has a completion packet. *)
LEMMA PacketAtWork ==
  ASSUME HandlerTypeOK, NEW w \in Workers, HasWork(w)
  PROVE  job[w] \in Packet /\ job[w].key \in Contexts
BY DEF HandlerTypeOK, HasWork, Packet, ExitPacket, NoPacket

(* What start_accept() assigns. *)
LEMMA AcceptTypes ==
  ASSUME HandlerTypeOK, NEW c \in Contexts, StartAccept(c)
  PROVE  /\ open' \in SUBSET Sockets
         /\ SocketAccept' \in [Contexts -> Sockets \cup {None}]
         /\ accepting' \in SUBSET Contexts
         /\ refused' \in BOOLEAN
<1> USE DEF HandlerTypeOK, StartAccept
<1>1. PICK s \in Sockets \ open :
        /\ open' = open \cup {s}
        /\ SocketAccept' = [SocketAccept EXCEPT ![c] = s]
  OBVIOUS
<1>2. open' \in SUBSET Sockets /\ SocketAccept' \in [Contexts -> Sockets \cup {None}]
  BY <1>1
<1>3. accepting' \in SUBSET Contexts /\ refused' \in BOOLEAN
  OBVIOUS
<1> QED BY <1>2, <1>3

-----------------------------------------------------------------------------
(* The steps of the workers *)

(* A worker takes a packet out of the port, or leaves. *)
LEMMA DequeueSteps ==
  ASSUME OwnershipInvariant, UNCHANGED serverVars, NEW w \in Workers,
         \/ \E p \in port : GetPacket(w, p)
         \/ GetExitPacket(w)
         \/ StopWorker(w)
  PROVE  OwnershipInvariant'
<1> USE HandlerAssumption
    DEF OwnershipInvariant, ServerTypeOK, HandlerTypeOK, Goto, serverVars,
        engineVars, registryVars, contextVars, connVars, threadVars,
        socketVars, acceptVars, ioVars
<1>GetPacket. CASE \E p \in port : GetPacket(w, p)
  <2> USE <1>GetPacket DEF GetPacket
  <2>1. ServerTypeOK'
    BY DEF Labels
  <2>2. StartsQuiet' /\ ListenerFirst'
    BY DEF StartsQuiet, BeforeUp, Listener, ListenerFirst
  <2>3. ThreadsConsistent'
    BY DEF ThreadsConsistent, Listener, Packet
  <2>4. PICK p \in port : GetPacket(w, p)
    OBVIOUS
  <2>5. SingleOwner' /\ NoDanglingContext'
    <3>1. /\ Holds(w)' = {p.key}
          /\ \A v \in Workers \ {w} : Holds(v)' = Holds(v)
      BY <2>4 DEF Holds, ThreadsConsistent, Packet
    <3> QED BY <2>4, <3>1, TakePacket
  <2> QED BY <2>1, <2>2, <2>3, <2>5

<1>GetExitPacket. CASE GetExitPacket(w)
  <2> USE <1>GetExitPacket DEF GetExitPacket
  <2>1. ServerTypeOK'
    BY WorkersCounted DEF Labels
  <2>2. StartsQuiet' /\ ListenerFirst'
    BY DEF StartsQuiet, BeforeUp, Listener, ListenerFirst
  <2>3. ThreadsConsistent'
    BY WorkersCounted DEF ThreadsConsistent, Listener, NoPacket, ExitPacket,
      Packet
  <2>4. /\ \A v \in Workers \ {w} : Holds(v)' = Holds(v)
        /\ Holds(w)' \subseteq Holds(w)
    BY DEF Holds, ThreadsConsistent, ExitPacket, NoPacket
  <2>5. SingleOwner' /\ NoDanglingContext'
    BY <2>4, KeepOwners
  <2> QED BY <2>1, <2>2, <2>3, <2>5

<1>StopWorker. CASE StopWorker(w)
  <2> USE <1>StopWorker DEF StopWorker, LeaveThread
  <2>1. ServerTypeOK'
    BY DEF Labels, NoPacket
  <2>2. StartsQuiet' /\ ListenerFirst'
    BY DEF StartsQuiet, BeforeUp, Listener, ListenerFirst
  <2>3. ThreadsConsistent'
    BY DEF ThreadsConsistent, Listener, NoPacket, ExitPacket, Packet
  <2>4. /\ \A v \in Workers \ {w} : Holds(v)' = Holds(v)
        /\ Holds(w)' \subseteq Holds(w)
    BY DEF Holds, NoPacket
  <2>5. SingleOwner' /\ NoDanglingContext'
    BY <2>4, KeepOwners
  <2> QED BY <2>1, <2>2, <2>3, <2>5

<1> QED BY <1>GetPacket, <1>GetExitPacket, <1>StopWorker

(* A worker handles the completion of an AcceptEx. *)
LEMMA AcceptSteps ==
  ASSUME OwnershipInvariant, UNCHANGED serverVars, NEW w \in Workers,
         \/ DispatchAccept(w)
         \/ AcceptFails(w)
         \/ HandleAccept(w)
         \/ AssociateFails(w)
         \/ PushContext(w)
         \/ RegisterConnection(w)
         \/ Rearm(w)
         \/ RearmFails(w)
  PROVE  OwnershipInvariant'
<1> USE HandlerAssumption
    DEF OwnershipInvariant, ServerTypeOK, HandlerTypeOK, Goto, serverVars,
        engineVars, registryVars, contextVars, connVars, threadVars,
        socketVars, acceptVars, ioVars
<1>DispatchAccept. CASE DispatchAccept(w)
  <2> USE <1>DispatchAccept DEF DispatchAccept, Dispatch, HasWork
  <2>1. ServerTypeOK'
    BY PacketAtWork DEF Labels
  <2>2. StartsQuiet' /\ ListenerFirst'
    BY DEF StartsQuiet, BeforeUp, Listener, ListenerFirst
  <2>3. ThreadsConsistent'
    BY PacketAtWork DEF ThreadsConsistent, Listener, ListenerFirst,
      NoDanglingContext, Holds, Packet
  <2>4. /\ \A v \in Workers \ {w} : Holds(v)' = Holds(v)
        /\ Holds(w)' \subseteq Holds(w)
    BY PacketAtWork DEF Holds, ThreadsConsistent
  <2>5. SingleOwner' /\ NoDanglingContext'
    BY <2>4, KeepOwners
  <2> QED BY <2>1, <2>2, <2>3, <2>5

<1>AcceptFails. CASE AcceptFails(w)
  <2> USE <1>AcceptFails DEF AcceptFails, LeaveThread
  <2>1. ServerTypeOK'
    BY DEF Labels, NoPacket
  <2>2. StartsQuiet' /\ ListenerFirst'
    BY DEF StartsQuiet, BeforeUp, Listener, ListenerFirst
  <2>3. ThreadsConsistent'
    BY DEF ThreadsConsistent, Listener, NoPacket, ExitPacket, Packet
  <2>4. /\ \A v \in Workers \ {w} : Holds(v)' = Holds(v)
        /\ Holds(w)' \subseteq Holds(w)
    BY DEF Holds, NoPacket
  <2>5. SingleOwner' /\ NoDanglingContext'
    BY <2>4, KeepOwners
  <2> QED BY <2>1, <2>2, <2>3, <2>5

<1>HandleAccept. CASE HandleAccept(w)
  <2> USE <1>HandleAccept DEF HandleAccept, CanHandleAccept, NewContext
  <2>1. ServerTypeOK'
    BY DEF Labels, Operations, ThreadsConsistent, Packet
  <2>2. StartsQuiet' /\ ListenerFirst'
    BY DEF StartsQuiet, BeforeUp, Listener, ListenerFirst, ThreadsConsistent,
      Packet
  <2>3. ThreadsConsistent'
    BY DEF ThreadsConsistent, Listener, NoDanglingContext, Holds, Packet
  <2>4. /\ \A v \in Workers \ {w} : Holds(v)' = Holds(v)
        /\ Holds(w)' \subseteq Holds(w) \cup (live' \ live)
    BY DEF Holds, ThreadsConsistent
  <2>5. SingleOwner' /\ NoDanglingContext'
    BY <2>4, KeepOwners
  <2> QED BY <2>1, <2>2, <2>3, <2>5

<1>AssociateFails. CASE AssociateFails(w)
  <2> USE <1>AssociateFails DEF AssociateFails, CanHandleAccept, LeaveThread
  <2>1. ServerTypeOK'
    BY DEF Labels, NoPacket
  <2>2. StartsQuiet' /\ ListenerFirst'
    BY DEF StartsQuiet, BeforeUp, Listener, ListenerFirst
  <2>3. ThreadsConsistent'
    BY DEF ThreadsConsistent, Listener, NoPacket, ExitPacket, Packet
  <2>4. /\ \A v \in Workers \ {w} : Holds(v)' = Holds(v)
        /\ Holds(w)' \subseteq Holds(w)
    BY DEF Holds, NoPacket
  <2>5. SingleOwner' /\ NoDanglingContext'
    BY <2>4, KeepOwners
  <2> QED BY <2>1, <2>2, <2>3, <2>5

<1>PushContext. CASE PushContext(w)
  <2> USE <1>PushContext DEF PushContext
  <2>1. ServerTypeOK'
    BY DEF Labels, ThreadsConsistent
  <2>2. StartsQuiet' /\ ListenerFirst'
    BY DEF StartsQuiet, BeforeUp, Listener, ListenerFirst
  <2>3. ThreadsConsistent'
    BY DEF ThreadsConsistent, Listener, NoPacket, ExitPacket, Packet
  <2>4. /\ \A v \in Workers \ {w} : Holds(v)' = Holds(v)
        /\ Holds(w)' \subseteq Holds(w)
    BY DEF Holds
  <2>5. SingleOwner' /\ NoDanglingContext'
    BY <2>4, KeepOwners
  <2> QED BY <2>1, <2>2, <2>3, <2>5

<1>RegisterConnection. CASE RegisterConnection(w)
  <2> USE <1>RegisterConnection DEF RegisterConnection
  <2>1. ServerTypeOK'
    <3>1. PICK k \in Conns :
            /\ socket_' = [socket_ EXCEPT ![k] = socket[cur[w]]]
            /\ connected_' = [connected_ EXCEPT ![k] = TRUE]
            /\ connections_' = [connections_ EXCEPT ![socket[cur[w]]] = k]
            /\ conn' \in {conn, [conn EXCEPT ![w] = k]}
            /\ pc' \in {[pc EXCEPT ![w] = "callback"], [pc EXCEPT ![w] = "post"]}
      OBVIOUS
    <3>2. socket[cur[w]] \in Sockets \cup {None}
      BY DEF ThreadsConsistent
    <3>3. /\ socket_' \in [Conns -> Sockets \cup {None}]
          /\ connected_' \in [Conns -> BOOLEAN]
          /\ connections_' \in [Sockets -> Conns \cup {None}]
      BY <3>1, <3>2
    <3>4. conn' \in [Workers -> Conns \cup {None}] /\ pc' \in [Workers -> Labels]
      BY <3>1 DEF Labels
    <3> QED BY <3>3, <3>4
  <2>2. StartsQuiet' /\ ListenerFirst'
    BY DEF StartsQuiet, BeforeUp, Listener, ListenerFirst
  <2>3. ThreadsConsistent'
    BY DEF ThreadsConsistent, Listener, NoPacket, ExitPacket, Packet
  <2>4. /\ \A v \in Workers \ {w} : Holds(v)' = Holds(v)
        /\ Holds(w)' \subseteq Holds(w)
    BY DEF Holds
  <2>5. SingleOwner' /\ NoDanglingContext'
    BY <2>4, KeepOwners
  <2> QED BY <2>1, <2>2, <2>3, <2>5

<1>Rearm. CASE Rearm(w)
  <2> USE <1>Rearm DEF Rearm, EndJob
  <2>1. ServerTypeOK'
    <3>1. the_socket_context_ \in Contexts
      BY DEF ThreadsConsistent, Listener, Packet
    <3> QED BY <3>1, AcceptTypes DEF Labels, NoPacket
  <2>2. StartsQuiet' /\ ListenerFirst'
    BY DEF StartsQuiet, BeforeUp, Listener, ListenerFirst
  <2>3. ThreadsConsistent'
    BY DEF ThreadsConsistent, Listener, NoPacket, ExitPacket, Packet
  <2>4. /\ the_socket_context_ \in Holds(w)
        /\ Holds(w)' = {}
        /\ \A v \in Workers \ {w} : Holds(v)' = Holds(v)
    BY DEF Holds, ThreadsConsistent, Listener, NoPacket, Packet
  <2>5. SingleOwner' /\ NoDanglingContext'
    <3>1. CASE accepting' = accepting \cup {the_socket_context_}
      BY <2>4, <3>1, HandOver
    <3>2. CASE accepting' = accepting
      BY <2>4, <3>2, KeepOwners
    <3> QED BY <3>1, <3>2 DEF StartAccept
  <2> QED BY <2>1, <2>2, <2>3, <2>5

<1>RearmFails. CASE RearmFails(w)
  <2> USE <1>RearmFails DEF RearmFails, StartAcceptFails, LeaveThread
  <2>1. ServerTypeOK'
    BY DEF Labels, NoPacket
  <2>2. StartsQuiet' /\ ListenerFirst'
    BY DEF StartsQuiet, BeforeUp, Listener, ListenerFirst
  <2>3. ThreadsConsistent'
    BY DEF ThreadsConsistent, Listener, NoPacket, ExitPacket, Packet
  <2>4. /\ \A v \in Workers \ {w} : Holds(v)' = Holds(v)
        /\ Holds(w)' \subseteq Holds(w)
    BY DEF Holds, NoPacket
  <2>5. SingleOwner' /\ NoDanglingContext'
    BY <2>4, KeepOwners
  <2> QED BY <2>1, <2>2, <2>3, <2>5

<1> QED BY <1>DispatchAccept, <1>AcceptFails, <1>HandleAccept,
  <1>AssociateFails, <1>PushContext, <1>RegisterConnection, <1>Rearm,
  <1>RearmFails

(* A worker handles the completion of a WSARecv. *)
LEMMA ReceiveSteps ==
  ASSUME OwnershipInvariant, UNCHANGED serverVars, NEW w \in Workers,
         \/ DispatchReceive(w)
         \/ HandleReceive(w)
         \/ CallbackSend(w)
         \/ CallbackReturns(w)
         \/ PostReceive(w)
         \/ PostReceiveFails(w)
  PROVE  OwnershipInvariant'
<1> USE HandlerAssumption
    DEF OwnershipInvariant, ServerTypeOK, HandlerTypeOK, Goto, serverVars,
        engineVars, registryVars, contextVars, connVars, threadVars,
        socketVars, acceptVars, ioVars
<1>DispatchReceive. CASE DispatchReceive(w)
  <2> USE <1>DispatchReceive DEF DispatchReceive, Dispatch, HasWork
  <2>1. ServerTypeOK'
    BY PacketAtWork DEF Labels
  <2>2. StartsQuiet' /\ ListenerFirst'
    BY DEF StartsQuiet, BeforeUp, Listener, ListenerFirst
  <2>3. ThreadsConsistent'
    BY PacketAtWork DEF ThreadsConsistent, Listener, ListenerFirst,
      NoDanglingContext, Holds, Packet
  <2>4. /\ \A v \in Workers \ {w} : Holds(v)' = Holds(v)
        /\ Holds(w)' \subseteq Holds(w)
    BY PacketAtWork DEF Holds, ThreadsConsistent
  <2>5. SingleOwner' /\ NoDanglingContext'
    BY <2>4, KeepOwners
  <2> QED BY <2>1, <2>2, <2>3, <2>5

<1>HandleReceive. CASE HandleReceive(w)
  <2> USE <1>HandleReceive DEF HandleReceive
  <2>1. ServerTypeOK'
    BY DEF Labels
  <2>2. StartsQuiet' /\ ListenerFirst'
    BY DEF StartsQuiet, BeforeUp, Listener, ListenerFirst
  <2>3. ThreadsConsistent'
    BY DEF ThreadsConsistent, Listener, NoPacket, ExitPacket, Packet
  <2>4. /\ \A v \in Workers \ {w} : Holds(v)' = Holds(v)
        /\ Holds(w)' \subseteq Holds(w)
    BY DEF Holds
  <2>5. SingleOwner' /\ NoDanglingContext'
    BY <2>4, KeepOwners
  <2> QED BY <2>1, <2>2, <2>3, <2>5

<1>CallbackSend. CASE CallbackSend(w)
  <2> USE <1>CallbackSend DEF CallbackSend, Send
  <2>1. ServerTypeOK'
    BY DEF ThreadsConsistent
  <2>2. StartsQuiet' /\ ListenerFirst'
    BY DEF StartsQuiet, BeforeUp, Listener, ListenerFirst
  <2>3. ThreadsConsistent'
    BY DEF ThreadsConsistent, Listener, NoPacket, ExitPacket, Packet
  <2>4. /\ \A v \in Workers \ {w} : Holds(v)' = Holds(v)
        /\ Holds(w)' \subseteq Holds(w)
    BY DEF Holds
  <2>5. SingleOwner' /\ NoDanglingContext'
    BY <2>4, KeepOwners
  <2> QED BY <2>1, <2>2, <2>3, <2>5

<1>CallbackReturns. CASE CallbackReturns(w)
  <2> USE <1>CallbackReturns DEF CallbackReturns
  <2>1. ServerTypeOK'
    BY DEF Labels
  <2>2. StartsQuiet' /\ ListenerFirst'
    BY DEF StartsQuiet, BeforeUp, Listener, ListenerFirst
  <2>3. ThreadsConsistent'
    BY DEF ThreadsConsistent, Listener, NoPacket, ExitPacket, Packet
  <2>4. /\ \A v \in Workers \ {w} : Holds(v)' = Holds(v)
        /\ Holds(w)' \subseteq Holds(w)
    BY DEF Holds
  <2>5. SingleOwner' /\ NoDanglingContext'
    BY <2>4, KeepOwners
  <2> QED BY <2>1, <2>2, <2>3, <2>5

<1>PostReceive. CASE PostReceive(w)
  <2> USE <1>PostReceive DEF PostReceive, Return, EndJob
  <2>1. ServerTypeOK'
    BY DEF Labels, NoPacket, Operations, ThreadsConsistent
  <2>2. StartsQuiet' /\ ListenerFirst'
    BY DEF StartsQuiet, BeforeUp, Listener, ListenerFirst
  <2>3. ThreadsConsistent'
    BY DEF ThreadsConsistent, Listener, NoPacket, ExitPacket, Packet
  <2>4. /\ cur[w] \in Holds(w)
        /\ Holds(w)' \subseteq Holds(w) \ {cur[w]}
        /\ \A v \in Workers \ {w} : Holds(v)' = Holds(v)
    BY DEF Holds, ThreadsConsistent, NoPacket
  <2>5. SingleOwner' /\ NoDanglingContext'
    BY <2>4, HandOver
  <2> QED BY <2>1, <2>2, <2>3, <2>5

<1>PostReceiveFails. CASE PostReceiveFails(w)
  <2> USE <1>PostReceiveFails DEF PostReceiveFails
  <2>1. ServerTypeOK'
    BY DEF Labels, Operations
  <2>2. StartsQuiet' /\ ListenerFirst'
    BY DEF StartsQuiet, BeforeUp, Listener, ListenerFirst
  <2>3. ThreadsConsistent'
    BY DEF ThreadsConsistent, Listener, NoPacket, ExitPacket, Packet
  <2>4. /\ \A v \in Workers \ {w} : Holds(v)' = Holds(v)
        /\ Holds(w)' \subseteq Holds(w)
    BY DEF Holds
  <2>5. SingleOwner' /\ NoDanglingContext'
    BY <2>4, KeepOwners
  <2> QED BY <2>1, <2>2, <2>3, <2>5

<1> QED BY <1>DispatchReceive, <1>HandleReceive, <1>CallbackSend,
  <1>CallbackReturns, <1>PostReceive, <1>PostReceiveFails

(* A worker disconnects a connection. *)
LEMMA DisconnectSteps ==
  ASSUME OwnershipInvariant, UNCHANGED serverVars, NEW w \in Workers,
         \/ DispatchDisconnect(w)
         \/ RefuseDisconnect(w)
         \/ EnterDisconnect(w)
         \/ NotifyDisconnected(w)
         \/ EraseConnection(w)
         \/ CloseSocket(w)
         \/ FreeContext(w)
  PROVE  OwnershipInvariant'
<1> USE HandlerAssumption
    DEF OwnershipInvariant, ServerTypeOK, HandlerTypeOK, Goto, serverVars,
        engineVars, registryVars, contextVars, connVars, threadVars,
        socketVars, acceptVars, ioVars
<1>DispatchDisconnect. CASE DispatchDisconnect(w)
  <2> USE <1>DispatchDisconnect DEF DispatchDisconnect, Dispatch, HasWork
  <2>1. ServerTypeOK'
    BY PacketAtWork DEF Labels
  <2>2. StartsQuiet' /\ ListenerFirst'
    BY DEF StartsQuiet, BeforeUp, Listener, ListenerFirst
  <2>3. ThreadsConsistent'
    BY PacketAtWork DEF ThreadsConsistent, Listener, ListenerFirst,
      NoDanglingContext, Holds, Packet
  <2>4. /\ \A v \in Workers \ {w} : Holds(v)' = Holds(v)
        /\ Holds(w)' \subseteq Holds(w)
    BY PacketAtWork DEF Holds, ThreadsConsistent
  <2>5. SingleOwner' /\ NoDanglingContext'
    BY <2>4, KeepOwners
  <2> QED BY <2>1, <2>2, <2>3, <2>5

<1>RefuseDisconnect. CASE RefuseDisconnect(w)
  <2> USE <1>RefuseDisconnect DEF RefuseDisconnect, Return, EndJob
  <2>1. ServerTypeOK'
    BY DEF Labels, NoPacket
  <2>2. StartsQuiet' /\ ListenerFirst'
    BY DEF StartsQuiet, BeforeUp, Listener, ListenerFirst
  <2>3. ThreadsConsistent'
    BY DEF ThreadsConsistent, Listener, NoPacket, ExitPacket, Packet
  <2>4. /\ \A v \in Workers \ {w} : Holds(v)' = Holds(v)
        /\ Holds(w)' \subseteq Holds(w)
    BY DEF Holds, NoPacket
  <2>5. SingleOwner' /\ NoDanglingContext'
    BY <2>4, KeepOwners
  <2> QED BY <2>1, <2>2, <2>3, <2>5

<1>EnterDisconnect. CASE EnterDisconnect(w)
  <2> USE <1>EnterDisconnect DEF EnterDisconnect
  <2>1. ServerTypeOK'
    BY DEF Labels
  <2>2. StartsQuiet' /\ ListenerFirst'
    BY DEF StartsQuiet, BeforeUp, Listener, ListenerFirst
  <2>3. ThreadsConsistent'
    BY DEF ThreadsConsistent, Listener, NoPacket, ExitPacket, Packet
  <2>4. /\ \A v \in Workers \ {w} : Holds(v)' = Holds(v)
        /\ Holds(w)' \subseteq Holds(w)
    BY DEF Holds
  <2>5. SingleOwner' /\ NoDanglingContext'
    BY <2>4, KeepOwners
  <2> QED BY <2>1, <2>2, <2>3, <2>5

<1>NotifyDisconnected. CASE NotifyDisconnected(w)
  <2> USE <1>NotifyDisconnected DEF NotifyDisconnected
  <2>1. ServerTypeOK'
    BY DEF Labels
  <2>2. StartsQuiet' /\ ListenerFirst'
    BY DEF StartsQuiet, BeforeUp, Listener, ListenerFirst
  <2>3. ThreadsConsistent'
    BY DEF ThreadsConsistent, Listener, NoPacket, ExitPacket, Packet
  <2>4. /\ \A v \in Workers \ {w} : Holds(v)' = Holds(v)
        /\ Holds(w)' \subseteq Holds(w)
    BY DEF Holds
  <2>5. SingleOwner' /\ NoDanglingContext'
    BY <2>4, KeepOwners
  <2> QED BY <2>1, <2>2, <2>3, <2>5

<1>EraseConnection. CASE EraseConnection(w)
  <2> USE <1>EraseConnection DEF EraseConnection
  <2>1. ServerTypeOK'
    BY DEF Labels
  <2>2. StartsQuiet' /\ ListenerFirst'
    BY DEF StartsQuiet, BeforeUp, Listener, ListenerFirst
  <2>3. ThreadsConsistent'
    BY DEF ThreadsConsistent, Listener, NoPacket, ExitPacket, Packet
  <2>4. /\ \A v \in Workers \ {w} : Holds(v)' = Holds(v)
        /\ Holds(w)' \subseteq Holds(w)
    BY DEF Holds
  <2>5. SingleOwner' /\ NoDanglingContext'
    BY <2>4, KeepOwners
  <2> QED BY <2>1, <2>2, <2>3, <2>5

<1>CloseSocket. CASE CloseSocket(w)
  <2> USE <1>CloseSocket DEF CloseSocket
  <2>1. ServerTypeOK'
    BY DEF Labels
  <2>2. StartsQuiet' /\ ListenerFirst'
    BY DEF StartsQuiet, BeforeUp, Listener, ListenerFirst
  <2>3. ThreadsConsistent'
    BY DEF ThreadsConsistent, Listener, NoPacket, ExitPacket, Packet
  <2>4. /\ \A v \in Workers \ {w} : Holds(v)' = Holds(v)
        /\ Holds(w)' \subseteq Holds(w)
    BY DEF Holds
  <2>5. SingleOwner' /\ NoDanglingContext'
    BY <2>4, KeepOwners
  <2> QED BY <2>1, <2>2, <2>3, <2>5

<1>FreeContext. CASE FreeContext(w)
  <2> USE <1>FreeContext DEF FreeContext, Return, EndJob
  <2>1. ServerTypeOK'
    BY DEF Labels, NoPacket
  <2>2. StartsQuiet' /\ ListenerFirst'
    BY DEF StartsQuiet, BeforeUp, Listener, ListenerFirst
  <2>3. ThreadsConsistent'
    BY DEF ThreadsConsistent, Listener, NoPacket, ExitPacket, Packet
  <2>4. /\ cur[w] \in Holds(w)
        /\ Holds(w)' \subseteq Holds(w) \ {cur[w]}
        /\ \A v \in Workers \ {w} : Holds(v)' = Holds(v)
        /\ cur[w] # the_socket_context_
    BY DEF Holds, ThreadsConsistent, NoPacket, Listener
  <2>5. SingleOwner' /\ NoDanglingContext'
    BY <2>4, Release
  <2> QED BY <2>1, <2>2, <2>3, <2>5

<1> QED BY <1>DispatchDisconnect, <1>RefuseDisconnect, <1>EnterDisconnect,
  <1>NotifyDisconnected, <1>EraseConnection, <1>CloseSocket, <1>FreeContext

(* A worker takes any of its steps. *)
LEMMA WorkerSteps ==
  ASSUME OwnershipInvariant, UNCHANGED serverVars, NEW w \in Workers,
         WorkerStep(w) \/ CallbackSend(w)
  PROVE  OwnershipInvariant'
<1>1. CASE Dequeue(w) \/ StopWorker(w)
  BY <1>1, DequeueSteps DEF Dequeue
<1>2. CASE AcceptStep(w)
  BY <1>2, AcceptSteps DEF AcceptStep
<1>3. CASE ReceiveStep(w) \/ CallbackSend(w)
  BY <1>3, ReceiveSteps DEF ReceiveStep
<1>4. CASE DisconnectStep(w)
  BY <1>4, DisconnectSteps DEF DisconnectStep
<1> QED BY <1>1, <1>2, <1>3, <1>4 DEF WorkerStep

-----------------------------------------------------------------------------
(* The steps of the system and of the thread that owns the server *)

(* The system completes an operation, or two workers race. *)
LEMMA SystemSteps ==
  ASSUME OwnershipInvariant, UNCHANGED serverVars, SystemStep
  PROVE  OwnershipInvariant'
<1> USE HandlerAssumption
    DEF OwnershipInvariant, ServerTypeOK, HandlerTypeOK, serverVars, engineVars,
        registryVars, contextVars, connVars, threadVars, socketVars, acceptVars,
        ioVars
<1>1. CASE \E c \in accepting : CompleteAccept(c) \/ AbortAccept(c)
  <2> PICK c \in accepting : CompleteAccept(c) \/ AbortAccept(c)
    BY <1>1
  <2> USE DEF CompleteAccept, AbortAccept
  <2>1. ServerTypeOK'
    BY DEF Packet, Results
  <2>2. StartsQuiet' /\ ThreadsConsistent' /\ ListenerFirst'
    BY DEF StartsQuiet, BeforeUp, ThreadsConsistent, ListenerFirst, Listener
  <2>3. \A v \in Workers : Holds(v)' = Holds(v)
    BY DEF Holds
  <2>4. SingleOwner' /\ NoDanglingContext'
    BY <2>3, Complete
  <2> QED BY <2>1, <2>2, <2>4
<1>2. CASE \E c \in receiving, r \in Results : CompleteReceive(c, r)
  <2> PICK c \in receiving, r \in Results : CompleteReceive(c, r)
    BY <1>2
  <2> USE DEF CompleteReceive
  <2>1. ServerTypeOK'
    BY DEF Packet, Results
  <2>2. StartsQuiet' /\ ThreadsConsistent' /\ ListenerFirst'
    BY DEF StartsQuiet, BeforeUp, ThreadsConsistent, ListenerFirst, Listener
  <2>3. \A v \in Workers : Holds(v)' = Holds(v)
    BY DEF Holds
  <2>4. SingleOwner' /\ NoDanglingContext'
    BY <2>3, Complete
  <2> QED BY <2>1, <2>2, <2>4
<1>3. CASE DataRace
  <2> USE <1>3 DEF DataRace
  <2>1. ServerTypeOK'
    OBVIOUS
  <2>2. StartsQuiet' /\ ThreadsConsistent' /\ ListenerFirst'
    BY DEF StartsQuiet, ThreadsConsistent, ListenerFirst, Listener
  <2>3. SingleOwner' /\ NoDanglingContext'
    BY NothingMoves
  <2> QED BY <2>1, <2>2, <2>3
<1> QED BY <1>1, <1>2, <1>3 DEF SystemStep

(* The thread that owns the server executes Start. *)
LEMMA StartSteps ==
  ASSUME OwnershipInvariant, StartStep
  PROVE  OwnershipInvariant'
<1> USE HandlerAssumption
    DEF OwnershipInvariant, ServerTypeOK, HandlerTypeOK, MainGoto, serverVars,
        handlerVars, engineVars, registryVars, contextVars, connVars,
        threadVars, socketVars, acceptVars, ioVars
<1>StartHandler. CASE StartHandler
  <2> USE <1>StartHandler DEF StartHandler, InitHandler
  <2>1. ServerTypeOK'
    BY DEF MainLabels
  <2>2. StartsQuiet' /\ ListenerFirst'
    BY DEF StartsQuiet, BeforeUp, ListenerFirst, Listener, MainLabels
  <2>3. ThreadsConsistent'
    BY DEF ThreadsConsistent, StartsQuiet, BeforeUp, Listener
  <2>4. SingleOwner' /\ NoDanglingContext'
    BY NothingMoves
  <2> QED BY <2>1, <2>2, <2>3, <2>4

<1>CreateEventFails. CASE CreateEventFails
  <2> USE <1>CreateEventFails DEF CreateEventFails, InitHandler
  <2>1. ServerTypeOK'
    BY DEF MainLabels
  <2>2. StartsQuiet' /\ ListenerFirst'
    BY DEF StartsQuiet, BeforeUp, ListenerFirst, Listener, MainLabels
  <2>3. ThreadsConsistent'
    BY DEF ThreadsConsistent, StartsQuiet, BeforeUp, Listener
  <2>4. SingleOwner' /\ NoDanglingContext'
    BY NothingMoves
  <2> QED BY <2>1, <2>2, <2>3, <2>4

<1>StartWorker. CASE \E w \in Workers : StartWorker(w)
  <2> USE <1>StartWorker DEF StartWorker, CreateWorker, Goto
  <2>1. ServerTypeOK'
    BY DEF Labels
  <2>2. StartsQuiet' /\ ListenerFirst'
    BY DEF StartsQuiet, BeforeUp, ListenerFirst, Listener, MainLabels
  <2>3. ThreadsConsistent'
    BY DEF ThreadsConsistent, StartsQuiet, BeforeUp, Listener
  <2>4. SingleOwner' /\ NoDanglingContext'
    BY NothingMoves
  <2> QED BY <2>1, <2>2, <2>3, <2>4

<1>StartWorkerFails. CASE StartWorkerFails
  <2> USE <1>StartWorkerFails DEF StartWorkerFails, CreateWorkerFails
  <2>1. ServerTypeOK'
    BY DEF MainLabels
  <2>2. StartsQuiet' /\ ListenerFirst'
    BY DEF StartsQuiet, BeforeUp, ListenerFirst, Listener, MainLabels
  <2>3. ThreadsConsistent'
    BY DEF ThreadsConsistent, StartsQuiet, BeforeUp, Listener
  <2>4. SingleOwner' /\ NoDanglingContext'
    BY NothingMoves
  <2> QED BY <2>1, <2>2, <2>3, <2>4

<1>HandlerStarted. CASE HandlerStarted
  <2> USE <1>HandlerStarted DEF HandlerStarted, SetRunning
  <2>1. ServerTypeOK'
    BY DEF MainLabels
  <2>2. StartsQuiet' /\ ListenerFirst'
    BY DEF StartsQuiet, BeforeUp, ListenerFirst, Listener, MainLabels
  <2>3. ThreadsConsistent'
    BY DEF ThreadsConsistent, StartsQuiet, BeforeUp, Listener
  <2>4. SingleOwner' /\ NoDanglingContext'
    BY NothingMoves
  <2> QED BY <2>1, <2>2, <2>3, <2>4

<1>CreateListener. CASE CreateListener
  <2> USE <1>CreateListener DEF CreateListener
  <2>1. ServerTypeOK'
    BY DEF MainLabels
  <2>2. StartsQuiet' /\ ListenerFirst'
    BY DEF StartsQuiet, BeforeUp, ListenerFirst, Listener, MainLabels
  <2>3. ThreadsConsistent'
    BY DEF ThreadsConsistent, StartsQuiet, BeforeUp, Listener
  <2>4. SingleOwner' /\ NoDanglingContext'
    BY NothingMoves
  <2> QED BY <2>1, <2>2, <2>3, <2>4

<1>ListenFails. CASE ListenFails
  <2> USE <1>ListenFails DEF ListenFails
  <2>1. ServerTypeOK'
    BY DEF MainLabels
  <2>2. StartsQuiet' /\ ListenerFirst'
    BY DEF StartsQuiet, BeforeUp, ListenerFirst, Listener, MainLabels
  <2>3. ThreadsConsistent'
    BY DEF ThreadsConsistent, StartsQuiet, BeforeUp, Listener
  <2>4. SingleOwner' /\ NoDanglingContext'
    BY NothingMoves
  <2> QED BY <2>1, <2>2, <2>3, <2>4

<1>InitAccept. CASE InitAccept
  <2> USE <1>InitAccept DEF InitAccept, NewContext
  <2>1. ServerTypeOK'
    BY DEF MainLabels, Operations
  <2>2. StartsQuiet' /\ ListenerFirst'
    BY DEF StartsQuiet, BeforeUp, ListenerFirst, Listener, MainLabels
  <2>3. ThreadsConsistent'
    BY DEF ThreadsConsistent, StartsQuiet, BeforeUp, Listener
  <2>4. SingleOwner' /\ NoDanglingContext'
    <3>1. InFlight' = {} /\ Queued' = {}
      BY DEF StartsQuiet, BeforeUp, InFlight, Queued
    <3>2. \A v \in Workers : Holds(v)' = {}
      BY DEF StartsQuiet, BeforeUp, ThreadsConsistent, Holds, NoPacket
    <3> QED BY <3>1, <3>2 DEF SingleOwner, NoDanglingContext, StartsQuiet, BeforeUp
  <2> QED BY <2>1, <2>2, <2>3, <2>4

<1>InitAcceptFails. CASE InitAcceptFails
  <2> USE <1>InitAcceptFails DEF InitAcceptFails
  <2>1. ServerTypeOK'
    BY DEF MainLabels
  <2>2. StartsQuiet' /\ ListenerFirst'
    BY DEF StartsQuiet, BeforeUp, ListenerFirst, Listener, MainLabels
  <2>3. ThreadsConsistent'
    BY DEF ThreadsConsistent, StartsQuiet, BeforeUp, Listener
  <2>4. SingleOwner' /\ NoDanglingContext'
    BY NothingMoves DEF StartsQuiet, BeforeUp, Listener
  <2> QED BY <2>1, <2>2, <2>3, <2>4

<1>ArmListener. CASE ArmListener
  <2> USE <1>ArmListener DEF ArmListener
  <2>0. the_socket_context_ \in Contexts
    BY DEF StartsQuiet, Listener
  <2>1. ServerTypeOK'
    BY <2>0, AcceptTypes DEF MainLabels
  <2>2. StartsQuiet' /\ ListenerFirst'
    BY DEF StartsQuiet, BeforeUp, ListenerFirst, Listener, MainLabels
  <2>3. ThreadsConsistent'
    BY DEF ThreadsConsistent, StartsQuiet, BeforeUp, Listener
  <2>4. SingleOwner' /\ NoDanglingContext'
    <3>1. /\ Queued' = {}
          /\ receiving' = {}
          /\ accepting' \subseteq {the_socket_context_}
      BY DEF StartsQuiet, BeforeUp, Queued, StartAccept
    <3>2. \A v \in Workers : Holds(v)' = {}
      BY DEF StartsQuiet, BeforeUp, ThreadsConsistent, Holds, NoPacket
    <3>3. port' = {}
      BY DEF StartsQuiet, BeforeUp
    <3>4. the_socket_context_' = the_socket_context_ /\ live' = live
      OBVIOUS
    <3>5. SingleOwner'
      BY <3>1, <3>2, <3>3 DEF SingleOwner, InFlight
    <3>6. NoDanglingContext'
      BY <2>0, <3>1, <3>2, <3>4 DEF NoDanglingContext, InFlight
    <3> QED BY <3>5, <3>6
  <2> QED BY <2>1, <2>2, <2>3, <2>4

<1>ArmListenerFails. CASE ArmListenerFails
  <2> USE <1>ArmListenerFails DEF ArmListenerFails, StartAcceptFails
  <2>1. ServerTypeOK'
    BY DEF MainLabels
  <2>2. StartsQuiet' /\ ListenerFirst'
    BY DEF StartsQuiet, BeforeUp, ListenerFirst, Listener, MainLabels
  <2>3. ThreadsConsistent'
    BY DEF ThreadsConsistent, StartsQuiet, BeforeUp, Listener
  <2>4. SingleOwner' /\ NoDanglingContext'
    BY NothingMoves
  <2> QED BY <2>1, <2>2, <2>3, <2>4

<1>StartFails. CASE StartFails
  <2> USE <1>StartFails DEF StartFails
  <2>1. ServerTypeOK'
    BY DEF MainLabels
  <2>2. StartsQuiet' /\ ListenerFirst'
    BY DEF StartsQuiet, BeforeUp, ListenerFirst, Listener, MainLabels
  <2>3. ThreadsConsistent'
    BY DEF ThreadsConsistent, StartsQuiet, BeforeUp, Listener
  <2>4. SingleOwner' /\ NoDanglingContext'
    BY NothingMoves
  <2> QED BY <2>1, <2>2, <2>3, <2>4

<1> QED
  BY <1>StartHandler, <1>CreateEventFails, <1>StartWorker, <1>StartWorkerFails,
     <1>HandlerStarted, <1>CreateListener, <1>ListenFails, <1>InitAccept,
     <1>InitAcceptFails, <1>ArmListener, <1>ArmListenerFails, <1>StartFails
  DEF StartStep

(* The thread that owns the server executes Stop. *)
LEMMA StopSteps ==
  ASSUME OwnershipInvariant, StopStep
  PROVE  OwnershipInvariant'
<1> USE HandlerAssumption
    DEF OwnershipInvariant, ServerTypeOK, HandlerTypeOK, MainGoto, serverVars,
        handlerVars, engineVars, registryVars, contextVars, connVars,
        threadVars, socketVars, acceptVars, ioVars
<1>BeginStop. CASE BeginStop
  <2> USE <1>BeginStop DEF BeginStop
  <2>1. ServerTypeOK'
    BY DEF MainLabels
  <2>2. StartsQuiet' /\ ListenerFirst'
    BY DEF StartsQuiet, BeforeUp, ListenerFirst, Listener, MainLabels
  <2>3. ThreadsConsistent'
    BY DEF ThreadsConsistent, StartsQuiet, BeforeUp, Listener
  <2>4. SingleOwner' /\ NoDanglingContext'
    BY NothingMoves
  <2> QED BY <2>1, <2>2, <2>3, <2>4

<1>PostExitPackets. CASE PostExitPackets
  <2> USE <1>PostExitPackets DEF PostExitPackets, PostPackets
  <2>1. ServerTypeOK'
    BY WorkersCounted DEF MainLabels, StartsQuiet
  <2>2. StartsQuiet' /\ ListenerFirst'
    BY DEF StartsQuiet, BeforeUp, ListenerFirst, Listener, MainLabels
  <2>3. ThreadsConsistent'
    BY DEF ThreadsConsistent, StartsQuiet, BeforeUp, Listener
  <2>4. SingleOwner' /\ NoDanglingContext'
    BY NothingMoves
  <2> QED BY <2>1, <2>2, <2>3, <2>4

<1>WaitForWorkers. CASE WaitForWorkers
  <2> USE <1>WaitForWorkers DEF WaitForWorkers
  <2>1. ServerTypeOK'
    BY DEF MainLabels
  <2>2. StartsQuiet' /\ ListenerFirst'
    BY DEF StartsQuiet, BeforeUp, ListenerFirst, Listener, MainLabels
  <2>3. ThreadsConsistent'
    BY DEF ThreadsConsistent, StartsQuiet, BeforeUp, Listener
  <2>4. SingleOwner' /\ NoDanglingContext'
    BY NothingMoves
  <2> QED BY <2>1, <2>2, <2>3, <2>4

<1>CloseListener. CASE CloseListener
  <2> USE <1>CloseListener DEF CloseListener
  <2>1. ServerTypeOK'
    BY DEF MainLabels
  <2>2. StartsQuiet' /\ ListenerFirst'
    BY DEF StartsQuiet, BeforeUp, ListenerFirst, Listener, MainLabels
  <2>3. ThreadsConsistent'
    BY DEF ThreadsConsistent, StartsQuiet, BeforeUp, Listener
  <2>4. SingleOwner' /\ NoDanglingContext'
    BY NothingMoves
  <2> QED BY <2>1, <2>2, <2>3, <2>4

<1>CloseNoListener. CASE CloseNoListener
  <2> USE <1>CloseNoListener DEF CloseNoListener
  <2>1. ServerTypeOK'
    BY DEF MainLabels
  <2>2. StartsQuiet' /\ ListenerFirst'
    BY DEF StartsQuiet, BeforeUp, ListenerFirst, Listener, MainLabels
  <2>3. ThreadsConsistent'
    BY DEF ThreadsConsistent, StartsQuiet, BeforeUp, Listener
  <2>4. SingleOwner' /\ NoDanglingContext'
    BY NothingMoves
  <2> QED BY <2>1, <2>2, <2>3, <2>4

<1> QED
  BY <1>BeginStop, <1>PostExitPackets, <1>WaitForWorkers, <1>CloseListener,
    <1>CloseNoListener DEF StopStep

-----------------------------------------------------------------------------
(* The theorems *)

(* The invariant holds before Start. *)
LEMMA OwnershipInit == Init => OwnershipInvariant
<1> SUFFICES ASSUME Init PROVE OwnershipInvariant
  OBVIOUS
<1> USE WorkersCounted DEF Init, HandlerInit
<1>1. ServerTypeOK
  <2>1. HandlerTypeOK
    BY DEF HandlerTypeOK, Labels
  <2>2. exitPackets \in 0..Cardinality(Workers)
    OBVIOUS
  <2> QED BY <2>1, <2>2 DEF ServerTypeOK, MainLabels
<1>2. StartsQuiet /\ ListenerFirst
  BY DEF StartsQuiet, BeforeUp, ListenerFirst, Listener
<1>3. ThreadsConsistent
  BY DEF ThreadsConsistent
<1>4. SingleOwner /\ NoDanglingContext
  BY DEF SingleOwner, NoDanglingContext, Holds, InFlight, Queued, NoPacket
<1> QED BY <1>1, <1>2, <1>3, <1>4 DEF OwnershipInvariant

(* The invariant is inductive. *)
LEMMA OwnershipStep == OwnershipInvariant /\ [Next]_vars => OwnershipInvariant'
<1> SUFFICES ASSUME OwnershipInvariant, [Next]_vars PROVE OwnershipInvariant'
  OBVIOUS
<1>1. CASE MainStep
  BY <1>1, StartSteps, StopSteps DEF MainStep
<1>2. CASE EngineStep
  BY <1>2, WorkerSteps, SystemSteps DEF EngineStep
<1>3. CASE UNCHANGED vars
  <2> USE <1>3
      DEF vars, handlerVars, serverVars, engineVars, registryVars, contextVars,
          connVars, threadVars, socketVars, acceptVars, ioVars
  <2>1. ServerTypeOK'
    BY DEF OwnershipInvariant, ServerTypeOK, HandlerTypeOK
  <2>2. StartsQuiet' /\ ListenerFirst'
    BY DEF OwnershipInvariant, StartsQuiet, ListenerFirst, Listener
  <2>3. ThreadsConsistent'
    BY DEF OwnershipInvariant, ThreadsConsistent, Listener
  <2>4. SingleOwner' /\ NoDanglingContext'
    BY NothingMoves DEF OwnershipInvariant
  <2> QED BY <2>1, <2>2, <2>3, <2>4 DEF OwnershipInvariant
<1> QED BY <1>1, <1>2, <1>3 DEF Next

(* The inductive invariant, for every number of workers and connections. *)
THEOREM OwnershipInvariantHolds == Spec => []OwnershipInvariant
BY OwnershipInit, OwnershipStep, PTL DEF Spec

(* The variables of the server keep to their types; Stop posts at most one  *)
(* exit packet for each worker.                                             *)
THEOREM TypeCorrect == Spec => []ServerTypeOK
<1>1. OwnershipInvariant => ServerTypeOK
  BY DEF OwnershipInvariant
<1> QED BY <1>1, OwnershipInvariantHolds, PTL

(* A socket context is never in two hands: this is why WorkerThread may use  *)
(* its completion key and its buffer without a lock.                        *)
THEOREM OneOwner == Spec => []SingleOwner
<1>1. OwnershipInvariant => SingleOwner
  BY DEF OwnershipInvariant
<1> QED BY <1>1, OwnershipInvariantHolds, PTL

(* disconnect never frees a context that another worker, the system or the  *)
(* port still refers to.                                                    *)
THEOREM NoUseAfterFree == Spec => []NoDanglingContext
<1>1. OwnershipInvariant => NoDanglingContext
  BY DEF OwnershipInvariant
<1> QED BY <1>1, OwnershipInvariantHolds, PTL

-----------------------------------------------------------------------------
(* No closesocket hits another connection *)

(* A step that neither opens nor closes a handle, moves no handle between   *)
(* contexts, and starts no AcceptEx.                                        *)
LEMMA HandlesKept ==
  ASSUME OwnershipInvariant, HandleInvariant,
         UNCHANGED <<live, socket, SocketAccept, open, the_socket_context_>>,
         Listener # None =>
           LastOperation'[Listener] = "IOAccept" /\ Listener \notin receiving',
         Listener # None /\ AcceptPending' => AcceptPending,
         \A v \in Workers : cur'[v] # None => cur'[v] # Listener,
         \A v \in Workers : pc[v] = "free" => pc'[v] = "free" /\ cur'[v] = cur[v],
         main' = "associate" => main = "associate" /\ ls_' = ls_
  PROVE  HandleInvariant'
<1>1. DistinctHandles'
  BY DEF HandleInvariant, DistinctHandles
<1>2. AcceptedApart'
  BY DEF HandleInvariant, AcceptedApart, Listener
<1>3. ConnectionContexts'
  BY DEF HandleInvariant, ConnectionContexts, Listener
<1>4. ListenerApart'
  BY DEF HandleInvariant, ListenerApart, Listener
<1> QED BY <1>1, <1>2, <1>3, <1>4 DEF HandleInvariant

(* Whoever holds the listener's context holds it alone. *)
LEMMA ListenerHeld ==
  ASSUME OwnershipInvariant, NEW w \in Workers, job[w].key = Listener,
         Listener # None
  PROVE  /\ Listener \notin accepting \cup Queued \cup receiving
         /\ \A v \in Workers \ {w} : job[v].key # Listener /\ cur[v] # Listener
         /\ Listener \in live /\ Listener \in Contexts
<1> USE DEF OwnershipInvariant, Listener
<1>1. Listener \in Holds(w)
  BY DEF Holds
<1>2. Listener \notin InFlight /\ Listener \in live /\ Listener \in Contexts
  BY <1>1 DEF SingleOwner, NoDanglingContext, ServerTypeOK, HandlerTypeOK
<1>3. ASSUME NEW v \in Workers \ {w} PROVE job[v].key # Listener /\ cur[v] # Listener
  <2>1. Listener \notin Holds(v)
    BY <1>1 DEF SingleOwner
  <2> QED BY <2>1 DEF Holds
<1> QED BY <1>2, <1>3 DEF InFlight

(* start_accept() makes a new handle for the listener's context. *)
LEMMA AcceptPosted ==
  ASSUME OwnershipInvariant, HandleInvariant, StartAccept(Listener),
         Listener # None,
         UNCHANGED <<live, socket, the_socket_context_, LastOperation, receiving>>,
         \A v \in Workers : cur'[v] # None => cur'[v] # Listener,
         \A v \in Workers : pc[v] = "free" => pc'[v] = "free" /\ cur'[v] = cur[v],
         main' # "associate" \/ UNCHANGED <<main, ls_>>
  PROVE  HandleInvariant'
<1> USE HandlerAssumption
    DEF OwnershipInvariant, ServerTypeOK, HandlerTypeOK, HandleInvariant, Listener
<1>1. PICK s \in Sockets \ open :
        /\ open' = open \cup {s}
        /\ SocketAccept' = [SocketAccept EXCEPT ![Listener] = s]
  BY DEF StartAccept
<1>2. Listener \in Contexts
  OBVIOUS
<1>3. DistinctHandles'
  BY <1>1 DEF DistinctHandles
<1>4. \A c \in live : socket[c] # s
  BY <1>1 DEF DistinctHandles
<1>5. AcceptedApart'
  BY <1>1, <1>2, <1>4 DEF AcceptedApart
<1>6. ConnectionContexts'
  BY <1>1, <1>2 DEF ConnectionContexts
<1>7. ListenerApart'
  BY <1>1 DEF ListenerApart
<1> QED BY <1>3, <1>5, <1>6, <1>7

-----------------------------------------------------------------------------
(* A worker takes a packet out of the port, or leaves. *)
LEMMA DequeueHandles ==
  ASSUME OwnershipInvariant, HandleInvariant, UNCHANGED serverVars,
         NEW w \in Workers,
         \/ \E p \in port : GetPacket(w, p)
         \/ GetExitPacket(w)
         \/ StopWorker(w)
  PROVE  HandleInvariant'
<1> USE HandlerAssumption
    DEF OwnershipInvariant, ServerTypeOK, HandlerTypeOK, HandleInvariant, Goto,
        serverVars, engineVars, registryVars, contextVars, connVars, threadVars,
        socketVars, acceptVars, ioVars
<1>Quiet. CASE \/ \E p \in port : GetPacket(w, p)
               \/ GetExitPacket(w)
               \/ StopWorker(w)
  <2> USE <1>Quiet DEF GetPacket, GetExitPacket, StopWorker, LeaveThread
  <2>1. Listener # None /\ AcceptPending' => AcceptPending
    BY DEF AcceptPending, Queued, Listener, ExitPacket, ListenerFirst
  <2>2. \A v \in Workers : cur'[v] # None => cur'[v] # Listener
    BY DEF ListenerApart, Listener
  <2>3. /\ Listener # None =>
             LastOperation'[Listener] = "IOAccept" /\ Listener \notin receiving'
        /\ main' = "associate" => main = "associate" /\ ls_' = ls_
    BY DEF ListenerApart, Listener
  <2>4. \A v \in Workers : pc[v] = "free" => pc'[v] = "free" /\ cur'[v] = cur[v]
    OBVIOUS
  <2> QED BY <2>1, <2>2, <2>3, <2>4, HandlesKept

<1> QED BY <1>Quiet

(* A worker handles the completion of an AcceptEx. *)
LEMMA AcceptHandles ==
  ASSUME OwnershipInvariant, HandleInvariant, UNCHANGED serverVars,
         NEW w \in Workers, AcceptStep(w)
  PROVE  HandleInvariant'
<1> USE HandlerAssumption
    DEF OwnershipInvariant, ServerTypeOK, HandlerTypeOK, HandleInvariant, Goto,
        serverVars, engineVars, registryVars, contextVars, connVars, threadVars,
        socketVars, acceptVars, ioVars
<1>Quiet. CASE \/ DispatchAccept(w)
               \/ AcceptFails(w)
               \/ AssociateFails(w)
               \/ PushContext(w)
               \/ RegisterConnection(w)
  <2> USE <1>Quiet DEF DispatchAccept, Dispatch, HasWork, AcceptFails,
                       LeaveThread, AssociateFails, CanHandleAccept,
                       PushContext, RegisterConnection
  <2>1. Listener # None /\ AcceptPending' => AcceptPending
    BY DEF AcceptPending, Queued, Listener
  <2>2. \A v \in Workers : cur'[v] # None => cur'[v] # Listener
    BY DEF ListenerApart, Listener
  <2>3. /\ Listener # None =>
             LastOperation'[Listener] = "IOAccept" /\ Listener \notin receiving'
        /\ main' = "associate" => main = "associate" /\ ls_' = ls_
    BY DEF ListenerApart, Listener
  <2>4. \A v \in Workers : pc[v] = "free" => pc'[v] = "free" /\ cur'[v] = cur[v]
    OBVIOUS
  <2> QED BY <2>1, <2>2, <2>3, <2>4, HandlesKept

<1>HandleAccept. CASE HandleAccept(w)
  <2> USE <1>HandleAccept DEF HandleAccept, CanHandleAccept
  <2>1. PICK n \in Contexts :
          /\ NewContext(n, SocketAccept[Listener], "IOConnect")
          /\ cur' = [cur EXCEPT ![w] = n]
    BY DEF ThreadsConsistent, Listener
  <2>2. job[w].key = Listener /\ Listener # None
    BY DEF ThreadsConsistent, Packet, Listener
  <2>3. Listener \in live /\ Listener \in Contexts /\ n # Listener
    BY <2>1, <2>2, ListenerHeld DEF NewContext
  <2>4. /\ SocketAccept[Listener] \in open
        /\ \A c \in live : socket[c] # SocketAccept[Listener]
    BY <2>2 DEF AcceptedApart, AcceptPending
  <2>5. DistinctHandles'
    BY <2>1, <2>4 DEF DistinctHandles, NewContext
  <2>6. ~AcceptPending'
    BY <2>2, ListenerHeld DEF AcceptPending, Queued, Listener
  <2>7. ConnectionContexts'
    <3>1. socket'[n] # None /\ SocketAccept'[n] = None
      BY <2>1, <2>4 DEF NewContext
    <3> QED BY <2>1, <3>1 DEF ConnectionContexts, NewContext, Listener
  <2>8. ListenerApart'
    BY <2>1, <2>3 DEF ListenerApart, NewContext, Listener
  <2> QED BY <2>5, <2>6, <2>7, <2>8 DEF AcceptedApart

<1>Rearm. CASE Rearm(w)
  <2>1. Listener # None
    BY <1>Rearm DEF Rearm, ThreadsConsistent, Packet, Listener
  <2>2. \A v \in Workers : cur'[v] # None => cur'[v] # Listener
    BY <1>Rearm DEF Rearm, EndJob, ListenerApart, Listener
  <2>3. \A v \in Workers : pc[v] = "free" => pc'[v] = "free" /\ cur'[v] = cur[v]
    BY <1>Rearm DEF Rearm, EndJob
  <2> QED BY <1>Rearm, <2>1, <2>2, <2>3, AcceptPosted DEF Rearm, Listener

<1>RearmFails. CASE RearmFails(w)
  <2> USE <1>RearmFails DEF RearmFails, StartAcceptFails, LeaveThread
  <2>1. job[w].key = Listener /\ Listener # None
    BY DEF ThreadsConsistent, Packet, Listener
  <2>2. DistinctHandles'
    BY DEF DistinctHandles
  <2>3. ~AcceptPending'
    BY <2>1, ListenerHeld DEF AcceptPending, Queued, Listener
  <2>4. ConnectionContexts'
    BY <2>1, ListenerHeld DEF ConnectionContexts, Listener
  <2>5. ListenerApart'
    BY DEF ListenerApart, Listener
  <2> QED BY <2>2, <2>3, <2>4, <2>5 DEF AcceptedApart

<1> QED BY <1>Quiet, <1>HandleAccept, <1>Rearm, <1>RearmFails
        DEF AcceptStep

(* A worker handles received data, or an application sends from a callback. *)
LEMMA ReceiveHandles ==
  ASSUME OwnershipInvariant, HandleInvariant, UNCHANGED serverVars,
         NEW w \in Workers, ReceiveStep(w) \/ CallbackSend(w)
  PROVE  HandleInvariant'
<1> USE HandlerAssumption
    DEF OwnershipInvariant, ServerTypeOK, HandlerTypeOK, HandleInvariant, Goto,
        serverVars, engineVars, registryVars, contextVars, connVars, threadVars,
        socketVars, acceptVars, ioVars
<1>Quiet. CASE \/ DispatchReceive(w)
               \/ HandleReceive(w)
               \/ CallbackSend(w)
               \/ CallbackReturns(w)
               \/ PostReceive(w)
               \/ PostReceiveFails(w)
  <2> USE <1>Quiet DEF DispatchReceive, Dispatch, HasWork, HandleReceive,
                       CallbackSend, CallbackReturns, PostReceive, Return,
                       EndJob, PostReceiveFails
  <2>1. Listener # None /\ AcceptPending' => AcceptPending
    BY DEF AcceptPending, Queued, Listener, NoPacket
  <2>2. \A v \in Workers : cur'[v] # None => cur'[v] # Listener
    BY DEF ListenerApart, Listener
  <2>3. /\ Listener # None =>
             LastOperation'[Listener] = "IOAccept" /\ Listener \notin receiving'
        /\ main' = "associate" => main = "associate" /\ ls_' = ls_
    BY DEF ListenerApart, Listener, ThreadsConsistent
  <2>4. \A v \in Workers : pc[v] = "free" => pc'[v] = "free" /\ cur'[v] = cur[v]
    OBVIOUS
  <2> QED BY <2>1, <2>2, <2>3, <2>4, HandlesKept

<1> QED BY <1>Quiet
        DEF ReceiveStep

(* A worker disconnects. *)
LEMMA DisconnectHandles ==
  ASSUME OwnershipInvariant, HandleInvariant, UNCHANGED serverVars,
         NEW w \in Workers, DisconnectStep(w)
  PROVE  HandleInvariant'
<1> USE HandlerAssumption
    DEF OwnershipInvariant, ServerTypeOK, HandlerTypeOK, HandleInvariant, Goto,
        serverVars, engineVars, registryVars, contextVars, connVars, threadVars,
        socketVars, acceptVars, ioVars
<1>Quiet. CASE \/ DispatchDisconnect(w)
               \/ RefuseDisconnect(w)
               \/ EnterDisconnect(w)
               \/ NotifyDisconnected(w)
               \/ EraseConnection(w)
  <2> USE <1>Quiet DEF DispatchDisconnect, Dispatch, HasWork, RefuseDisconnect,
                       Return, EndJob, EnterDisconnect, NotifyDisconnected,
                       EraseConnection
  <2>1. Listener # None /\ AcceptPending' => AcceptPending
    BY DEF AcceptPending, Queued, Listener, NoPacket
  <2>2. \A v \in Workers : cur'[v] # None => cur'[v] # Listener
    BY DEF ListenerApart, Listener
  <2>3. /\ Listener # None =>
             LastOperation'[Listener] = "IOAccept" /\ Listener \notin receiving'
        /\ main' = "associate" => main = "associate" /\ ls_' = ls_
    BY DEF ListenerApart, Listener
  <2>4. \A v \in Workers : pc[v] = "free" => pc'[v] = "free" /\ cur'[v] = cur[v]
    OBVIOUS
  <2> QED BY <2>1, <2>2, <2>3, <2>4, HandlesKept

<1>CloseSocket. CASE CloseSocket(w)
  <2> USE <1>CloseSocket DEF CloseSocket
  <2>1. cur[w] \in Contexts /\ cur[w] # None /\ cur[w] # Listener
    BY DEF ThreadsConsistent, ListenerApart
  <2>2. cur[w] \in live
    BY <2>1 DEF NoDanglingContext, Holds
  <2>3. open' = open \ {socket[cur[w]]}
    BY <2>1, <2>2 DEF ConnectionContexts
  <2>4. DistinctHandles'
    BY <2>1, <2>2, <2>3 DEF DistinctHandles
  <2>5. AcceptPending' => AcceptPending
    BY DEF AcceptPending, Queued, Listener
  <2>6. AcceptedApart'
    BY <2>1, <2>2, <2>3, <2>5 DEF AcceptedApart, Listener
  <2>7. ConnectionContexts'
    BY <2>1 DEF ConnectionContexts, Listener
  <2>8. ListenerApart'
    BY DEF ListenerApart, Listener, StartsQuiet, BeforeUp
  <2> QED BY <2>4, <2>6, <2>7, <2>8

<1>FreeContext. CASE FreeContext(w)
  <2> USE <1>FreeContext DEF FreeContext, Return, EndJob
  <2>1. DistinctHandles'
    BY DEF DistinctHandles
  <2>2. AcceptPending' => AcceptPending
    BY DEF AcceptPending, Queued, Listener, NoPacket
  <2>3. AcceptedApart'
    BY <2>2 DEF AcceptedApart, Listener
  <2>4. ConnectionContexts'
    BY DEF ConnectionContexts, Listener
  <2>5. ListenerApart'
    BY DEF ListenerApart, Listener
  <2> QED BY <2>1, <2>3, <2>4, <2>5

<1> QED BY <1>Quiet, <1>CloseSocket, <1>FreeContext
        DEF DisconnectStep

(* The system completes an operation, or two workers race. *)
LEMMA SystemHandles ==
  ASSUME OwnershipInvariant, HandleInvariant, UNCHANGED serverVars, SystemStep
  PROVE  HandleInvariant'
<1> USE HandlerAssumption
    DEF OwnershipInvariant, ServerTypeOK, HandlerTypeOK, HandleInvariant, Goto,
        serverVars, engineVars, registryVars, contextVars, connVars, threadVars,
        socketVars, acceptVars, ioVars
<1>Quiet. CASE \/ \E c \in accepting : CompleteAccept(c)
               \/ \E c \in accepting : AbortAccept(c)
               \/ \E c \in receiving, r \in Results : CompleteReceive(c, r)
               \/ DataRace
  <2> USE <1>Quiet DEF CompleteAccept, AbortAccept, CompleteReceive, DataRace
  <2>1. Listener # None /\ AcceptPending' => AcceptPending
    BY DEF AcceptPending, Queued, Listener, ListenerApart, ListenerFirst
  <2>2. \A v \in Workers : cur'[v] # None => cur'[v] # Listener
    BY DEF ListenerApart, Listener
  <2>3. /\ Listener # None =>
             LastOperation'[Listener] = "IOAccept" /\ Listener \notin receiving'
        /\ main' = "associate" => main = "associate" /\ ls_' = ls_
    BY DEF ListenerApart, Listener
  <2>4. \A v \in Workers : pc[v] = "free" => pc'[v] = "free" /\ cur'[v] = cur[v]
    OBVIOUS
  <2> QED BY <2>1, <2>2, <2>3, <2>4, HandlesKept

<1> QED BY <1>Quiet
        DEF SystemStep

(* The thread that owns the server executes Start. *)
LEMMA StartHandles ==
  ASSUME OwnershipInvariant, HandleInvariant, StartStep
  PROVE  HandleInvariant'
<1> USE HandlerAssumption
    DEF OwnershipInvariant, ServerTypeOK, HandlerTypeOK, HandleInvariant, Goto,
        serverVars, engineVars, registryVars, contextVars, connVars, threadVars,
        socketVars, acceptVars, ioVars
<1> USE DEF MainGoto, handlerVars
<1>Quiet. CASE \/ StartHandler
               \/ CreateEventFails
               \/ \E w \in Workers : StartWorker(w)
               \/ StartWorkerFails
               \/ HandlerStarted
               \/ StartFails
  <2> USE <1>Quiet DEF StartHandler, InitHandler, CreateEventFails, StartWorker,
                       CreateWorker, StartWorkerFails, CreateWorkerFails,
                       HandlerStarted, SetRunning, StartFails
  <2>1. Listener # None /\ AcceptPending' => AcceptPending
    BY DEF AcceptPending, Queued, Listener
  <2>2. \A v \in Workers : cur'[v] # None => cur'[v] # Listener
    BY DEF ListenerApart, Listener
  <2>3. /\ Listener # None =>
             LastOperation'[Listener] = "IOAccept" /\ Listener \notin receiving'
        /\ main' = "associate" => main = "associate" /\ ls_' = ls_
    BY DEF ListenerApart, Listener
  <2>4. \A v \in Workers : pc[v] = "free" => pc'[v] = "free" /\ cur'[v] = cur[v]
    OBVIOUS
  <2> QED BY <2>1, <2>2, <2>3, <2>4, HandlesKept

<1>CreateListener. CASE CreateListener
  <2> USE <1>CreateListener DEF CreateListener
  <2>1. Listener = None /\ live = {}
    BY DEF StartsQuiet, BeforeUp, ListenerFirst
  <2>2. DistinctHandles' /\ AcceptedApart' /\ ConnectionContexts'
    BY <2>1 DEF DistinctHandles, AcceptedApart, ConnectionContexts, Listener
  <2>3. ListenerApart'
    BY <2>1 DEF ListenerApart, Listener
  <2> QED BY <2>2, <2>3

<1>ListenFails. CASE ListenFails
  <2> USE <1>ListenFails DEF ListenFails
  <2>1. Listener = None /\ live = {}
    BY DEF StartsQuiet, BeforeUp, ListenerFirst
  <2>2. DistinctHandles' /\ AcceptedApart' /\ ConnectionContexts'
    BY <2>1 DEF DistinctHandles, AcceptedApart, ConnectionContexts, Listener
  <2>3. ListenerApart'
    BY <2>1 DEF ListenerApart, Listener
  <2> QED BY <2>2, <2>3

<1>InitAccept. CASE InitAccept
  <2> USE <1>InitAccept DEF InitAccept, NewContext
  <2>1. PICK n \in Contexts :
          NewContext(n, ls_, "IOAccept") /\ the_socket_context_' = n
    OBVIOUS
  <2>2. live = {} /\ live' = {n}
    BY <2>1 DEF StartsQuiet, BeforeUp, ListenerFirst
  <2>3. ls_ \in open /\ socket'[n] = ls_
    BY <2>1 DEF ListenerApart
  <2>4. DistinctHandles' /\ ConnectionContexts'
    BY <2>1, <2>2, <2>3 DEF DistinctHandles, ConnectionContexts, Listener
  <2>5. ~AcceptPending'
    BY DEF AcceptPending, Queued, StartsQuiet, BeforeUp
  <2>6. ListenerApart'
    BY <2>1 DEF ListenerApart, Listener, StartsQuiet, BeforeUp, ThreadsConsistent
  <2> QED BY <2>4, <2>5, <2>6 DEF AcceptedApart

<1>InitAcceptFails. CASE InitAcceptFails
  <2> USE <1>InitAcceptFails DEF InitAcceptFails
  <2>1. UNCHANGED the_socket_context_
    BY DEF StartsQuiet, BeforeUp, Listener
  <2>2. AcceptPending' => AcceptPending
    BY <2>1 DEF AcceptPending, Queued, Listener
  <2>3. Listener = None
    BY DEF StartsQuiet, BeforeUp
  <2> QED BY <2>1, <2>2, <2>3, HandlesKept DEF Listener

<1>ArmListener. CASE ArmListener
  <2>1. Listener # None
    BY <1>ArmListener DEF ArmListener, StartsQuiet, BeforeUp
  <2>2. \A v \in Workers : cur'[v] # None => cur'[v] # Listener
    BY <1>ArmListener DEF ArmListener, ListenerApart, Listener
  <2> QED BY <1>ArmListener, <2>1, <2>2, AcceptPosted DEF ArmListener, Listener

<1>ArmListenerFails. CASE ArmListenerFails
  <2> USE <1>ArmListenerFails DEF ArmListenerFails, StartAcceptFails
  <2>1. DistinctHandles'
    BY DEF DistinctHandles
  <2>2. ~AcceptPending'
    BY DEF AcceptPending, Queued, Listener, StartsQuiet, BeforeUp
  <2>3. ConnectionContexts'
    BY DEF ConnectionContexts, Listener, StartsQuiet, BeforeUp
  <2>4. ListenerApart'
    BY DEF ListenerApart, Listener
  <2> QED BY <2>1, <2>2, <2>3, <2>4 DEF AcceptedApart

<1> QED BY <1>Quiet, <1>CreateListener, <1>ListenFails, <1>InitAccept,
           <1>InitAcceptFails, <1>ArmListener, <1>ArmListenerFails
        DEF StartStep

(* The thread that owns the server executes Stop. *)
LEMMA StopHandles ==
  ASSUME OwnershipInvariant, HandleInvariant, StopStep
  PROVE  HandleInvariant'
<1> USE HandlerAssumption
    DEF OwnershipInvariant, ServerTypeOK, HandlerTypeOK, HandleInvariant, Goto,
        serverVars, engineVars, registryVars, contextVars, connVars, threadVars,
        socketVars, acceptVars, ioVars
<1> USE DEF MainGoto, handlerVars
<1>Quiet. CASE \/ BeginStop
               \/ PostExitPackets
               \/ WaitForWorkers
               \/ CloseNoListener
  <2> USE <1>Quiet DEF BeginStop, PostExitPackets, PostPackets, WaitForWorkers,
                       CloseNoListener
  <2>1. Listener # None /\ AcceptPending' => AcceptPending
    BY DEF AcceptPending, Queued, Listener
  <2>2. \A v \in Workers : cur'[v] # None => cur'[v] # Listener
    BY DEF ListenerApart, Listener
  <2>3. /\ Listener # None =>
             LastOperation'[Listener] = "IOAccept" /\ Listener \notin receiving'
        /\ main' = "associate" => main = "associate" /\ ls_' = ls_
    BY DEF ListenerApart, Listener
  <2>4. \A v \in Workers : pc[v] = "free" => pc'[v] = "free" /\ cur'[v] = cur[v]
    OBVIOUS
  <2> QED BY <2>1, <2>2, <2>3, <2>4, HandlesKept

<1>CloseListener. CASE CloseListener
  <2> USE <1>CloseListener DEF CloseListener
  <2>1. Listener \in Contexts /\ Listener \in live
    BY DEF Listener, NoDanglingContext
  <2>2. DistinctHandles'
    BY <2>1 DEF DistinctHandles, Listener
  <2>3. AcceptPending' => AcceptPending
    BY DEF AcceptPending, Queued, Listener
  <2>4. AcceptedApart'
    BY <2>1, <2>3 DEF AcceptedApart, Listener
  <2>5. ConnectionContexts'
    BY <2>1 DEF ConnectionContexts, Listener
  <2>6. ListenerApart'
    BY DEF ListenerApart, Listener
  <2> QED BY <2>2, <2>4, <2>5, <2>6

<1> QED BY <1>Quiet, <1>CloseListener
        DEF StopStep

-----------------------------------------------------------------------------
(* The theorems *)

(* Before Start there is no handle and no context. *)
LEMMA HandleInit == Init => HandleInvariant
BY HandlerAssumption
   DEF Init, HandlerInit, HandleInvariant, DistinctHandles, AcceptedApart,
       ConnectionContexts, ListenerApart, Listener

(* Every step of the server keeps the invariant. *)
LEMMA HandleStep ==
  OwnershipInvariant /\ HandleInvariant /\ [Next]_vars => HandleInvariant'
<1> SUFFICES ASSUME OwnershipInvariant, HandleInvariant, [Next]_vars
             PROVE  HandleInvariant'
  OBVIOUS
<1>1. CASE MainStep
  BY <1>1, StartHandles, StopHandles DEF MainStep
<1>2. CASE EngineStep
  <2>1. UNCHANGED serverVars
    BY <1>2 DEF EngineStep
  <2>2. ASSUME NEW w \in Workers, WorkerStep(w) \/ CallbackSend(w)
        PROVE  HandleInvariant'
    BY <2>1, <2>2, DequeueHandles, AcceptHandles, ReceiveHandles,
       DisconnectHandles
    DEF WorkerStep, Dequeue
  <2> QED BY <1>2, <2>1, <2>2, SystemHandles DEF EngineStep
<1>3. CASE UNCHANGED vars
  <2> USE <1>3
      DEF vars, handlerVars, serverVars, engineVars, registryVars, contextVars,
          connVars, threadVars, socketVars, acceptVars, ioVars
  <2>1. AcceptPending' => AcceptPending
    BY DEF AcceptPending, Queued, Listener
  <2> QED BY <2>1, HandlesKept DEF HandleInvariant, ListenerApart, Listener
<1> QED BY <1>1, <1>2, <1>3 DEF Next

(* The invariant of the handles, for every number of them. *)
THEOREM HandleInvariantHolds == Spec => []HandleInvariant
<1>1. Init => HandleInvariant
  BY HandleInit
<1>2. OwnershipInvariant /\ HandleInvariant /\ [Next]_vars => HandleInvariant'
  BY HandleStep
<1> QED BY <1>1, <1>2, OwnershipInvariantHolds, PTL DEF Spec

(* No two contexts share a handle, in spite of handle reuse: a closesocket  *)
(* never closes the handle of another connection.                           *)
THEOREM HandlesDistinct == Spec => []DistinctHandles
<1>1. HandleInvariant => DistinctHandles
  BY DEF HandleInvariant
<1> QED BY <1>1, HandleInvariantHolds, PTL

(* The unlocked push_front and insertion have one worker at a time, the one *)
(* that holds the listener's context.                                       *)
THEOREM OneInserter == Spec => []InsertsSerialized
<1>1. OwnershipInvariant => InsertsSerialized
  <2> SUFFICES ASSUME OwnershipInvariant, NEW v \in Workers, NEW w \in Workers,
                      pc[v] \in {"list", "register"}, pc[w] \in {"list", "register"}
               PROVE  v = w
    BY DEF InsertsSerialized
  <2>1. job[v].key = Listener /\ job[w].key = Listener /\ Listener # None
    BY HandlerAssumption
    DEF OwnershipInvariant, ServerTypeOK, HandlerTypeOK, ThreadsConsistent, Packet
  <2> QED BY <2>1, ListenerHeld
<1> QED BY <1>1, OwnershipInvariantHolds, PTL

(* Workers race on the containers, and never on the entry of one connection.*)
THEOREM RacesApart == Spec => []RacesOnOtherEntries
<1>1. OwnershipInvariant /\ HandleInvariant => RacesOnOtherEntries
  <2> SUFFICES ASSUME OwnershipInvariant, HandleInvariant,
                      NEW v \in Workers, NEW w \in Workers, v # w, Racing(v, w)
               PROVE  cur[v] # cur[w] /\ socket[cur[v]] # socket[cur[w]]
    BY DEF RacesOnOtherEntries
  <2> USE HandlerAssumption
      DEF OwnershipInvariant, ServerTypeOK, HandlerTypeOK, HandleInvariant
  <2>1. pc[v] \in MapAccess \cup {"list"} /\ pc[w] \in MapAccess \cup {"free"}
    BY DEF Racing
  <2>2. cur[v] \in Contexts /\ cur[w] \in Contexts
    BY <2>1 DEF MapAccess, ThreadsConsistent
  <2>3. cur[v] \in Holds(v) /\ cur[w] \in Holds(w)
    BY <2>2 DEF Holds
  <2>4. cur[v] # cur[w] /\ cur[v] \in live /\ cur[w] \in live
    BY <2>3 DEF SingleOwner, NoDanglingContext
  <2>5. socket[cur[v]] # None
    <3>1. \A u \in Workers : pc[u] = "free" => cur[u] # cur[v]
      <4> SUFFICES ASSUME NEW u \in Workers, pc[u] = "free", cur[u] = cur[v]
                   PROVE  FALSE
        OBVIOUS
      <4>1. u # v
        BY <2>1 DEF MapAccess
      <4>2. cur[v] \in Holds(u)
        BY <2>2 DEF Holds
      <4> QED BY <2>3, <4>1, <4>2 DEF SingleOwner
    <3> QED BY <2>2, <2>4, <3>1 DEF ConnectionContexts, ListenerApart
  <2> QED BY <2>4, <2>5 DEF DistinctHandles
<1> QED BY <1>1, OwnershipInvariantHolds, HandleInvariantHolds, PTL

-----------------------------------------------------------------------------
(* Exit packets *)

(* Exit packets come from Stop alone. *)
LEMMA ExitInvariantHolds == Spec => []ExitInvariant
<1> DEFINE Posted ==
             /\ exitPackets > 0 \/ main \in {"post", "wait", "close", "done"} => exiting_
             /\ ExitPacketMeansExiting
           Got == \A w \in Workers : pc[w] = "got" => job[w] # NoPacket
<1> USE DEF ExitPacketMeansExiting, ExitPacket
<1>1. Init => Posted
  BY DEF Init, HandlerInit, NoPacket
<1>2. OwnershipInvariant /\ Posted /\ [Next]_vars => Posted'
  <2> SUFFICES ASSUME OwnershipInvariant, Posted, [Next]_vars
               PROVE  Posted'
    OBVIOUS
  <2> USE DEF OwnershipInvariant, ServerTypeOK, HandlerTypeOK, engineVars,
              threadVars, ioVars, serverVars, handlerVars, acceptVars
  <2>1. CASE StartStep
    BY <2>1
    DEF StartStep, StartHandler, InitHandler, CreateEventFails, StartWorker,
        CreateWorker, StartWorkerFails, CreateWorkerFails, HandlerStarted,
        SetRunning, CreateListener, ListenFails, InitAccept, InitAcceptFails,
        ArmListener, ArmListenerFails, StartFails, MainGoto
  <2>2. CASE StopStep
    BY <2>2, WorkersCounted
    DEF StopStep, BeginStop, PostExitPackets, PostPackets, WaitForWorkers,
        CloseListener, CloseNoListener, MainGoto
  <2>3. CASE EngineStep
    <3>1. UNCHANGED serverVars
      BY <2>3 DEF EngineStep
    <3>2. ASSUME NEW w \in Workers, Dequeue(w) \/ StopWorker(w)
          PROVE  Posted'
      <4>1. CASE \E p \in port : GetPacket(w, p)
        <5>1. PICK p \in port : GetPacket(w, p)
          BY <4>1
        <5>2. p # ExitPacket
          BY <5>1, HandlerAssumption DEF Packet
        <5>3. \A v \in Workers : job'[v] = ExitPacket => job[v] = ExitPacket
          BY <5>1, <5>2 DEF GetPacket
        <5> QED BY <3>1, <5>1, <5>3 DEF GetPacket
      <4>2. CASE GetExitPacket(w)
        BY <3>1, <4>2, WorkersCounted DEF GetExitPacket
      <4>3. CASE StopWorker(w)
        BY <3>1, <4>3 DEF StopWorker, LeaveThread, NoPacket
      <4> QED BY <3>2, <4>1, <4>2, <4>3 DEF Dequeue
    <3>3. ASSUME NEW w \in Workers, AcceptStep(w)
          PROVE  Posted'
      BY <3>1, <3>3
      DEF AcceptStep, DispatchAccept, Dispatch, AcceptFails, HandleAccept,
          AssociateFails, PushContext, RegisterConnection, Rearm, RearmFails,
          EndJob, LeaveThread, NoPacket
    <3>4. ASSUME NEW w \in Workers, ReceiveStep(w) \/ CallbackSend(w)
          PROVE  Posted'
      BY <3>1, <3>4
      DEF ReceiveStep, DispatchReceive, Dispatch, HandleReceive, CallbackReturns,
          PostReceive, PostReceiveFails, CallbackSend, Return, EndJob, NoPacket
    <3>5. ASSUME NEW w \in Workers, DisconnectStep(w)
          PROVE  Posted'
      BY <3>1, <3>5
      DEF DisconnectStep, DispatchDisconnect, Dispatch, RefuseDisconnect,
          EnterDisconnect, NotifyDisconnected, EraseConnection, CloseSocket,
          FreeContext, Return, EndJob, NoPacket
    <3>6. ASSUME SystemStep
          PROVE  Posted'
      BY <3>1, <3>6
      DEF SystemStep, CompleteAccept, AbortAccept, CompleteReceive, DataRace
    <3> QED BY <2>3, <3>2, <3>3, <3>4, <3>5, <3>6 DEF EngineStep, WorkerStep
  <2>4. CASE UNCHANGED vars
    BY <2>4 DEF vars
  <2> QED BY <2>1, <2>2, <2>3, <2>4 DEF Next, MainStep
<1>3. Init => Got
  BY DEF Init, HandlerInit
<1>4. OwnershipInvariant /\ Got /\ [Next]_vars => Got'
  <2> SUFFICES ASSUME OwnershipInvariant, Got, [Next]_vars
               PROVE  Got'
    OBVIOUS
  <2> USE DEF OwnershipInvariant, ServerTypeOK, HandlerTypeOK, threadVars,
              handlerVars, Goto
  <2>1. CASE UNCHANGED <<pc, job>>
    BY <2>1
  <2>2. CASE StartStep
    BY <2>1, <2>2
    DEF StartStep, StartHandler, InitHandler, CreateEventFails, StartWorker,
        CreateWorker, StartWorkerFails, CreateWorkerFails, HandlerStarted,
        SetRunning, CreateListener, ListenFails, InitAccept, InitAcceptFails,
        ArmListener, ArmListenerFails, StartFails
  <2>3. CASE StopStep
    BY <2>1, <2>3
    DEF StopStep, BeginStop, PostExitPackets, PostPackets, WaitForWorkers,
        CloseListener, CloseNoListener
  <2>4. ASSUME NEW w \in Workers, Dequeue(w) \/ StopWorker(w)
        PROVE  Got'
    <3>1. job'[w] # NoPacket \/ pc'[w] = "exited"
      BY <2>4, HandlerAssumption
      DEF Dequeue, GetPacket, GetExitPacket, StopWorker, LeaveThread, Packet,
          ExitPacket, NoPacket
    <3>2. \A v \in Workers \ {w} : pc'[v] = pc[v] /\ job'[v] = job[v]
      BY <2>4 DEF Dequeue, GetPacket, GetExitPacket, StopWorker, LeaveThread
    <3> QED BY <3>1, <3>2
  <2>5. ASSUME NEW w \in Workers,
               AcceptStep(w) \/ ReceiveStep(w) \/ CallbackSend(w) \/ DisconnectStep(w)
        PROVE  Got'
    <3>1. CASE AcceptStep(w)
      BY <3>1
      DEF AcceptStep, DispatchAccept, Dispatch, AcceptFails, HandleAccept,
          AssociateFails, PushContext, RegisterConnection, Rearm, RearmFails,
          EndJob, LeaveThread
    <3>2. CASE ReceiveStep(w) \/ CallbackSend(w)
      BY <3>2
      DEF ReceiveStep, DispatchReceive, Dispatch, HandleReceive, CallbackReturns,
          PostReceive, PostReceiveFails, CallbackSend, Return, EndJob
    <3>3. CASE DisconnectStep(w)
      BY <3>3
      DEF DisconnectStep, DispatchDisconnect, Dispatch, RefuseDisconnect,
          EnterDisconnect, NotifyDisconnected, EraseConnection, CloseSocket,
          FreeContext, Return, EndJob
    <3> QED BY <2>5, <3>1, <3>2, <3>3
  <2>6. CASE SystemStep
    BY <2>1, <2>6
    DEF SystemStep, CompleteAccept, AbortAccept, CompleteReceive, DataRace
  <2> QED BY <2>1, <2>2, <2>3, <2>4, <2>5, <2>6
          DEF Next, MainStep, EngineStep, WorkerStep, vars
<1>5. Posted /\ Got => ExitInvariant
  BY DEF ExitInvariant
<1> QED BY <1>1, <1>2, <1>3, <1>4, <1>5, OwnershipInvariantHolds, PTL DEF Spec

(* A worker that dequeues an exit packet sees exiting_, and never reads     *)
(* through its NULL overlapped pointer.                                     *)
THEOREM ExitPacketSafe == Spec => []ExitPacketMeansExiting
<1>1. ExitInvariant => ExitPacketMeansExiting
  BY DEF ExitInvariant
<1> QED BY <1>1, ExitInvariantHolds, PTL

-----------------------------------------------------------------------------
(* The accept chain *)

(* The listener's context is outstanding, queued, or with a worker. *)
ChainCarried ==
  /\ Listener # None
  /\ Listener \in accepting \cup Queued \/ \E w \in Workers : job[w].key = Listener

(* This is all of the accept chain, since no worker takes the listener's    *)
(* context for a connection's, and nothing is received on it.               *)
LEMMA ChainIsCarried ==
  OwnershipInvariant /\ HandleInvariant => (AcceptChain <=> ChainCarried)
<1> SUFFICES ASSUME OwnershipInvariant, HandleInvariant
             PROVE  AcceptChain <=> ChainCarried
  OBVIOUS
<1> USE HandlerAssumption
    DEF OwnershipInvariant, ServerTypeOK, HandlerTypeOK, HandleInvariant
<1>1. CASE Listener = None
  <2>1. None \notin InFlight
    BY DEF InFlight, Queued, Packet
  <2> QED BY <1>1, <2>1 DEF AcceptChain, ChainCarried, Holds
<1>2. CASE Listener # None
  <2>1. Listener \in InFlight <=> Listener \in accepting \cup Queued
    BY <1>2 DEF ListenerApart, InFlight
  <2>2. \A w \in Workers : Listener \in Holds(w) <=> job[w].key = Listener
    BY <1>2 DEF ListenerApart, Holds
  <2> QED BY <1>2, <2>1, <2>2 DEF AcceptChain, ChainCarried
<1> QED BY <1>1, <1>2

(* A step after which the chain is where it was, or elsewhere. *)
LEMMA ChainKept ==
  ASSUME OwnershipInvariant, HandleInvariant, ChainInvariant,
         OwnershipInvariant', HandleInvariant',
         ChainCarried' <=> ChainCarried,
         Listener' # None <=> Listener # None, started' = started,
         exiting_ => exiting_', refused => refused', isrunning_ => isrunning_',
         main' \in BeforeUp => main \in BeforeUp,
         main' \in {"listen", "associate", "arm"} =>
           main \in {"listen", "associate", "arm"} \/ isrunning_',
         \A v \in Workers : pc'[v] = "exited" <=> pc[v] = "exited"
  PROVE  ChainInvariant'
<1> USE DEF ChainInvariant
<1>1. AcceptChain' <=> AcceptChain
  <2>1. AcceptChain <=> ChainCarried
    BY ChainIsCarried
  <2>2. AcceptChain' <=> ChainCarried'
    BY ChainIsCarried, PTL
  <2> QED BY <2>1, <2>2
<1>2. AcceptChainUnlessLost'
  BY <1>1 DEF AcceptChainUnlessLost
<1>3. LostWorkerEndsAccepting'
  BY <1>1 DEF LostWorkerEndsAccepting
<1> QED BY <1>2, <1>3

(* A refused AcceptEx ends the chain, and is not forgotten. *)
LEMMA ChainRefused ==
  ASSUME ChainInvariant, refused', Listener' = Listener,
         main' \in BeforeUp => main \in BeforeUp,
         isrunning_' = isrunning_, started => started',
         started' => main' \notin BeforeUp /\ Listener # None,
         main' \notin {"listen", "associate", "arm"} \/ main' = main,
         \A v \in Workers : pc'[v] # "exited"
  PROVE  ChainInvariant'
BY DEF ChainInvariant, AcceptChainUnlessLost, LostWorkerEndsAccepting

(* The worker that carries the chain leaves, and no other has left before. *)
LEMMA ChainLost ==
  ASSUME OwnershipInvariant, HandleInvariant, ChainInvariant,
         OwnershipInvariant', HandleInvariant', UNCHANGED serverVars,
         UNCHANGED <<the_socket_context_, accepting, port, exiting_, isrunning_>>,
         NEW w \in Workers, job[w].key = Listener, Listener # None, LeaveThread(w)
  PROVE  ChainInvariant'
<1> USE DEF OwnershipInvariant, ServerTypeOK, HandlerTypeOK, ChainInvariant,
            LeaveThread, Goto, serverVars
<1>1. /\ \A v \in Workers \ {w} : pc'[v] = pc[v] /\ job'[v] = job[v]
      /\ pc'[w] = "exited" /\ job'[w] = NoPacket
  OBVIOUS
<1>2. ~ChainCarried'
  BY <1>1, ListenerHeld DEF ChainCarried, Listener, Queued, NoPacket
<1>3. ~AcceptChain'
  <2>1. AcceptChain' <=> ChainCarried'
    BY ChainIsCarried, PTL
  <2> QED BY <1>2, <2>1
<1>4. ~exiting_ => \A v \in Workers : pc[v] # "exited"
  <2>1. AcceptChain
    BY ChainIsCarried DEF ChainCarried
  <2> QED BY <2>1 DEF LostWorkerEndsAccepting
<1>5. LostWorkerEndsAccepting'
  BY <1>1, <1>3, <1>4 DEF LostWorkerEndsAccepting
<1>6. AcceptChainUnlessLost'
  BY <1>1 DEF AcceptChainUnlessLost
<1> QED BY <1>5, <1>6 DEF Listener

(* A worker takes a packet out of the port, or leaves. *)
LEMMA DequeueChain ==
  ASSUME OwnershipInvariant, HandleInvariant, ExitInvariant, ChainInvariant,
         OwnershipInvariant', HandleInvariant',
         UNCHANGED serverVars, NEW w \in Workers,
         \/ \E p \in port : GetPacket(w, p)
         \/ GetExitPacket(w)
         \/ StopWorker(w)
  PROVE  ChainInvariant'
<1> USE HandlerAssumption
    DEF OwnershipInvariant, ServerTypeOK, HandlerTypeOK, HandleInvariant, Goto,
        serverVars, engineVars, registryVars, contextVars, connVars, threadVars,
        socketVars, acceptVars, ioVars
<1>GetPacket. CASE \E p \in port : GetPacket(w, p)
  <2>1. PICK p \in port : GetPacket(w, p)
    BY <1>GetPacket
  <2> USE <2>1 DEF GetPacket
  <2>2. /\ job[w] = NoPacket /\ job'[w] = p
        /\ \A v \in Workers \ {w} : job'[v] = job[v]
    BY DEF ThreadsConsistent
  <2>3. ChainCarried' <=> ChainCarried
    <3>1. CASE p.key = Listener
      <4>1. p.key # None
        BY DEF Packet
      <4> QED BY <2>2, <3>1, <4>1 DEF ChainCarried, Listener, Queued
    <3>2. CASE p.key # Listener
      <4>1. Listener \in Queued' <=> Listener \in Queued
        BY <3>2 DEF Queued, Listener
      <4>2. (\E v \in Workers : job'[v].key = Listener) /\ Listener # None
              <=> (\E v \in Workers : job[v].key = Listener) /\ Listener # None
        BY <2>2, <3>2 DEF NoPacket
      <4> QED BY <4>1, <4>2 DEF ChainCarried, Listener
    <3> QED BY <3>1, <3>2
  <2>4. \A v \in Workers : pc'[v] = "exited" <=> pc[v] = "exited"
    OBVIOUS
  <2> QED BY <2>3, <2>4, ChainKept DEF Listener

<1>GetExitPacket. CASE GetExitPacket(w)
  <2> USE <1>GetExitPacket DEF GetExitPacket
  <2>1. job[w] = NoPacket
    BY DEF ThreadsConsistent
  <2>2. ChainCarried' <=> ChainCarried
    BY <2>1 DEF ChainCarried, Listener, Queued, NoPacket, ExitPacket
  <2>3. \A v \in Workers : pc'[v] = "exited" <=> pc[v] = "exited"
    OBVIOUS
  <2> QED BY <2>2, <2>3, ChainKept DEF Listener

<1>StopWorker. CASE StopWorker(w)
  <2> USE <1>StopWorker DEF StopWorker
  <2>1. exiting_
    <3> SUFFICES ASSUME ~isrunning_ PROVE exiting_
      OBVIOUS
    <3>1. live = {}
      BY DEF ChainInvariant, ListenerFirst
    <3>2. job[w] \notin Packet
      <4>1. job[w].key # None => job[w].key \in live
        BY DEF NoDanglingContext, Holds
      <4> QED BY <3>1, <4>1 DEF Packet
    <3>3. job[w] = ExitPacket
      BY <3>2 DEF ExitInvariant
    <3> QED BY <3>3 DEF ExitInvariant, ExitPacketMeansExiting
  <2>2. exiting_'
    BY <2>1
  <2> QED BY <2>2
          DEF ChainInvariant, AcceptChainUnlessLost, LostWorkerEndsAccepting,
              Listener

<1> QED BY <1>GetPacket, <1>GetExitPacket, <1>StopWorker

(* A worker handles the completion of an AcceptEx. *)
LEMMA AcceptChainStep ==
  ASSUME OwnershipInvariant, HandleInvariant, ExitInvariant, ChainInvariant,
         OwnershipInvariant', HandleInvariant',
         UNCHANGED serverVars, NEW w \in Workers, AcceptStep(w)
  PROVE  ChainInvariant'
<1> USE HandlerAssumption
    DEF OwnershipInvariant, ServerTypeOK, HandlerTypeOK, HandleInvariant, Goto,
        serverVars, engineVars, registryVars, contextVars, connVars, threadVars,
        socketVars, acceptVars, ioVars
<1>Quiet. CASE \/ DispatchAccept(w)
               \/ HandleAccept(w)
               \/ PushContext(w)
               \/ RegisterConnection(w)
  <2> USE <1>Quiet DEF DispatchAccept, Dispatch, HasWork, HandleAccept,
                       CanHandleAccept, PushContext, RegisterConnection
  <2>1. ChainCarried' <=> ChainCarried
    BY DEF ChainCarried, Listener, Queued
  <2>2. \A v \in Workers : pc'[v] = "exited" <=> pc[v] = "exited"
    OBVIOUS
  <2> QED BY <2>1, <2>2, ChainKept DEF Listener

<1>Lost. CASE \/ AcceptFails(w)
              \/ AssociateFails(w)
              \/ RearmFails(w)
  <2> USE <1>Lost DEF AcceptFails, AssociateFails, CanHandleAccept, RearmFails
  <2>1. job[w].key = Listener /\ Listener # None
    BY DEF ThreadsConsistent, Packet, Listener
  <2>2. LeaveThread(w)
    OBVIOUS
  <2>3. UNCHANGED <<the_socket_context_, accepting, port, exiting_, isrunning_>>
    OBVIOUS
  <2> QED BY <2>1, <2>2, <2>3, ChainLost

<1>Rearm. CASE Rearm(w)
  <2> USE <1>Rearm DEF Rearm, StartAccept, EndJob
  <2>1. job[w].key = Listener /\ Listener # None
    BY DEF ThreadsConsistent, Packet, Listener
  <2>2. \A v \in Workers : pc'[v] = "exited" <=> pc[v] = "exited"
    OBVIOUS
  <2>3. CASE accepting' = accepting \cup {Listener} /\ UNCHANGED refused
    <3>1. ChainCarried' /\ ChainCarried
      BY <2>1, <2>3 DEF ChainCarried, Listener
    <3> QED BY <2>2, <2>3, <3>1, ChainKept DEF Listener
  <2>4. CASE refused'
    <3>1. AcceptChain
      BY <2>1, ChainIsCarried DEF ChainCarried
    <3>2. ~exiting_ => \A v \in Workers : pc'[v] # "exited"
      BY <2>2, <3>1 DEF ChainInvariant, LostWorkerEndsAccepting
    <3> QED BY <2>4, <3>2
            DEF ChainInvariant, AcceptChainUnlessLost, LostWorkerEndsAccepting,
                Listener
  <2> QED BY <2>3, <2>4 DEF Listener

<1> QED BY <1>Quiet, <1>Lost, <1>Rearm DEF AcceptStep

(* A worker handles received data, or an application sends from a callback. *)
LEMMA ReceiveChain ==
  ASSUME OwnershipInvariant, HandleInvariant, ExitInvariant, ChainInvariant,
         OwnershipInvariant', HandleInvariant',
         UNCHANGED serverVars, NEW w \in Workers,
         ReceiveStep(w) \/ CallbackSend(w)
  PROVE  ChainInvariant'
<1> USE HandlerAssumption
    DEF OwnershipInvariant, ServerTypeOK, HandlerTypeOK, HandleInvariant, Goto,
        serverVars, engineVars, registryVars, contextVars, connVars, threadVars,
        socketVars, acceptVars, ioVars
<1>Quiet. CASE \/ DispatchReceive(w)
               \/ HandleReceive(w)
               \/ CallbackSend(w)
               \/ CallbackReturns(w)
               \/ PostReceive(w)
               \/ PostReceiveFails(w)
  <2> USE <1>Quiet DEF DispatchReceive, Dispatch, HasWork, HandleReceive,
                       CallbackSend, CallbackReturns, PostReceive, Return,
                       EndJob, PostReceiveFails
  <2>1. ChainCarried' <=> ChainCarried
    <3>1. \A v \in Workers :
            Listener # None => (job'[v].key = Listener <=> job[v].key = Listener)
      BY DEF ListenerApart, NoPacket, ThreadsConsistent
    <3> QED BY <3>1 DEF ChainCarried, Listener, Queued
  <2>2. \A v \in Workers : pc'[v] = "exited" <=> pc[v] = "exited"
    OBVIOUS
  <2> QED BY <2>1, <2>2, ChainKept DEF Listener

<1> QED BY <1>Quiet DEF ReceiveStep

(* A worker disconnects. *)
LEMMA DisconnectChain ==
  ASSUME OwnershipInvariant, HandleInvariant, ExitInvariant, ChainInvariant,
         OwnershipInvariant', HandleInvariant',
         UNCHANGED serverVars, NEW w \in Workers, DisconnectStep(w)
  PROVE  ChainInvariant'
<1> USE HandlerAssumption
    DEF OwnershipInvariant, ServerTypeOK, HandlerTypeOK, HandleInvariant, Goto,
        serverVars, engineVars, registryVars, contextVars, connVars, threadVars,
        socketVars, acceptVars, ioVars
<1>Quiet. CASE \/ DispatchDisconnect(w)
               \/ RefuseDisconnect(w)
               \/ EnterDisconnect(w)
               \/ NotifyDisconnected(w)
               \/ EraseConnection(w)
               \/ CloseSocket(w)
               \/ FreeContext(w)
  <2> USE <1>Quiet DEF DispatchDisconnect, Dispatch, HasWork, RefuseDisconnect,
                       Return, EndJob, EnterDisconnect, NotifyDisconnected,
                       EraseConnection, CloseSocket, FreeContext
  <2>1. ChainCarried' <=> ChainCarried
    <3>1. \A v \in Workers :
            Listener # None => (job'[v].key = Listener <=> job[v].key = Listener)
      BY DEF ListenerApart, NoPacket, ThreadsConsistent
    <3> QED BY <3>1 DEF ChainCarried, Listener, Queued
  <2>2. \A v \in Workers : pc'[v] = "exited" <=> pc[v] = "exited"
    OBVIOUS
  <2> QED BY <2>1, <2>2, ChainKept DEF Listener

<1> QED BY <1>Quiet DEF DisconnectStep

(* The system completes an operation, or two workers race. *)
LEMMA SystemChain ==
  ASSUME OwnershipInvariant, HandleInvariant, ExitInvariant, ChainInvariant,
         OwnershipInvariant', HandleInvariant',
         UNCHANGED serverVars, SystemStep
  PROVE  ChainInvariant'
<1> USE HandlerAssumption
    DEF OwnershipInvariant, ServerTypeOK, HandlerTypeOK, HandleInvariant, Goto,
        serverVars, engineVars, registryVars, contextVars, connVars, threadVars,
        socketVars, acceptVars, ioVars
<1>1. ChainCarried' <=> ChainCarried
  <2>1. ASSUME NEW c \in accepting, CompleteAccept(c) \/ AbortAccept(c)
        PROVE  ChainCarried' <=> ChainCarried
    <3>1. /\ accepting' = accepting \ {c}
          /\ \E r \in Results : port' = port \cup {[key |-> c, result |-> r]}
          /\ UNCHANGED <<the_socket_context_, job>>
      BY <2>1 DEF CompleteAccept, AbortAccept, Results
    <3>2. Queued' = Queued \cup {c}
      <4>1. PICK r \in Results : port' = port \cup {[key |-> c, result |-> r]}
        BY <3>1
      <4>2. [key |-> c, result |-> r].key = c
        OBVIOUS
      <4> QED BY ONLY <4>1, <4>2 DEF Queued
    <3> QED BY <3>1, <3>2 DEF ChainCarried, Listener
  <2>2. ASSUME NEW c \in receiving, NEW r \in Results, CompleteReceive(c, r)
        PROVE  ChainCarried' <=> ChainCarried
    <3>1. Listener # None => c # Listener
      BY DEF ListenerApart
    <3>2. Listener # None => (Listener \in Queued' <=> Listener \in Queued)
      BY <2>2, <3>1 DEF CompleteReceive, Queued, Listener
    <3> QED BY <2>2, <3>2 DEF CompleteReceive, ChainCarried, Listener
  <2>3. CASE DataRace
    BY <2>3 DEF DataRace, ChainCarried, Listener, Queued
  <2> QED BY <2>1, <2>2, <2>3 DEF SystemStep
<1>2. UNCHANGED <<pc, exiting_, isrunning_, refused, the_socket_context_>>
  BY DEF SystemStep, CompleteAccept, AbortAccept, CompleteReceive, DataRace
<1> QED BY <1>1, <1>2, ChainKept DEF Listener

(* The thread that owns the server executes Start. *)
LEMMA StartChain ==
  ASSUME OwnershipInvariant, HandleInvariant, ExitInvariant, ChainInvariant,
         OwnershipInvariant', HandleInvariant',
         StartStep
  PROVE  ChainInvariant'
<1> USE HandlerAssumption
    DEF OwnershipInvariant, ServerTypeOK, HandlerTypeOK, HandleInvariant, Goto,
        serverVars, engineVars, registryVars, contextVars, connVars, threadVars,
        socketVars, acceptVars, ioVars
<1> USE DEF MainGoto, handlerVars
<1>Quiet. CASE \/ StartHandler
               \/ CreateEventFails
               \/ \E w \in Workers : StartWorker(w)
               \/ StartWorkerFails
               \/ HandlerStarted
               \/ CreateListener
               \/ ListenFails
               \/ ArmListenerFails
               \/ StartFails
  <2> USE <1>Quiet DEF StartHandler, InitHandler, CreateEventFails, StartWorker,
                       CreateWorker, StartWorkerFails, CreateWorkerFails,
                       HandlerStarted, SetRunning, CreateListener, ListenFails,
                       ArmListenerFails, StartAcceptFails, StartFails
  <2>1. ChainCarried' <=> ChainCarried
    BY DEF ChainCarried, Listener, Queued
  <2>2. \A v \in Workers : pc'[v] = "exited" <=> pc[v] = "exited"
    OBVIOUS
  <2> QED BY <2>1, <2>2, ChainKept DEF Listener, BeforeUp

<1>NoExit. main \in BeforeUp => \A v \in Workers : pc[v] # "exited"
  BY DEF StartsQuiet

<1>InitAccept. CASE InitAccept \/ InitAcceptFails
  <2> USE <1>InitAccept DEF InitAccept, NewContext, InitAcceptFails
  <2>1. main \in BeforeUp /\ main = "associate"
    BY DEF BeforeUp
  <2>2. ~started' /\ isrunning_' /\ \A v \in Workers : pc'[v] # "exited"
    BY <2>1, <1>NoExit DEF ChainInvariant
  <2> QED BY <2>2
          DEF ChainInvariant, AcceptChainUnlessLost, LostWorkerEndsAccepting

<1>ArmListener. CASE ArmListener
  <2> USE <1>ArmListener DEF ArmListener, StartAccept
  <2>1. main \in BeforeUp /\ Listener # None /\ Listener' = Listener
    BY DEF BeforeUp, StartsQuiet, Listener
  <2>2. isrunning_' /\ \A v \in Workers : pc'[v] # "exited"
    BY <2>1, <1>NoExit DEF ChainInvariant
  <2>3. refused' \/ AcceptChain'
    BY <2>1 DEF AcceptChain, InFlight, Listener
  <2>4. main' \notin BeforeUp
    BY DEF BeforeUp
  <2> QED BY <2>1, <2>2, <2>3, <2>4
          DEF ChainInvariant, AcceptChainUnlessLost, LostWorkerEndsAccepting

<1> QED BY <1>Quiet, <1>InitAccept, <1>ArmListener DEF StartStep

(* The thread that owns the server executes Stop. *)
LEMMA StopChain ==
  ASSUME OwnershipInvariant, HandleInvariant, ExitInvariant, ChainInvariant,
         OwnershipInvariant', HandleInvariant',
         StopStep
  PROVE  ChainInvariant'
<1> USE HandlerAssumption
    DEF OwnershipInvariant, ServerTypeOK, HandlerTypeOK, HandleInvariant, Goto,
        serverVars, engineVars, registryVars, contextVars, connVars, threadVars,
        socketVars, acceptVars, ioVars
<1> USE DEF MainGoto, handlerVars
<1>Quiet. CASE \/ BeginStop
               \/ PostExitPackets
               \/ WaitForWorkers
               \/ CloseListener
               \/ CloseNoListener
  <2> USE <1>Quiet DEF BeginStop, PostExitPackets, PostPackets, WaitForWorkers,
                       CloseListener, CloseNoListener
  <2>1. ChainCarried' <=> ChainCarried
    BY DEF ChainCarried, Listener, Queued
  <2>2. \A v \in Workers : pc'[v] = "exited" <=> pc[v] = "exited"
    OBVIOUS
  <2> QED BY <2>1, <2>2, ChainKept DEF Listener, BeforeUp

<1> QED BY <1>Quiet DEF StopStep

(* Every step keeps the invariant of the accept chain. *)
LEMMA ChainInvariantHolds == Spec => []ChainInvariant
<1>1. Init => ChainInvariant
  BY DEF Init, HandlerInit, ChainInvariant, AcceptChainUnlessLost,
         LostWorkerEndsAccepting, Listener
<1>2. /\ OwnershipInvariant /\ HandleInvariant /\ ExitInvariant /\ ChainInvariant
      /\ OwnershipInvariant' /\ HandleInvariant' /\ [Next]_vars
      => ChainInvariant'
  <2> SUFFICES ASSUME OwnershipInvariant, HandleInvariant, ExitInvariant,
                      ChainInvariant, OwnershipInvariant', HandleInvariant',
                      [Next]_vars
               PROVE  ChainInvariant'
    OBVIOUS
  <2>1. CASE MainStep
    BY <2>1, StartChain, StopChain DEF MainStep
  <2>2. CASE EngineStep
    <3>1. UNCHANGED serverVars
      BY <2>2 DEF EngineStep
    <3>2. ASSUME NEW w \in Workers, WorkerStep(w) \/ CallbackSend(w)
          PROVE  ChainInvariant'
      BY <3>1, <3>2, DequeueChain, AcceptChainStep, ReceiveChain, DisconnectChain
      DEF WorkerStep, Dequeue
    <3> QED BY <2>2, <3>1, <3>2, SystemChain DEF EngineStep
  <2>3. CASE UNCHANGED vars
    <3> USE <2>3 DEF vars, handlerVars, serverVars, engineVars, threadVars,
                     acceptVars, ioVars
    <3>1. ChainCarried' <=> ChainCarried
      BY DEF ChainCarried, Listener, Queued
    <3> QED BY <3>1, ChainKept DEF Listener
  <2> QED BY <2>1, <2>2, <2>3 DEF Next
<1> QED BY <1>1, <1>2, OwnershipInvariantHolds, HandleInvariantHolds,
           ExitInvariantHolds, PTL DEF Spec

(* Until Stop the server accepts, unless a worker left or AcceptEx refused. *)
THEOREM AcceptsUnlessLost == Spec => []AcceptChainUnlessLost
<1>1. ChainInvariant => AcceptChainUnlessLost
  BY DEF ChainInvariant
<1> QED BY <1>1, ChainInvariantHolds, PTL

(* Before Stop only the worker that carries the accept chain can leave.     *)
THEOREM OneLostWorker == Spec => []LostWorkerEndsAccepting
<1>1. ChainInvariant => LostWorkerEndsAccepting
  BY DEF ChainInvariant
<1> QED BY <1>1, ChainInvariantHolds, PTL

=============================================================================
