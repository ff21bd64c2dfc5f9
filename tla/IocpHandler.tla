---------------------------- MODULE IocpHandler ----------------------------
(***************************************************************************)
(* The completion-port engine of src/net/impl/IocpHandler.hpp: the worker   *)
(* threads, the socket contexts and connections they share, the critical    *)
(* section locker_, and the operating system's side of the completion port. *)
(* TcpServer and TcpClient extend this module with the thread that starts   *)
(* and stops the handler.                                                   *)
(*                                                                          *)
(* One action stands for the code between two accesses to shared state.     *)
(* The label in pc[w] names the next access of worker w.  The operations    *)
(* handle_connect, start_connect and handle_send have no action: no caller  *)
(* ever posts a ConnectEx or a WSASend.                                     *)
(*                                                                          *)
(* Undefined behaviour ends the modelled execution: the variable undefined  *)
(* becomes TRUE and no further step is taken.                               *)
(***************************************************************************)
EXTENDS Naturals, FiniteSets

CONSTANTS
  Workers,      \* worker threads (num_worker_threads of them)
  Contexts,     \* addresses at which a socket_context can be allocated
  Sockets,      \* SOCKET handle values the system hands out, and reuses
  Conns,        \* connections peers make, and the TcpConnection of each
  None          \* NULL, INVALID_SOCKET and "no thread"

ASSUME HandlerAssumption ==
  /\ IsFiniteSet(Workers)
  /\ Workers # {}
  /\ None \notin Workers \cup Contexts \cup Sockets \cup Conns

VARIABLES
  exiting_, isrunning_,
  iocp_handle_,          \* TRUE: the completion port, FALSE: NULL
  the_socket_context_,   \* server: the listener's context; client: the connection's
  locker_,               \* thread inside the critical section, or None
  socket_contexts_,      \* std::list of socket_context pointers, as a set
  connections_           \* std::map SOCKET -> TcpConnection*; None: no entry

VARIABLES
  live,                  \* contexts allocated and not yet deleted
  socket,                \* socket_context::socket
  LastOperation,         \* io_context::LastOperation
  SocketAccept           \* io_context::SocketAccept

VARIABLES
  socket_,               \* TcpConnection::socket_
  connected_             \* TcpConnection::connected_

VARIABLES
  pc,                    \* where each worker is
  job,                   \* the packet it dequeued
  cur,                   \* the connection context it works on
  conn                   \* the connection whose callback it runs

VARIABLES
  open,                  \* handles open in the system
  peer,                  \* the connection an open handle is an endpoint of
  clients,               \* connections not made yet
  accepting, receiving,  \* contexts with an AcceptEx / a WSARecv outstanding
  port,                  \* completion packets in the port
  exitPackets            \* packets posted by exiting() and not yet dequeued

VARIABLES
  notified,              \* connections onDisconnected was called for
  strayed,               \* connections with a Send on a handle not theirs
  refused,               \* AcceptEx refused a request of start_accept()
  undefined              \* undefined behaviour was executed

engineVars   == <<exiting_, isrunning_, iocp_handle_, the_socket_context_>>
registryVars == <<socket_contexts_, connections_>>
contextVars  == <<live, socket, LastOperation, SocketAccept>>
connVars     == <<socket_, connected_, notified, strayed>>
acceptVars   == <<accepting, refused>>
threadVars   == <<pc, job, cur, conn>>
socketVars   == <<open, peer, clients>>
ioVars       == <<acceptVars, receiving, port, exitPackets>>

handlerVars == <<engineVars, locker_, registryVars, contextVars, connVars,
                 threadVars, socketVars, ioVars, undefined>>

-----------------------------------------------------------------------------
Operations == {"IOAccept", "IOConnect", "IOReceive"}

(* What a completed operation reports: bytes transferred, no byte, failure. *)
Results == {"data", "eof", "error"}

Packet     == [key : Contexts, result : Results]
ExitPacket == [key |-> None, result |-> "exit"]
NoPacket   == [key |-> None, result |-> "none"]

Labels == {"none", "idle", "got", "accept", "list", "register", "lookup",
           "callback", "post", "rearm", "lock", "notify", "erase", "close",
           "free", "exited"}

HandlerTypeOK ==
  /\ exiting_ \in BOOLEAN
  /\ isrunning_ \in BOOLEAN
  /\ iocp_handle_ \in BOOLEAN
  /\ the_socket_context_ \in Contexts \cup {None}
  /\ locker_ \in Workers \cup {None}
  /\ socket_contexts_ \in SUBSET Contexts
  /\ connections_ \in [Sockets -> Conns \cup {None}]
  /\ live \in SUBSET Contexts
  /\ socket \in [Contexts -> Sockets \cup {None}]
  /\ LastOperation \in [Contexts -> Operations \cup {None}]
  /\ SocketAccept \in [Contexts -> Sockets \cup {None}]
  /\ socket_ \in [Conns -> Sockets \cup {None}]
  /\ connected_ \in [Conns -> BOOLEAN]
  /\ pc \in [Workers -> Labels]
  /\ job \in [Workers -> Packet \cup {ExitPacket, NoPacket}]
  /\ cur \in [Workers -> Contexts \cup {None}]
  /\ conn \in [Workers -> Conns \cup {None}]
  /\ open \in SUBSET Sockets
  /\ peer \in [Sockets -> Conns \cup {None}]
  /\ clients \in SUBSET Conns
  /\ accepting \in SUBSET Contexts
  /\ receiving \in SUBSET Contexts
  /\ port \in SUBSET Packet
  /\ exitPackets \in Nat
  /\ notified \in SUBSET Conns
  /\ strayed \in SUBSET Conns
  /\ refused \in BOOLEAN
  /\ undefined \in BOOLEAN

HandlerInit ==
  /\ exiting_ = FALSE
  /\ isrunning_ = FALSE
  /\ iocp_handle_ = FALSE
  /\ the_socket_context_ = None
  /\ locker_ = None
  /\ socket_contexts_ = {}
  /\ connections_ = [s \in Sockets |-> None]
  /\ live = {}
  /\ socket = [c \in Contexts |-> None]
  /\ LastOperation = [c \in Contexts |-> None]
  /\ SocketAccept = [c \in Contexts |-> None]
  /\ socket_ = [k \in Conns |-> None]
  /\ connected_ = [k \in Conns |-> FALSE]
  /\ pc = [w \in Workers |-> "none"]
  /\ job = [w \in Workers |-> NoPacket]
  /\ cur = [w \in Workers |-> None]
  /\ conn = [w \in Workers |-> None]
  /\ open = {}
  /\ peer = [s \in Sockets |-> None]
  /\ clients = Conns
  /\ accepting = {}
  /\ receiving = {}
  /\ port = {}
  /\ exitPackets = 0
  /\ notified = {}
  /\ strayed = {}
  /\ refused = FALSE
  /\ undefined = FALSE

-----------------------------------------------------------------------------
(* Helpers *)

Goto(w, label) == pc' = [pc EXCEPT ![w] = label]

(* The worker is back at GetQueuedCompletionStatus. *)
EndJob(w) ==
  /\ Goto(w, "idle")
  /\ job' = [job EXCEPT ![w] = NoPacket]
  /\ cur' = [cur EXCEPT ![w] = None]

(* return from WorkerThread *)
LeaveThread(w) ==
  /\ Goto(w, "exited")
  /\ job' = [job EXCEPT ![w] = NoPacket]

(* Faulty: forgets the start_accept() that follows handle_accept(). *)
ReturnWithoutRearm(w) == EndJob(w)

(* The worker is done with its connection context.  On the accept path the *)
(* packet's key is the listener's context and start_accept() is next.      *)
Return(w) ==
  \/ /\ job[w].key = cur[w]
     /\ EndJob(w)
  \/ /\ job[w].key # cur[w]
     /\ Goto(w, "rearm")
     /\ cur' = [cur EXCEPT ![w] = None]
     /\ UNCHANGED job

(* create_socket_context: the allocation happens inside locker_. *)
NewContext(n, s, op) ==
  /\ locker_ = None
  /\ n \notin live
  /\ live' = live \cup {n}
  /\ socket' = [socket EXCEPT ![n] = s]
  /\ LastOperation' = [LastOperation EXCEPT ![n] = op]
  /\ SocketAccept' = [SocketAccept EXCEPT ![n] = None]

(* start_accept on listener context c returns COMM_SUCCESS.  AcceptEx is a  *)
(* BOOL function: it refuses a request with FALSE, never with SOCKET_ERROR, *)
(* so that its failure goes unnoticed.  A closed listener is always refused.*)
StartAccept(c) ==
  /\ \E s \in Sockets \ open :
       /\ open' = open \cup {s}
       /\ SocketAccept' = [SocketAccept EXCEPT ![c] = s]
  /\ \/ /\ socket[c] \in open
        /\ accepting' = accepting \cup {c}
        /\ UNCHANGED refused
     \/ /\ refused' = TRUE
        /\ UNCHANGED accepting

(* start_accept fails: the system has no new socket. *)
StartAcceptFails(c) ==
  SocketAccept' = [SocketAccept EXCEPT ![c] = None]

(* The handle in socket_ is open and belongs to the connection's own peer. *)
ReachesPeer(k) == socket_[k] \in open /\ peer[socket_[k]] = k

(* TcpConnection::Send, after "Not connected.": what send() does is looked   *)
(* at by nobody, and COMM_SUCCESS is returned.  Kept is only whether it was *)
(* called on the connection's own handle.                                   *)
Send(k) ==
  strayed' = IF connected_[k] /\ ~ReachesPeer(k) THEN strayed \cup {k} ELSE strayed

-----------------------------------------------------------------------------
(* start(), on the thread that owns the handler *)

(* init_handler *)
InitHandler ==
  /\ iocp_handle_' = TRUE
  /\ UNCHANGED <<exiting_, isrunning_, the_socket_context_, locker_,
                 registryVars, contextVars, connVars, threadVars, socketVars,
                 ioVars, undefined>>

(* One turn of the loop of init_worker_threads *)
CreateWorker(w) ==
  /\ pc[w] = "none"
  /\ Goto(w, "idle")
  /\ UNCHANGED <<engineVars, locker_, registryVars, contextVars, connVars, job,
                 cur, conn, socketVars, ioVars, undefined>>

(* CreateThread fails in the loop: a worker is missing. *)
CreateWorkerFails ==
  /\ \E w \in Workers : pc[w] = "none"
  /\ UNCHANGED handlerVars

(* Faulty: leaves isrunning_ as the constructor set it. *)
RunningUnset ==
  /\ \A w \in Workers : pc[w] # "none"
  /\ UNCHANGED handlerVars

(* The workers exist before isrunning_ is set. *)
SetRunning ==
  /\ \A w \in Workers : pc[w] # "none"
  /\ isrunning_' = TRUE
  /\ UNCHANGED <<exiting_, iocp_handle_, the_socket_context_, locker_,
                 registryVars, contextVars, connVars, threadVars, socketVars,
                 ioVars, undefined>>

-----------------------------------------------------------------------------
(* WorkerThread: dequeue a packet and dispatch it *)

GetPacket(w, p) ==
  /\ pc[w] = "idle"
  /\ p \in port
  /\ port' = port \ {p}
  /\ job' = [job EXCEPT ![w] = p]
  /\ Goto(w, "got")
  /\ UNCHANGED <<engineVars, locker_, registryVars, contextVars, connVars, cur,
                 conn, socketVars, acceptVars, receiving, exitPackets, undefined>>

GetExitPacket(w) ==
  /\ pc[w] = "idle"
  /\ exitPackets > 0
  /\ exitPackets' = exitPackets - 1
  /\ job' = [job EXCEPT ![w] = ExitPacket]
  /\ Goto(w, "got")
  /\ UNCHANGED <<engineVars, locker_, registryVars, contextVars, connVars, cur,
                 conn, socketVars, acceptVars, receiving, port, undefined>>

(* Both tests return before the packet is looked at, which is dropped. *)
StopWorker(w) ==
  /\ pc[w] = "got"
  /\ exiting_ \/ ~isrunning_
  /\ LeaveThread(w)
  /\ UNCHANGED <<engineVars, locker_, registryVars, contextVars, connVars, cur,
                 conn, socketVars, ioVars, undefined>>

(* The switch: the packet goes to the code at label, with context c. *)
Dispatch(w, label, c) ==
  /\ Goto(w, label)
  /\ cur' = [cur EXCEPT ![w] = c]
  /\ UNCHANGED <<engineVars, locker_, registryVars, contextVars, connVars, job,
                 conn, socketVars, ioVars, undefined>>

HasWork(w) ==
  /\ pc[w] = "got"
  /\ ~exiting_
  /\ isrunning_
  /\ job[w].key # None

(* Faulty: goes on to the next packet without the call of disconnect(). *)
IgnoreEof(w) ==
  /\ HasWork(w)
  /\ LastOperation[job[w].key] # "IOAccept"
  /\ job[w].result # "data"
  /\ EndJob(w)
  /\ UNCHANGED <<engineVars, locker_, registryVars, contextVars, connVars, conn,
                 socketVars, ioVars, undefined>>

DispatchDisconnect(w) ==
  /\ HasWork(w)
  /\ LastOperation[job[w].key] # "IOAccept"
  /\ job[w].result # "data"
  /\ Dispatch(w, "lock", job[w].key)

DispatchReceive(w) ==
  /\ HasWork(w)
  /\ LastOperation[job[w].key] = "IOReceive"
  /\ job[w].result = "data"
  /\ Dispatch(w, "lookup", job[w].key)

(* Faulty: posts the next AcceptEx before this connection is set up. *)
AcceptAhead(w) ==
  /\ HasWork(w)
  /\ LastOperation[job[w].key] = "IOAccept"
  /\ Goto(w, "accept")
  /\ StartAccept(job[w].key)
  /\ UNCHANGED <<engineVars, locker_, registryVars, live, socket, LastOperation,
                 connVars, job, cur, conn, peer, clients, receiving, port,
                 exitPackets, undefined>>

DispatchAccept(w) ==
  /\ HasWork(w)
  /\ LastOperation[job[w].key] = "IOAccept"
  /\ Dispatch(w, "accept", None)

-----------------------------------------------------------------------------
(* handle_accept and handle_new_connection *)

(* Faulty: repairs the accept chain, and the thread still returns. *)
AcceptFailsAndRearms(w) ==
  /\ pc[w] = "accept"
  /\ LeaveThread(w)
  /\ StartAccept(job[w].key)
  /\ UNCHANGED <<engineVars, locker_, registryVars, live, socket, LastOperation,
                 connVars, cur, conn, peer, clients, receiving, port,
                 exitPackets, undefined>>

(* setsockopt(SO_UPDATE_ACCEPT_CONTEXT) fails, which it always does when    *)
(* AcceptEx failed: ALPL_ASSERT makes WorkerThread return, and no other     *)
(* AcceptEx is posted.                                                      *)
AcceptFails(w) ==
  /\ pc[w] = "accept"
  /\ LeaveThread(w)
  /\ UNCHANGED <<engineVars, locker_, registryVars, contextVars, connVars, cur,
                 conn, socketVars, ioVars, undefined>>

CanHandleAccept(w) ==
  /\ pc[w] = "accept"
  /\ job[w].result # "error"
  /\ socket[the_socket_context_] # None
  /\ locker_ = None

(* Faulty: wraps the packet's own socket, as handle_connect does. *)
HandleAcceptOnListener(w) ==
  /\ CanHandleAccept(w)
  /\ \E n \in Contexts :
       /\ NewContext(n, socket[job[w].key], "IOConnect")
       /\ cur' = [cur EXCEPT ![w] = n]
  /\ Goto(w, "list")
  /\ UNCHANGED <<engineVars, locker_, registryVars, connVars, job, conn,
                 socketVars, ioVars, undefined>>

(* updateCompletionPort up to push_front, for the accepted socket. *)
HandleAccept(w) ==
  /\ CanHandleAccept(w)
  /\ \E n \in Contexts :
       /\ NewContext(n, SocketAccept[job[w].key], "IOConnect")
       /\ cur' = [cur EXCEPT ![w] = n]
  /\ Goto(w, "list")
  /\ UNCHANGED <<engineVars, locker_, registryVars, connVars, job, conn,
                 socketVars, ioVars, undefined>>

(* updateCompletionPort stores the NULL that CreateIoCompletionPort returns *)
(* in iocp_handle_; the handler forgets its completion port.                *)
AssociateFails(w) ==
  /\ CanHandleAccept(w)
  /\ iocp_handle_' = FALSE
  /\ LeaveThread(w)
  /\ UNCHANGED <<exiting_, isrunning_, the_socket_context_, locker_,
                 registryVars, contextVars, connVars, cur, conn, socketVars,
                 ioVars, undefined>>

(* Faulty: posts the WSARecv before the connection is in connections_. *)
ReceiveBeforeRegister(w) ==
  /\ pc[w] = "list"
  /\ socket_contexts_' = socket_contexts_ \cup {cur[w]}
  /\ LastOperation' = [LastOperation EXCEPT ![cur[w]] = "IOReceive"]
  /\ receiving' = receiving \cup {cur[w]}
  /\ Goto(w, "register")
  /\ UNCHANGED <<engineVars, locker_, connections_, live, socket, SocketAccept,
                 connVars, job, cur, conn, socketVars, acceptVars, port,
                 exitPackets, undefined>>

(* socket_contexts_.push_front, outside locker_ *)
PushContext(w) ==
  /\ pc[w] = "list"
  /\ socket_contexts_' = socket_contexts_ \cup {cur[w]}
  /\ Goto(w, "register")
  /\ UNCHANGED <<engineVars, locker_, connections_, contextVars, connVars, job,
                 cur, conn, socketVars, ioVars, undefined>>

(* new TcpConnection and connections_[socket] = a_conn, outside locker_.    *)
(* handle_new_connection names the context new_socket_context, which it     *)
(* does not declare: it is taken for the one that handle_accept has made.   *)
(* Data that came with the accept goes to onDataReceived.                   *)
RegisterConnection(w) ==
  /\ pc[w] = "register"
  /\ \E k \in Conns :
       /\ k = peer[socket[cur[w]]]
       /\ socket_' = [socket_ EXCEPT ![k] = socket[cur[w]]]
       /\ connected_' = [connected_ EXCEPT ![k] = TRUE]
       /\ connections_' = [connections_ EXCEPT ![socket[cur[w]]] = k]
       /\ \/ /\ job[w].result = "data"
             /\ conn' = [conn EXCEPT ![w] = k]
             /\ Goto(w, "callback")
          \/ /\ job[w].result = "eof"
             /\ UNCHANGED conn
             /\ Goto(w, "post")
  /\ UNCHANGED <<engineVars, locker_, socket_contexts_, contextVars, notified,
                 strayed, job, cur, socketVars, ioVars, undefined>>

(* start_accept() after handle_accept() *)
Rearm(w) ==
  /\ pc[w] = "rearm"
  /\ StartAccept(the_socket_context_)
  /\ EndJob(w)
  /\ UNCHANGED <<engineVars, locker_, registryVars, live, socket, LastOperation,
                 connVars, conn, peer, clients, receiving, port, exitPackets,
                 undefined>>

RearmFails(w) ==
  /\ pc[w] = "rearm"
  /\ StartAcceptFails(the_socket_context_)
  /\ LeaveThread(w)
  /\ UNCHANGED <<engineVars, locker_, registryVars, live, socket, LastOperation,
                 connVars, cur, conn, socketVars, ioVars, undefined>>

-----------------------------------------------------------------------------
(* handle_receive and start_receive *)

(* Faulty: posts the next WSARecv before it calls onDataReceived. *)
ReceiveAhead(w) ==
  /\ pc[w] = "lookup"
  /\ \E k \in Conns :
       /\ k = connections_[socket[cur[w]]]
       /\ conn' = [conn EXCEPT ![w] = k]
  /\ receiving' = receiving \cup {cur[w]}
  /\ Goto(w, "callback")
  /\ UNCHANGED <<engineVars, locker_, registryVars, contextVars, connVars, job,
                 cur, socketVars, acceptVars, port, exitPackets, undefined>>

(* connections_.count and operator[], outside locker_.  The branch for a    *)
(* missing entry has no action: ReceiverRegistered states it is never taken.*)
HandleReceive(w) ==
  /\ pc[w] = "lookup"
  /\ \E k \in Conns :
       /\ k = connections_[socket[cur[w]]]
       /\ conn' = [conn EXCEPT ![w] = k]
  /\ Goto(w, "callback")
  /\ UNCHANGED <<engineVars, locker_, registryVars, contextVars, connVars, job,
                 cur, socketVars, ioVars, undefined>>

(* The application's onDataReceived may Send on the connection it is given, *)
CallbackSend(w) ==
  /\ pc[w] = "callback"
  /\ Send(conn[w])
  /\ UNCHANGED <<engineVars, locker_, registryVars, contextVars, socket_,
                 connected_, notified, threadVars, socketVars, ioVars, undefined>>

(* and it returns. *)
CallbackReturns(w) ==
  /\ pc[w] = "callback"
  /\ conn' = [conn EXCEPT ![w] = None]
  /\ Goto(w, "post")
  /\ UNCHANGED <<engineVars, locker_, registryVars, contextVars, connVars, job,
                 cur, socketVars, ioVars, undefined>>

(* Faulty: leaves LastOperation as it was, IOConnect for a new connection. *)
PostReceiveUnmarked(w) ==
  /\ pc[w] = "post"
  /\ receiving' = receiving \cup {cur[w]}
  /\ Return(w)
  /\ UNCHANGED <<engineVars, locker_, registryVars, contextVars, connVars, conn,
                 socketVars, acceptVars, port, exitPackets, undefined>>

(* WSARecv of start_receive and of handle_new_connection, there on the       *)
(* context that RegisterConnection takes for new_socket_context             *)
PostReceive(w) ==
  /\ pc[w] = "post"
  /\ LastOperation' = [LastOperation EXCEPT ![cur[w]] = "IOReceive"]
  /\ receiving' = receiving \cup {cur[w]}
  /\ Return(w)
  /\ UNCHANGED <<engineVars, locker_, registryVars, live, socket, SocketAccept,
                 connVars, conn, socketVars, acceptVars, port, exitPackets,
                 undefined>>

PostReceiveFails(w) ==
  /\ pc[w] = "post"
  /\ LastOperation' = [LastOperation EXCEPT ![cur[w]] = "IOReceive"]
  /\ Goto(w, "lock")
  /\ UNCHANGED <<engineVars, locker_, registryVars, live, socket, SocketAccept,
                 connVars, job, cur, conn, socketVars, ioVars, undefined>>

-----------------------------------------------------------------------------
(* disconnect *)

(* "Trying to close the listening socket": nothing is closed. *)
RefuseDisconnect(w) ==
  /\ pc[w] = "lock"
  /\ locker_ = None
  /\ socket[cur[w]] = socket[the_socket_context_]
  /\ Return(w)
  /\ UNCHANGED <<engineVars, locker_, registryVars, contextVars, connVars, conn,
                 socketVars, ioVars, undefined>>

(* Faulty: erases the map entry before onDisconnected looks it up. *)
EraseFirst(w) ==
  /\ pc[w] = "lock"
  /\ locker_ = None
  /\ socket[cur[w]] # socket[the_socket_context_]
  /\ locker_' = w
  /\ connections_' = [connections_ EXCEPT ![socket[cur[w]]] = None]
  /\ Goto(w, "notify")
  /\ UNCHANGED <<engineVars, socket_contexts_, contextVars, connVars, job, cur,
                 conn, socketVars, ioVars, undefined>>

(* Faulty: does not spare the handler's own context. *)
EnterDisconnectAny(w) ==
  /\ pc[w] = "lock"
  /\ locker_ = None
  /\ locker_' = w
  /\ Goto(w, "notify")
  /\ UNCHANGED <<engineVars, registryVars, contextVars, connVars, job, cur, conn,
                 socketVars, ioVars, undefined>>

(* Faulty: without EnterCriticalSection. *)
EnterDisconnectUnlocked(w) ==
  /\ pc[w] = "lock"
  /\ socket[cur[w]] # socket[the_socket_context_]
  /\ locker_' = w
  /\ Goto(w, "notify")
  /\ UNCHANGED <<engineVars, registryVars, contextVars, connVars, job, cur, conn,
                 socketVars, ioVars, undefined>>

EnterDisconnect(w) ==
  /\ pc[w] = "lock"
  /\ locker_ = None
  /\ socket[cur[w]] # socket[the_socket_context_]
  /\ locker_' = w
  /\ Goto(w, "notify")
  /\ UNCHANGED <<engineVars, registryVars, contextVars, connVars, job, cur, conn,
                 socketVars, ioVars, undefined>>

(* onDisconnected(connections_[socket]) runs, and returns, inside locker_.   *)
(* It is called without a test that the application has set one.            *)
NotifyDisconnected(w) ==
  /\ pc[w] = "notify"
  /\ notified' = notified \cup {k \in Conns : k = connections_[socket[cur[w]]]}
  /\ Goto(w, "erase")
  /\ UNCHANGED <<engineVars, locker_, registryVars, contextVars, socket_,
                 connected_, strayed, job, cur, conn, socketVars, ioVars,
                 undefined>>

(* Faulty: leaves the entry in the map. *)
EraseSkipped(w) ==
  /\ pc[w] = "erase"
  /\ Goto(w, "close")
  /\ UNCHANGED <<engineVars, locker_, registryVars, contextVars, connVars, job,
                 cur, conn, socketVars, ioVars, undefined>>

EraseConnection(w) ==
  /\ pc[w] = "erase"
  /\ connections_' = [connections_ EXCEPT ![socket[cur[w]]] = None]
  /\ Goto(w, "close")
  /\ UNCHANGED <<engineVars, locker_, socket_contexts_, contextVars, connVars,
                 job, cur, conn, socketVars, ioVars, undefined>>

(* Faulty: sets the field to INVALID_SOCKET without closesocket. *)
CloseSkipped(w) ==
  /\ pc[w] = "close"
  /\ socket' = [socket EXCEPT ![cur[w]] = None]
  /\ Goto(w, "free")
  /\ UNCHANGED <<engineVars, locker_, registryVars, live, LastOperation,
                 SocketAccept, connVars, job, cur, conn, socketVars, ioVars,
                 undefined>>

(* closesocket; the handle value can be handed out again at once.  The      *)
(* TcpConnection keeps socket_ and connected_.  SocketAccept is closed      *)
(* here with the socket; the code does it before onDisconnected, which is   *)
(* the same, since a connection's context has none (ConnectionContexts).    *)
CloseSocket(w) ==
  /\ pc[w] = "close"
  /\ LET closed == {socket[cur[w]], SocketAccept[cur[w]]}
     IN  /\ open' = open \ closed
         /\ peer' = [s \in Sockets |-> IF s \in closed THEN None ELSE peer[s]]
  /\ socket' = [socket EXCEPT ![cur[w]] = None]
  /\ SocketAccept' = [SocketAccept EXCEPT ![cur[w]] = None]
  /\ Goto(w, "free")
  /\ UNCHANGED <<engineVars, locker_, registryVars, live, LastOperation,
                 connVars, job, cur, conn, clients, ioVars, undefined>>

(* Faulty: deletes the context and leaves its pointer in the list. *)
FreeListed(w) ==
  /\ pc[w] = "free"
  /\ live' = live \ {cur[w]}
  /\ locker_' = None
  /\ Return(w)
  /\ UNCHANGED <<engineVars, registryVars, socket, LastOperation, SocketAccept,
                 connVars, conn, socketVars, ioVars, undefined>>

(* socket_contexts_.remove, FREE, LeaveCriticalSection *)
FreeContext(w) ==
  /\ pc[w] = "free"
  /\ socket_contexts_' = socket_contexts_ \ {cur[w]}
  /\ live' = live \ {cur[w]}
  /\ locker_' = None
  /\ Return(w)
  /\ UNCHANGED <<engineVars, connections_, socket, LastOperation, SocketAccept,
                 connVars, conn, socketVars, ioVars, undefined>>

-----------------------------------------------------------------------------
(* The system: sockets and the completion port *)

(* A peer's connection is accepted together with its first bytes, or with   *)
(* none when it closes its side at once.                                    *)
CompleteAccept(c) ==
  /\ c \in accepting
  /\ socket[c] \in open
  /\ \E k \in clients, r \in {"data", "eof"} :
       /\ clients' = clients \ {k}
       /\ peer' = [peer EXCEPT ![SocketAccept[c]] = k]
       /\ port' = port \cup {[key |-> c, result |-> r]}
  /\ accepting' = accepting \ {c}
  /\ UNCHANGED <<engineVars, locker_, registryVars, contextVars, connVars,
                 threadVars, open, refused, receiving, exitPackets, undefined>>

(* The peer resets before the accept completes, or the listener is closed. *)
AbortAccept(c) ==
  /\ c \in accepting
  /\ accepting' = accepting \ {c}
  /\ port' = port \cup {[key |-> c, result |-> "error"]}
  /\ UNCHANGED <<engineVars, locker_, registryVars, contextVars, connVars,
                 threadVars, socketVars, refused, receiving, exitPackets,
                 undefined>>

CompleteReceive(c, r) ==
  /\ c \in receiving
  /\ receiving' = receiving \ {c}
  /\ port' = port \cup {[key |-> c, result |-> r]}
  /\ UNCHANGED <<engineVars, locker_, registryVars, contextVars, connVars,
                 threadVars, socketVars, acceptVars, exitPackets, undefined>>

(* Workers whose next accesses to connections_ or to socket_contexts_ are    *)
(* not ordered by locker_ and include a write: a data race.                 *)
MapAccess == {"register", "lookup", "notify", "erase"}

Racing(v, w) ==
  \/ pc[v] \in MapAccess \ {"lookup"} /\ pc[w] \in MapAccess
  \/ pc[v] = "list" /\ pc[w] = "free"

DataRace ==
  /\ \E v \in Workers : \E w \in Workers \ {v} : Racing(v, w)
  /\ undefined' = TRUE
  /\ UNCHANGED <<engineVars, locker_, registryVars, contextVars, connVars,
                 threadVars, socketVars, ioVars>>

-----------------------------------------------------------------------------
AcceptStep(w) ==
  \/ DispatchAccept(w)
  \/ AcceptFails(w)
  \/ HandleAccept(w)
  \/ AssociateFails(w)
  \/ PushContext(w)
  \/ RegisterConnection(w)
  \/ Rearm(w)
  \/ RearmFails(w)

ReceiveStep(w) ==
  \/ DispatchReceive(w)
  \/ HandleReceive(w)
  \/ CallbackReturns(w)
  \/ PostReceive(w)
  \/ PostReceiveFails(w)

DisconnectStep(w) ==
  \/ DispatchDisconnect(w)
  \/ RefuseDisconnect(w)
  \/ EnterDisconnect(w)
  \/ NotifyDisconnected(w)
  \/ EraseConnection(w)
  \/ CloseSocket(w)
  \/ FreeContext(w)

Dequeue(w) == GetExitPacket(w) \/ \E p \in port : GetPacket(w, p)

WorkerStep(w) ==
  \/ Dequeue(w)
  \/ StopWorker(w)
  \/ AcceptStep(w)
  \/ ReceiveStep(w)
  \/ DisconnectStep(w)

SystemStep ==
  \/ \E c \in accepting : CompleteAccept(c) \/ AbortAccept(c)
  \/ \E c \in receiving, r \in Results : CompleteReceive(c, r)
  \/ DataRace

-----------------------------------------------------------------------------
(* Properties of the engine *)

(* The contexts worker w refers to and may still dereference. *)
Holds(w) == {job[w].key, cur[w]} \ {None}

Queued == {p.key : p \in port}

InFlight == accepting \cup receiving \cup Queued

(* A context is in one place at a time: an operation outstanding in the     *)
(* system, a packet in the port, or one worker.  This is why WorkerThread    *)
(* may use its completion key without a lock.                               *)
SingleOwner ==
  /\ accepting \cap receiving = {}
  /\ Queued \cap (accepting \cup receiving) = {}
  /\ \A p, q \in port : p.key = q.key => p = q
  /\ \A w \in Workers : Holds(w) \cap InFlight = {}
  /\ \A v, w \in Workers : v # w => Holds(v) \cap Holds(w) = {}

(* The peer of connection k closed or reset it, and the packet that says so *)
(* is in the port.                                                          *)
PeerClosed(k) ==
  \E p \in port : /\ p.result # "data"
                  /\ LastOperation[p.key] = "IOReceive"
                  /\ peer[socket[p.key]] = k

(* No completion key, and no pointer a worker goes on to use, refers to a   *)
(* context that disconnect has deleted.                                     *)
NoDanglingContext ==
  /\ InFlight \subseteq live
  /\ \A w \in Workers : Holds(w) \subseteq live
  /\ the_socket_context_ # None => the_socket_context_ \in live

(* No two contexts share a socket handle, in spite of handle reuse, and a   *)
(* connection's context has its handle open until disconnect closes it: a   *)
(* closesocket never hits another connection.                               *)
DistinctHandles ==
  \A c \in live : socket[c] # None =>
    /\ socket[c] \in open
    /\ \A d \in live \ {c} : socket[d] # socket[c]

(* A worker with received data finds the connection the data is for in      *)
(* connections_: the branch "Socket %d does not exist" is never taken.      *)
ReceiverRegistered ==
  \A w \in Workers : pc[w] = "lookup" =>
    LET k == connections_[socket[cur[w]]]
    IN  k # None /\ k = peer[socket[cur[w]]] /\ socket_[k] = socket[cur[w]]

(* connections_ has no entry left from an earlier use of a handle value.    *)
NoStaleRegistration ==
  \A s \in Sockets : connections_[s] # None =>
    \E c \in live : socket[c] = s /\ peer[s] = connections_[s]

(* disconnect passes onDisconnected a connection, never NULL, and it does   *)
(* so once for each.                                                        *)
NotifiedOnce ==
  \A w \in Workers : pc[w] = "notify" =>
    connections_[socket[cur[w]]] \in Conns \ notified

(* While a callback of a connection runs, that is in every Send made from   *)
(* one, socket_ is the open handle of the connection's own peer: it is      *)
(* never closed, or given to another connection, under a callback.  Nothing *)
(* is said of a Send from another thread (AppSpec of TcpServer), which the  *)
(* guard "Not connected." does not stop after a disconnect, nor of what     *)
(* send() makes of the data.                                                *)
NoStraySend == strayed = {}

(* The accesses to connections_ and socket_contexts_ that locker_ does not   *)
(* order are never two to the same entry: a race can spoil the containers,  *)
(* and no connection is looked up, entered or erased by two workers at once.*)
RacesOnOtherEntries ==
  \A v, w \in Workers : v # w /\ Racing(v, w) =>
    cur[v] # cur[w] /\ socket[cur[v]] # socket[cur[w]]

(* A worker that dequeues an exit packet, whose overlapped pointer is NULL, *)
(* sees exiting_ and returns before it reads LastOperation through it.      *)
ExitPacketMeansExiting ==
  \A w \in Workers : job[w] = ExitPacket => exiting_

(* The unlocked push_front and the unlocked insertion of two new            *)
(* connections never run side by side: accepts are handled one at a time.   *)
InsertsSerialized ==
  \A v, w \in Workers :
    pc[v] \in {"list", "register"} /\ pc[w] \in {"list", "register"} => v = w

(* onDisconnected and the rest of disconnect run inside locker_, and nothing *)
(* else does for longer than a step: the callbacks for two connections never *)
(* overlap, and whoever waits for locker_ waits for a worker that goes on.  *)
DisconnectsSerialized ==
  \A w \in Workers :
    pc[w] \in {"notify", "erase", "close", "free"} <=> locker_ = w

(* Every packet has its case: data is for a context whose last operation is *)
(* an accept or a receive, the cases of the switch that no caller prepares  *)
(* are never taken, a connection that is set up was made by a peer, and     *)
(* start_accept and disconnect have a context to compare with.              *)
NoCaseMissing ==
  \A w \in Workers :
    /\ HasWork(w) /\ job[w].result = "data" =>
         LastOperation[job[w].key] \in {"IOAccept", "IOReceive"}
    /\ pc[w] = "register" =>
         peer[socket[cur[w]]] \in Conns /\ job[w].result # "error"
    /\ pc[w] \in {"accept", "rearm", "lock"} => the_socket_context_ # None

(* What the callbacks see of the handler is what ConnectionEvents allows.   *)
Stage == [k \in Conns |-> IF k \in notified THEN "closed"
                          ELSE IF connected_[k] THEN "open" ELSE "away"]

InCallback == {conn[w] : w \in Workers} \ {None}

Events == INSTANCE ConnectionEvents WITH stage <- Stage, receiving <- InCallback

CallbacksInOrder == Events!EventsSpec

=============================================================================
