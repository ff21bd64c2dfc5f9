----------------------------- MODULE TcpServer -----------------------------
(***************************************************************************)
(* TcpServer (src/net/impl/TcpServer.hpp) on top of the engine of           *)
(* IocpHandler: the thread of ServerSession in src/main.cpp calls Start,     *)
(* ignores its result, and at some later time calls Stop.  The label in     *)
(* main names the next step of that thread.                                 *)
(***************************************************************************)
EXTENDS IocpHandler

VARIABLES
  main,       \* where the thread that owns the server is
  ls_,        \* TcpServer::ls_, the listening socket
  started     \* Start returned COMM_SUCCESS

serverVars == <<main, ls_, started>>

vars == <<handlerVars, serverVars>>

MainLabels == {"init", "threads", "listen", "associate", "arm", "up", "post",
               "wait", "close", "done"}

ServerTypeOK ==
  /\ HandlerTypeOK
  /\ main \in MainLabels
  /\ ls_ \in Sockets \cup {None}
  /\ started \in BOOLEAN
  /\ exitPackets \in 0..Cardinality(Workers)

Init ==
  /\ HandlerInit
  /\ main = "init"
  /\ ls_ = None
  /\ started = FALSE

-----------------------------------------------------------------------------
(* Start *)

MainGoto(from, to) ==
  /\ main = from
  /\ main' = to

(* TcpServer::init and IocpHandler::start *)
StartHandler ==
  /\ MainGoto("init", "threads")
  /\ InitHandler
  /\ UNCHANGED <<ls_, started>>

(* CreateEvent fails: the port exists, and no thread waits on it. *)
CreateEventFails ==
  /\ MainGoto("init", "up")
  /\ InitHandler
  /\ UNCHANGED <<ls_, started>>

StartWorker(w) ==
  /\ main = "threads"
  /\ CreateWorker(w)
  /\ UNCHANGED serverVars

HandlerStarted ==
  /\ MainGoto("threads", "listen")
  /\ SetRunning
  /\ UNCHANGED <<ls_, started>>

CreateListener ==
  /\ MainGoto("listen", "associate")
  /\ \E s \in Sockets \ open :
       /\ open' = open \cup {s}
       /\ ls_' = s
  /\ UNCHANGED <<engineVars, locker_, registryVars, contextVars, connVars,
                 threadVars, peer, clients, ioVars, undefined, started>>

(* bind or listen fails, and the new socket stays open. *)
ListenFails ==
  /\ MainGoto("listen", "up")
  /\ \E s \in Sockets \ open :
       /\ open' = open \cup {s}
       /\ ls_' = s
  /\ UNCHANGED <<engineVars, locker_, registryVars, contextVars, connVars,
                 threadVars, peer, clients, ioVars, undefined, started>>

(* init_accept: the listener's context is not put into socket_contexts_. *)
InitAccept ==
  /\ MainGoto("associate", "arm")
  /\ \E n \in Contexts :
       /\ NewContext(n, ls_, "IOAccept")
       /\ the_socket_context_' = n
  /\ UNCHANGED <<exiting_, isrunning_, iocp_handle_, locker_, registryVars,
                 connVars, threadVars, socketVars, ioVars, undefined, ls_,
                 started>>

(* updateCompletionPort returns NULL, and loses the completion port. *)
InitAcceptFails ==
  /\ MainGoto("associate", "up")
  /\ iocp_handle_' = FALSE
  /\ the_socket_context_' = None
  /\ UNCHANGED <<exiting_, isrunning_, locker_, registryVars, contextVars,
                 connVars, threadVars, socketVars, ioVars, undefined, ls_,
                 started>>

ArmListener ==
  /\ MainGoto("arm", "up")
  /\ StartAccept(the_socket_context_)
  /\ started' = TRUE
  /\ UNCHANGED <<engineVars, locker_, registryVars, live, socket, LastOperation,
                 connVars, threadVars, peer, clients, receiving, port,
                 exitPackets, undefined, ls_>>

ArmListenerFails ==
  /\ MainGoto("arm", "up")
  /\ StartAcceptFails(the_socket_context_)
  /\ UNCHANGED <<engineVars, locker_, registryVars, live, socket, LastOperation,
                 connVars, threadVars, socketVars, ioVars, undefined, ls_,
                 started>>

(* A call that leaves nothing behind fails, and with it Start:              *)
(* CreateIoCompletionPort, getaddrinfo or WSASocket, WSAIoctl.              *)
StartFails ==
  /\ main \in {"init", "listen", "arm"}
  /\ main' = "up"
  /\ UNCHANGED <<handlerVars, ls_, started>>

StartWorkerFails ==
  /\ MainGoto("threads", "up")
  /\ CreateWorkerFails
  /\ UNCHANGED <<ls_, started>>

-----------------------------------------------------------------------------
(* Stop: IocpHandler::exiting, then the wait for exitHandle_ *)

(* Faulty: marks the server, and not its handler, as exiting. *)
BeginStopUnmarked ==
  /\ MainGoto("up", "post")
  /\ UNCHANGED <<handlerVars, ls_, started>>

BeginStop ==
  /\ MainGoto("up", "post")
  /\ exiting_' = TRUE
  /\ UNCHANGED <<isrunning_, iocp_handle_, the_socket_context_, locker_,
                 registryVars, contextVars, connVars, threadVars, socketVars,
                 ioVars, undefined, ls_, started>>

PostPackets(n) ==
  /\ MainGoto("post", "wait")
  /\ exitPackets' = IF iocp_handle_ THEN exitPackets + n ELSE exitPackets
  /\ UNCHANGED <<engineVars, locker_, registryVars, contextVars, connVars,
                 threadVars, socketVars, acceptVars, receiving, port, undefined,
                 ls_, started>>

(* Faulty: i <= num_worker_threads, and i = 1; i < num_worker_threads. *)
PostOneTooMany == PostPackets(Cardinality(Workers) + 1)
PostOneTooFew  == PostPackets(Cardinality(Workers) - 1)

(* One packet for each worker, if there is a completion port to post to. *)
PostExitPackets == PostPackets(Cardinality(Workers))

(* WaitForMultipleObjects returns: every worker is gone, or a second is     *)
(* over, or worker_threads_ holds no valid handles.                         *)
WaitForWorkers ==
  /\ MainGoto("wait", "close")
  /\ UNCHANGED <<handlerVars, ls_, started>>

(* closesocket on the listener, SetEvent, WaitForSingleObject *)
CloseListener ==
  /\ MainGoto("close", "done")
  /\ the_socket_context_ # None
  /\ open' = open \ {socket[the_socket_context_]}
  /\ socket' = [socket EXCEPT ![the_socket_context_] = None]
  /\ UNCHANGED <<engineVars, locker_, registryVars, live, LastOperation,
                 SocketAccept, connVars, threadVars, peer, clients, ioVars,
                 undefined, ls_, started>>

(* Stop after a Start that failed early reads the_socket_context_->socket   *)
(* through a pointer that is NULL or was never assigned.                    *)
CloseNoListener ==
  /\ main = "close"
  /\ the_socket_context_ = None
  /\ undefined' = TRUE
  /\ UNCHANGED <<engineVars, locker_, registryVars, contextVars, connVars,
                 threadVars, socketVars, ioVars, serverVars>>

StartStep ==
  \/ StartHandler
  \/ CreateEventFails
  \/ \E w \in Workers : StartWorker(w)
  \/ StartWorkerFails
  \/ HandlerStarted
  \/ CreateListener
  \/ ListenFails
  \/ InitAccept
  \/ InitAcceptFails
  \/ ArmListener
  \/ ArmListenerFails
  \/ StartFails

StopStep ==
  \/ BeginStop
  \/ PostExitPackets
  \/ WaitForWorkers
  \/ CloseListener
  \/ CloseNoListener

MainStep == StartStep \/ StopStep

EngineStep ==
  /\ \/ \E w \in Workers : WorkerStep(w) \/ CallbackSend(w)
     \/ SystemStep
  /\ UNCHANGED serverVars

Next ==
  /\ ~undefined
  /\ MainStep \/ EngineStep

Spec == Init /\ [][Next]_vars

-----------------------------------------------------------------------------
(* Fairness: the threads are scheduled, once Stop is called for its caller  *)
(* too, application callbacks return, and the port, a FIFO queue, lets no   *)
(* packet wait for ever.                                                    *)
Fair(A) == ~undefined /\ A /\ UNCHANGED serverVars

Fairness ==
  /\ WF_vars(~undefined /\ exiting_ /\ StopStep)
  /\ \A w \in Workers : WF_vars(Fair(WorkerStep(w)))
  /\ \A c \in Contexts :
       SF_vars(Fair(\E w \in Workers, p \in port : p.key = c /\ GetPacket(w, p)))

FairSpec == Spec /\ Fairness

(* An application that keeps TcpConnection pointers and calls Send on them  *)
(* from threads of its own.  NoStraySend fails of it.                       *)
AppSend(k) ==
  /\ ~undefined
  /\ socket_[k] # None
  /\ Send(k)
  /\ UNCHANGED <<engineVars, locker_, registryVars, contextVars, socket_,
                 connected_, notified, threadVars, socketVars, ioVars,
                 undefined, serverVars>>

AppSpec == Init /\ [][Next \/ \E k \in Conns : AppSend(k)]_vars

-----------------------------------------------------------------------------
(* Properties of the server *)

Listener == the_socket_context_

(* The accept chain: an AcceptEx is outstanding, has completed, or is being *)
(* handled, and so the next one will be posted.                             *)
AcceptChain ==
  Listener \in InFlight \/ \E w \in Workers : Listener \in Holds(w)

(* While the server runs it loses the accept chain only along with the      *)
(* worker that carried it, or to a refused AcceptEx.                        *)
AcceptChainUnlessLost ==
  /\ started /\ ~exiting_ /\ ~refused
  /\ \A w \in Workers : pc[w] # "exited"
  => AcceptChain

(* Before Stop at most one worker ever leaves WorkerThread, and with it the *)
(* server stops accepting: connections made before go on being served.      *)
LostWorkerEndsAccepting ==
  ~exiting_ => \A w \in Workers : pc[w] = "exited" =>
    /\ ~AcceptChain
    /\ \A v \in Workers \ {w} : pc[v] # "exited"

(* socket_contexts_ has every context but the listener's, from push_front   *)
(* to the deletion (the comment in updateCompletionPort).                   *)
ListMatches ==
  socket_contexts_ =
    {c \in live \ {Listener} : \A w \in Workers : ~(pc[w] = "list" /\ cur[w] = c)}

(* No handle is leaked: an open handle can be reached from ls_, from the    *)
(* listener's SocketAccept, or from a context.                              *)
HandlesAccounted ==
  open \subseteq
    {ls_} \cup {socket[c] : c \in live} \cup {SocketAccept[c] : c \in live}

(* Once Stop has posted them there is an exit packet for each worker that   *)
(* has not taken one: none is left waiting in the port.                     *)
Running == {w \in Workers : pc[w] \notin {"none", "exited"} /\ job[w] # ExitPacket}

ExitPacketsSuffice ==
  main \in {"wait", "close", "done"} /\ iocp_handle_ =>
    Cardinality(Running) <= exitPackets

(* Stop ends the workers, callbacks permitting, if the port was usable when *)
(* it posted their packets.                                                 *)
Stopped == \A w \in Workers : pc[w] \in {"none", "exited"}

WorkersStop == (main = "wait" /\ iocp_handle_) ~> (Stopped \/ undefined)

(* A connection whose peer closed is reported to onDisconnected, unless the *)
(* server is stopped first.                                                 *)
PeerCloseReported ==
  \A k \in Conns : PeerClosed(k) ~> (k \in notified \/ exiting_ \/ undefined)

-----------------------------------------------------------------------------
(* Why every context has one owner: an inductive invariant *)

BeforeUp == {"init", "threads", "listen", "associate", "arm"}

(* Until Start has called start_accept nothing is in flight, no worker has  *)
(* anything to do, and Stop alone ever posts exit packets.                  *)
StartsQuiet ==
  /\ main \in BeforeUp =>
       /\ accepting = {} /\ receiving = {} /\ port = {}
       /\ \A w \in Workers : pc[w] \in {"none", "idle"}
  /\ main \in BeforeUp \ {"arm"} => Listener = None
  /\ main = "arm" => Listener # None
  /\ main \in BeforeUp \cup {"up", "post"} => exitPackets = 0

(* The job and the context of a worker at each of its labels.  A worker     *)
(* with a context other than its packet's is handling an accept.            *)
ThreadsConsistent ==
  \A w \in Workers :
    /\ pc[w] \in {"none", "idle", "exited"} => job[w] = NoPacket
    /\ pc[w] \in {"none", "idle", "exited", "got", "accept", "rearm"} =>
         cur[w] = None
    /\ pc[w] \notin {"none", "idle", "exited", "got"} => job[w] \in Packet
    /\ pc[w] \notin {"none", "idle", "exited", "got", "accept", "rearm"} =>
         cur[w] \in Contexts
    /\ pc[w] \in {"accept", "rearm"} => job[w].key = Listener
    /\ pc[w] \in {"list", "register"} => job[w].key # cur[w]
    /\ cur[w] # None /\ job[w].key # cur[w] => job[w].key = Listener
    /\ pc[w] \in {"notify", "erase", "close", "free"} => cur[w] # Listener
    /\ pc[w] = "callback" => conn[w] \in Conns

(* Only the listener's context accepts, and it is the first one allocated.  *)
ListenerFirst ==
  /\ Listener = None => live = {}
  /\ \A c \in live : LastOperation[c] = "IOAccept" => c = Listener

OwnershipInvariant ==
  /\ ServerTypeOK
  /\ StartsQuiet
  /\ ThreadsConsistent
  /\ ListenerFirst
  /\ SingleOwner
  /\ NoDanglingContext

-----------------------------------------------------------------------------
(* Why no closesocket hits another connection: an inductive invariant *)

(* The last AcceptEx has not become a connection yet. *)
AcceptPending ==
  \/ Listener \in accepting \cup Queued
  \/ \E w \in Workers : pc[w] \in {"got", "accept"} /\ job[w].key = Listener

(* The handle made for that connection is open, and no context has it yet. *)
AcceptedApart ==
  Listener # None /\ AcceptPending =>
    /\ SocketAccept[Listener] \in open
    /\ \A c \in live : socket[c] # SocketAccept[Listener]

(* Contexts of connections never have a SocketAccept, and lose their socket *)
(* only to the worker that goes on to delete them.                          *)
ConnectionContexts ==
  \A c \in live \ {Listener} :
    /\ SocketAccept[c] = None
    /\ socket[c] = None => \E w \in Workers : pc[w] = "free" /\ cur[w] = c

(* The listener's context is never taken for a connection's. *)
ListenerApart ==
  /\ Listener # None =>
       LastOperation[Listener] = "IOAccept" /\ Listener \notin receiving
  /\ \A w \in Workers : cur[w] # None => cur[w] # Listener
  /\ main = "associate" => ls_ \in open

HandleInvariant ==
  /\ DistinctHandles
  /\ AcceptedApart
  /\ ConnectionContexts
  /\ ListenerApart

-----------------------------------------------------------------------------
(* Why connections_ never misleads a worker: an inductive invariant *)

(* A connection has one endpoint here, and is not made a second time. *)
PeersDistinct ==
  \A s \in Sockets : peer[s] # None =>
    peer[s] \notin clients /\ \A t \in Sockets \ {s} : peer[t] # peer[s]

(* An accept that succeeded left its connection behind SocketAccept. *)
AcceptedHasPeer ==
  /\ accepting \subseteq {Listener}
  /\ \A p \in port :
       p.key = Listener /\ p.result # "error" => peer[SocketAccept[Listener]] \in Conns
  /\ \A w \in Workers :
       /\ Listener # None /\ pc[w] \in {"got", "accept"}
       /\ job[w].key = Listener /\ job[w].result # "error"
       => peer[SocketAccept[Listener]] \in Conns

(* connections_ has entries for sockets of contexts only, *)
EntriesHaveContexts ==
  \A s \in Sockets : connections_[s] # None =>
    \E c \in live \ {Listener} : socket[c] = s /\ peer[s] = connections_[s]

(* and it has one for each but while a worker sets it up or takes it down.  *)
ContextsHaveEntries ==
  \A c \in live \ {Listener} : socket[c] # None =>
    LET k == peer[socket[c]]
    IN  /\ k \in Conns
        /\ \/ \E w \in Workers : pc[w] \in {"list", "register", "close"} /\ cur[w] = c
           \/ connections_[socket[c]] = k /\ socket_[k] = socket[c]

(* What a worker in a callback, or in the last steps of disconnect, holds.  *)
HandlersConsistent ==
  \A w \in Workers :
    /\ pc[w] = "callback" => conn[w] = peer[socket[cur[w]]]
    /\ pc[w] = "close" => connections_[socket[cur[w]]] = None
    /\ pc[w] = "free" => socket[cur[w]] = None

(* A connection that was reported as closed is on its way out. *)
NotifiedGone ==
  \A k \in notified :
    /\ k \notin clients
    /\ \A s \in Sockets : peer[s] = k =>
         \E w \in Workers : pc[w] \in {"erase", "close"} /\ socket[cur[w]] = s

RegistryInvariant ==
  /\ PeersDistinct
  /\ AcceptedHasPeer
  /\ EntriesHaveContexts
  /\ ContextsHaveEntries
  /\ HandlersConsistent
  /\ NotifiedGone
  /\ NoStraySend

-----------------------------------------------------------------------------
(* Why the callbacks come in order: an inductive invariant *)

(* A connection that was set up stays up until the worker that takes it     *)
(* down closes its handle, and is not set up again.                         *)
SetUpOnce ==
  \A k \in Conns : connected_[k] =>
    /\ k \notin clients
    /\ \A s \in Sockets : peer[s] = k =>
         \E c \in live \ {Listener} :
           /\ socket[c] = s
           /\ \A w \in Workers : cur[w] = c => pc[w] \notin {"list", "register"}

EventsInvariant ==
  /\ SetUpOnce
  /\ \A s \in Sockets : connections_[s] # None => connected_[connections_[s]]
  /\ \A w \in Workers : pc[w] # "callback" => conn[w] = None

-----------------------------------------------------------------------------
(* Why nothing is forgotten: an inductive invariant *)

(* Only Stop posts exit packets, after it has set exiting_. *)
ExitInvariant ==
  /\ exitPackets > 0 \/ main \in {"post", "wait", "close", "done"} => exiting_
  /\ ExitPacketMeansExiting
  /\ \A w \in Workers : pc[w] = "got" => job[w] # NoPacket

(* The accept chain begins after isrunning_ was set. *)
ChainInvariant ==
  /\ AcceptChainUnlessLost
  /\ LostWorkerEndsAccepting
  /\ started => main \notin BeforeUp /\ Listener # None
  /\ main \in {"listen", "associate", "arm"} \/ Listener # None => isrunning_

(* Whoever replaces SocketAccept has passed the handle on before. *)
AccountInvariant ==
  /\ ListMatches
  /\ HandlesAccounted
  /\ main \in {"init", "threads", "listen"} => open = {}
  /\ main = "arm" => SocketAccept[Listener] = None
  /\ \A w \in Workers :
       Listener # None /\ job[w].key = Listener /\ pc[w] \notin {"got", "accept"} =>
         \/ SocketAccept[Listener] \notin open
         \/ \E c \in live \ {Listener} : socket[c] = SocketAccept[Listener]

-----------------------------------------------------------------------------
(* Why no worker is stuck: an inductive invariant *)

(* Whoever posts a WSARecv marks the context for it, and only an accept     *)
(* that succeeded goes on to set a connection up.                           *)
WorkInvariant ==
  /\ DisconnectsSerialized
  /\ NoCaseMissing
  /\ ExitPacketsSuffice
  /\ \A c \in (receiving \cup Queued) \ {Listener} : LastOperation[c] = "IOReceive"
  /\ \A w \in Workers :
       /\ pc[w] = "got" /\ job[w].key \notin {None, Listener} =>
            LastOperation[job[w].key] = "IOReceive"
       /\ pc[w] = "list" => job[w].result # "error"

(* All of what makes the server correct and is kept by every step. *)
ServerInvariant ==
  /\ OwnershipInvariant
  /\ HandleInvariant
  /\ RegistryInvariant
  /\ EventsInvariant
  /\ ExitInvariant
  /\ ChainInvariant
  /\ AccountInvariant
  /\ WorkInvariant

-----------------------------------------------------------------------------
(* What the source says of itself, and the code does not do *)

(* "We should never skip the loop and not post another AcceptEx if the      *)
(* current completion packet is for previous AcceptEx" (WorkerThread).      *)
AlwaysAnotherAccept == started /\ ~exiting_ /\ ~refused => AcceptChain

(* "AcceptEx() failed" (start_accept): a request that AcceptEx refuses is   *)
(* reported, by Start or by the end of the worker.                          *)
RefusedAcceptReported ==
  refused => ~started \/ \E w \in Workers : pc[w] = "exited"

(* "post an exiting command to all worker threads" (exiting): they all end. *)
ExitReachesWorkers == exiting_ ~> (Stopped \/ undefined)

(* "do clean up in the main thread" (WorkerThread, about its early return): *)
(* once Stop is over no connection's context is left.                       *)
CleanedUp == main = "done" => socket_contexts_ = {}

=============================================================================
