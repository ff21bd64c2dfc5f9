----------------------------- MODULE TcpClient -----------------------------
(***************************************************************************)
(* TcpClient (src/net/impl/TcpClient.hpp) on top of the engine of           *)
(* IocpHandler.  The client owns one connection, connection_, and one       *)
(* worker; the connection's own context takes the place of the listener's.  *)
(* The thread of ClientSession in src/main.cpp calls Start, sends, calls    *)
(* Stop, and the client is destroyed.                                       *)
(***************************************************************************)
EXTENDS IocpHandler

CONSTANT connection_   \* the client's TcpConnection

ASSUME ClientAssumption == Conns = {connection_}

VARIABLE main          \* where the thread that owns the client is

vars == <<handlerVars, main>>

MainLabels == {"init", "handler", "threads", "associate", "receive", "up",
               "stopped", "destroyed"}

(* A client's worker only receives: it neither accepts nor gets past the    *)
(* first test of disconnect.                                                *)
ClientLabels == {"none", "idle", "got", "lookup", "callback", "post", "lock",
                 "exited"}

ClientTypeOK ==
  /\ HandlerTypeOK
  /\ main \in MainLabels
  /\ pc \in [Workers -> ClientLabels]

Init == HandlerInit /\ main = "init"

-----------------------------------------------------------------------------
(* Start *)

MainGoto(from, to) ==
  /\ main = from
  /\ main' = to

(* Faulty: leaves connected_ as TcpConnection's constructor set it. *)
InitConnectUnset ==
  /\ MainGoto("init", "handler")
  /\ \E s \in Sockets \ open :
       /\ open' = open \cup {s}
       /\ peer' = [peer EXCEPT ![s] = connection_]
       /\ socket_' = [socket_ EXCEPT ![connection_] = s]
       /\ connections_' = [connections_ EXCEPT ![s] = connection_]
  /\ clients' = clients \ {connection_}
  /\ UNCHANGED <<engineVars, locker_, socket_contexts_, contextVars, connected_,
                 notified, strayed, threadVars, ioVars, undefined>>

(* init_connect: connect_to, connected_, SetIocpHandler and connections_. *)
InitConnect ==
  /\ MainGoto("init", "handler")
  /\ \E s \in Sockets \ open :
       /\ open' = open \cup {s}
       /\ peer' = [peer EXCEPT ![s] = connection_]
       /\ socket_' = [socket_ EXCEPT ![connection_] = s]
       /\ connections_' = [connections_ EXCEPT ![s] = connection_]
  /\ clients' = clients \ {connection_}
  /\ connected_' = [connected_ EXCEPT ![connection_] = TRUE]
  /\ UNCHANGED <<engineVars, locker_, socket_contexts_, contextVars, notified,
                 strayed, threadVars, ioVars, undefined>>

(* There is no new socket, or it stays in connection_ and connect fails. *)
ConnectFails ==
  /\ MainGoto("init", "up")
  /\ \/ \E s \in Sockets \ open :
          /\ open' = open \cup {s}
          /\ socket_' = [socket_ EXCEPT ![connection_] = s]
     \/ UNCHANGED <<open, socket_>>
  /\ UNCHANGED <<engineVars, locker_, registryVars, contextVars, connected_,
                 notified, strayed, threadVars, peer, clients, ioVars,
                 undefined>>

(* IocpHandler::start *)
StartHandler == MainGoto("handler", "threads") /\ InitHandler

StartWorker(w) ==
  /\ main = "threads"
  /\ CreateWorker(w)
  /\ UNCHANGED main

HandlerStarted == MainGoto("threads", "associate") /\ SetRunning

HandlerFails ==
  \/ MainGoto("handler", "up") /\ UNCHANGED handlerVars
  \/ MainGoto("handler", "up") /\ InitHandler
  \/ MainGoto("threads", "up") /\ CreateWorkerFails

(* init_receive: updateCompletionPort lists the context, in contrast to the *)
(* listener's, *)
InitReceive ==
  /\ MainGoto("associate", "receive")
  /\ \E n \in Contexts :
       /\ NewContext(n, socket_[connection_], "IOReceive")
       /\ the_socket_context_' = n
       /\ socket_contexts_' = socket_contexts_ \cup {n}
  /\ UNCHANGED <<exiting_, isrunning_, iocp_handle_, locker_, connections_,
                 connVars, threadVars, socketVars, ioVars, undefined>>

(* or fails: the result is dereferenced without a test for NULL. *)
InitReceiveFails ==
  /\ main = "associate"
  /\ iocp_handle_' = FALSE
  /\ the_socket_context_' = None
  /\ undefined' = TRUE
  /\ UNCHANGED <<exiting_, isrunning_, locker_, registryVars, contextVars,
                 connVars, threadVars, socketVars, ioVars, main>>

PostFirstReceive ==
  /\ MainGoto("receive", "up")
  /\ receiving' = receiving \cup {the_socket_context_}
  /\ UNCHANGED <<engineVars, locker_, registryVars, contextVars, connVars,
                 threadVars, socketVars, acceptVars, port, exitPackets,
                 undefined>>

(* WSARecv fails.  disconnect takes the context for the listener's and does *)
(* nothing, and Start returns COMM_SUCCESS.                                 *)
FirstReceiveFails ==
  /\ MainGoto("receive", "up")
  /\ locker_ = None
  /\ socket[the_socket_context_] = socket_[connection_]
  /\ UNCHANGED handlerVars

-----------------------------------------------------------------------------
(* After Start *)

(* ClientSession sends; it does not test what Start returned. *)
ClientSend ==
  /\ main = "up"
  /\ Send(connection_)
  /\ UNCHANGED <<engineVars, locker_, registryVars, contextVars, socket_,
                 connected_, notified, threadVars, socketVars, ioVars,
                 undefined, main>>

(* Stop returns COMM_SUCCESS and does nothing else. *)
Stop == MainGoto("up", "stopped") /\ UNCHANGED handlerVars

(* ~TcpClient deletes the handler; its worker is not told. *)
Destroy == MainGoto("stopped", "destroyed") /\ UNCHANGED handlerVars

(* When Start connected and made no worker, the handler exists and its      *)
(* worker_threads_ may never have been set: ~IocpHandler deletes what it    *)
(* finds there, or nothing if it finds NULL (Destroy).                      *)
DestroyHalfStarted ==
  /\ MainGoto("stopped", "destroyed")
  /\ connected_[connection_]
  /\ \A w \in Workers : pc[w] = "none"
  /\ undefined' = TRUE
  /\ UNCHANGED <<engineVars, locker_, registryVars, contextVars, connVars,
                 threadVars, socketVars, ioVars>>

Working == {w \in Workers : pc[w] \notin {"none", "idle", "exited"}}

(* The worker goes on to use the deleted handler. *)
UseDestroyed ==
  /\ main = "destroyed"
  /\ Working # {}
  /\ undefined' = TRUE
  /\ UNCHANGED <<engineVars, locker_, registryVars, contextVars, connVars,
                 threadVars, socketVars, ioVars, main>>

MainStep ==
  \/ InitConnect
  \/ ConnectFails
  \/ StartHandler
  \/ \E w \in Workers : StartWorker(w)
  \/ HandlerStarted
  \/ HandlerFails
  \/ InitReceive
  \/ InitReceiveFails
  \/ PostFirstReceive
  \/ FirstReceiveFails
  \/ ClientSend
  \/ Stop
  \/ Destroy
  \/ DestroyHalfStarted
  \/ UseDestroyed

EngineStep ==
  /\ \/ \E w \in Workers : WorkerStep(w) \/ CallbackSend(w)
     \/ SystemStep
  /\ UNCHANGED main

Next ==
  /\ ~undefined
  /\ MainStep \/ EngineStep

Spec == Init /\ [][Next]_vars

-----------------------------------------------------------------------------
(* Fairness: the worker is scheduled and application callbacks return. *)
Fairness ==
  \A w \in Workers : WF_vars(~undefined /\ WorkerStep(w) /\ UNCHANGED main)

FairSpec == Spec /\ Fairness

-----------------------------------------------------------------------------
(* Properties of the client *)

(* The client keeps its connection for as long as its context exists: the   *)
(* handle stays open, listed and registered, and disconnect, which takes    *)
(* the context for the listener's, releases none of it.                     *)
ConnectionKept ==
  the_socket_context_ # None =>
    LET s == socket[the_socket_context_]
    IN  /\ s \in open /\ s = socket_[connection_]
        /\ connections_[s] = connection_
        /\ socket_contexts_ = {the_socket_context_}
        /\ the_socket_context_ \in live

-----------------------------------------------------------------------------
(* Why the connection is kept: an inductive invariant *)

(* There is no context but the connection's, and it only receives. *)
OneContext ==
  /\ live = {the_socket_context_} \ {None}
  /\ accepting = {} /\ exitPackets = 0 /\ locker_ = None
  /\ receiving \cup Queued \subseteq live
  /\ the_socket_context_ # None => LastOperation[the_socket_context_] = "IOReceive"
  /\ main \in {"init", "handler", "threads", "associate"} =>
       the_socket_context_ = None
  /\ main = "receive" =>
       /\ the_socket_context_ # None /\ receiving = {} /\ port = {}
       /\ \A w \in Workers : job[w] = NoPacket

(* A worker has a packet of that context from "got" on, and works on the    *)
(* context, and on no other, once it has looked at the packet.              *)
ThreadsReceive ==
  \A w \in Workers :
    /\ pc[w] \in {"none", "idle", "exited"} => job[w] = NoPacket
    /\ pc[w] \notin {"none", "idle", "exited"} =>
         /\ the_socket_context_ # None
         /\ job[w].key = the_socket_context_
    /\ cur[w] = IF pc[w] \in {"lookup", "callback", "post", "lock"}
                 THEN the_socket_context_ ELSE None
    /\ conn[w] = IF pc[w] = "callback" THEN connection_ ELSE None

(* Once connected, the handle of connection_ stays open and registered. *)
StaysConnected ==
  /\ main = "init" => ~connected_[connection_]
  /\ main \in {"handler", "threads", "associate"} => connected_[connection_]
  /\ connected_[connection_] =>
       LET s == socket_[connection_]
       IN  s \in open /\ peer[s] = connection_ /\ connections_[s] = connection_
  /\ the_socket_context_ # None =>
       connected_[connection_] /\ socket[the_socket_context_] = socket_[connection_]
  /\ socket_contexts_ = live

ClientInvariant ==
  /\ ClientTypeOK
  /\ SingleOwner
  /\ OneContext
  /\ ThreadsReceive
  /\ StaysConnected
  /\ NoStraySend

-----------------------------------------------------------------------------
(* Liveness of the client, and what its comments say *)

(* Received data reaches onDataReceived, although the worker is started      *)
(* before isrunning_ is set and leaves when it finds it unset.              *)
DataReceived == \E p \in port : p.result = "data"

DataDelivered ==
  DataReceived ~> (undefined \/ \E w \in Workers : conn[w] = connection_)

(* "disconnected by the client" (WorkerThread), onDisconnected (TcpClient): *)
(* the application is told when its peer closes a connection it has not     *)
(* stopped using.                                                           *)
CloseReported ==
  PeerClosed(connection_) ~>
    (connection_ \in notified \/ main \in {"stopped", "destroyed"} \/ undefined)

=============================================================================
