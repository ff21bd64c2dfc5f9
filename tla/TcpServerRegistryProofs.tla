---------------------- MODULE TcpServerRegistryProofs ----------------------
(***************************************************************************)
(* Proofs about connections_ and the callbacks of TcpServer, for any number *)
(* of workers, contexts, handles and connections.  RegistryInvariant and    *)
(* EventsInvariant are inductive beside OwnershipInvariant and              *)
(* HandleInvariant: a worker with data, or one that disconnects, finds the  *)
(* entry of its own connection, a Send from a callback reaches the          *)
(* connection's peer, onDisconnected is called once for each, and the       *)
(* server implements ConnectionEvents.  AccountInvariant adds that no       *)
(* context and no handle is forgotten, WorkInvariant that no packet is      *)
(* without a case and no worker without an exit packet.                     *)
(***************************************************************************)
EXTENDS TcpServerProofs

-----------------------------------------------------------------------------
(* A worker that has not closed the socket of its context yet is the only   *)
(* one at that context, and the context the only one with that socket.      *)
LEMMA CurrentContext ==
  ASSUME OwnershipInvariant, HandleInvariant, NEW w \in Workers,
         cur[w] # None, pc[w] # "free"
  PROVE  /\ cur[w] \in live \ {Listener} /\ cur[w] \in Contexts
         /\ socket[cur[w]] \in Sockets /\ socket[cur[w]] # None
         /\ socket[cur[w]] \in open
         /\ \A v \in Workers \ {w} : cur[v] # cur[w]
         /\ \A c \in live \ {cur[w]} : socket[c] # socket[cur[w]]
<1> USE HandlerAssumption
    DEF OwnershipInvariant, ServerTypeOK, HandlerTypeOK, HandleInvariant
<1>1. cur[w] \in Holds(w) /\ cur[w] \in Contexts
  BY DEF Holds
<1>2. cur[w] \in live \ {Listener}
  BY <1>1 DEF NoDanglingContext, ListenerApart
<1>3. \A v \in Workers \ {w} : cur[v] # cur[w]
  <2> SUFFICES ASSUME NEW v \in Workers \ {w}, cur[v] = cur[w]
               PROVE  FALSE
    OBVIOUS
  <2>1. cur[v] \in Holds(v)
    BY DEF Holds
  <2> QED BY <1>1, <2>1 DEF SingleOwner
<1>4. socket[cur[w]] # None
  BY <1>2, <1>3 DEF ConnectionContexts
<1> QED BY <1>1, <1>2, <1>3, <1>4 DEF DistinctHandles

(* Its connection is in connections_, but while it is set up or taken down. *)
LEMMA CurrentEntry ==
  ASSUME OwnershipInvariant, HandleInvariant, RegistryInvariant,
         NEW w \in Workers, cur[w] # None,
         pc[w] \notin {"list", "register", "close", "free"}
  PROVE  /\ peer[socket[cur[w]]] \in Conns
         /\ connections_[socket[cur[w]]] = peer[socket[cur[w]]]
         /\ socket_[peer[socket[cur[w]]]] = socket[cur[w]]
<1>1. cur[w] \in live \ {Listener} /\ socket[cur[w]] # None
  BY CurrentContext
<1>2. \A v \in Workers \ {w} : cur[v] # cur[w]
  BY CurrentContext
<1> QED BY <1>1, <1>2 DEF RegistryInvariant, ContextsHaveEntries

(* A step that touches no connection, and no context of one.                *)
LEMMA RegistryKept ==
  ASSUME RegistryInvariant, AcceptedHasPeer',
         UNCHANGED <<the_socket_context_, connections_, live, socket, socket_,
                     peer, clients, notified, strayed>>,
         \A v \in Workers :
           pc[v] \in {"list", "register", "erase", "close"} =>
             /\ cur'[v] = cur[v]
             /\ pc'[v] = pc[v] \/ (pc[v] = "list" /\ pc'[v] = "register"),
         \A v \in Workers :
           pc'[v] \in {"callback", "close", "free"} =>
             pc'[v] = pc[v] /\ cur'[v] = cur[v] /\ conn'[v] = conn[v]
  PROVE  RegistryInvariant'
<1> USE DEF Listener, RegistryInvariant
<1>1. PeersDistinct'
  BY DEF PeersDistinct
<1>2. EntriesHaveContexts'
  BY DEF EntriesHaveContexts
<1>3. ContextsHaveEntries'
  <2> SUFFICES ASSUME NEW c \in live \ {Listener}, socket[c] # None
               PROVE  /\ peer[socket[c]] \in Conns
                      /\ \/ \E v \in Workers :
                              pc'[v] \in {"list", "register", "close"} /\ cur'[v] = c
                         \/ /\ connections_[socket[c]] = peer[socket[c]]
                            /\ socket_[peer[socket[c]]] = socket[c]
    BY DEF ContextsHaveEntries
  <2> QED BY DEF ContextsHaveEntries
<1>4. HandlersConsistent'
  BY DEF HandlersConsistent
<1>5. NotifiedGone'
  BY DEF NotifiedGone
<1>6. NoStraySend'
  BY DEF NoStraySend
<1> QED BY <1>1, <1>2, <1>3, <1>4, <1>5, <1>6

-----------------------------------------------------------------------------
(* A worker takes a packet out of the port, or leaves. *)
LEMMA DequeueRegistry ==
  ASSUME OwnershipInvariant, HandleInvariant, RegistryInvariant,
         UNCHANGED serverVars, NEW w \in Workers,
         \/ \E p \in port : GetPacket(w, p)
         \/ GetExitPacket(w)
         \/ StopWorker(w)
  PROVE  RegistryInvariant'
<1> USE HandlerAssumption
    DEF OwnershipInvariant, ServerTypeOK, HandlerTypeOK, HandleInvariant,
        Goto, serverVars, engineVars, registryVars, contextVars, connVars,
        threadVars, socketVars, acceptVars, ioVars
<1>Quiet. CASE \/ \E p \in port : GetPacket(w, p)
               \/ GetExitPacket(w)
               \/ StopWorker(w)
  <2> USE <1>Quiet DEF GetPacket, GetExitPacket, StopWorker, LeaveThread
  <2>1. AcceptedHasPeer'
    BY DEF RegistryInvariant, AcceptedHasPeer, Listener, ExitPacket
  <2>2. \A v \in Workers :
          pc[v] \in {"list", "register", "erase", "close"} =>
            /\ cur'[v] = cur[v]
            /\ pc'[v] = pc[v] \/ (pc[v] = "list" /\ pc'[v] = "register")
    OBVIOUS
  <2>3. \A v \in Workers :
          pc'[v] \in {"callback", "close", "free"} =>
            pc'[v] = pc[v] /\ cur'[v] = cur[v] /\ conn'[v] = conn[v]
    OBVIOUS
  <2> QED BY <2>1, <2>2, <2>3, RegistryKept

<1> QED BY <1>Quiet

(* A worker handles the completion of an AcceptEx. *)
LEMMA AcceptRegistry ==
  ASSUME OwnershipInvariant, HandleInvariant, RegistryInvariant,
         UNCHANGED serverVars, NEW w \in Workers, AcceptStep(w)
  PROVE  RegistryInvariant'
<1> USE HandlerAssumption
    DEF OwnershipInvariant, ServerTypeOK, HandlerTypeOK, HandleInvariant,
        Goto, serverVars, engineVars, registryVars, contextVars, connVars,
        threadVars, socketVars, acceptVars, ioVars
<1>Quiet. CASE \/ DispatchAccept(w)
               \/ AcceptFails(w)
               \/ AssociateFails(w)
               \/ PushContext(w)
  <2> USE <1>Quiet DEF DispatchAccept, Dispatch, HasWork, AcceptFails,
                       LeaveThread, AssociateFails, CanHandleAccept, PushContext
  <2>1. AcceptedHasPeer'
    BY DEF RegistryInvariant, AcceptedHasPeer, Listener
  <2>2. \A v \in Workers :
          pc[v] \in {"list", "register", "erase", "close"} =>
            /\ cur'[v] = cur[v]
            /\ pc'[v] = pc[v] \/ (pc[v] = "list" /\ pc'[v] = "register")
    OBVIOUS
  <2>3. \A v \in Workers :
          pc'[v] \in {"callback", "close", "free"} =>
            pc'[v] = pc[v] /\ cur'[v] = cur[v] /\ conn'[v] = conn[v]
    OBVIOUS
  <2> QED BY <2>1, <2>2, <2>3, RegistryKept

<1>HandleAccept. CASE HandleAccept(w)
  <2> USE <1>HandleAccept DEF HandleAccept, CanHandleAccept, RegistryInvariant
  <2>1. PICK n \in Contexts :
          /\ NewContext(n, SocketAccept[Listener], "IOConnect")
          /\ cur' = [cur EXCEPT ![w] = n]
    BY DEF ThreadsConsistent, Listener
  <2>2. job[w].key = Listener /\ Listener # None
    BY DEF ThreadsConsistent, Packet, Listener
  <2>3. Listener \in live /\ n \notin live
    BY <2>1, <2>2, ListenerHeld DEF NewContext
  <2>4. peer[SocketAccept[Listener]] \in Conns
    BY <2>2 DEF AcceptedHasPeer
  <2>5. \A v \in Workers : cur[v] # None => cur[v] \in live
    BY DEF NoDanglingContext, Holds
  <2>6. AcceptedHasPeer'
    BY <2>1, <2>2, <2>3, ListenerHeld DEF AcceptedHasPeer, NewContext, Listener, Queued
  <2>7. EntriesHaveContexts'
    <3>1. \A c \in live : c \in live' /\ socket'[c] = socket[c]
      BY <2>1, <2>3 DEF NewContext
    <3> QED BY <3>1 DEF EntriesHaveContexts, Listener
  <2>8. ContextsHaveEntries'
    <3> SUFFICES ASSUME NEW c \in live' \ {Listener}, socket'[c] # None
                 PROVE  /\ peer[socket'[c]] \in Conns
                        /\ \/ \E v \in Workers :
                                pc'[v] \in {"list", "register", "close"} /\ cur'[v] = c
                           \/ /\ connections_[socket'[c]] = peer[socket'[c]]
                              /\ socket_[peer[socket'[c]]] = socket'[c]
      BY DEF ContextsHaveEntries, Listener
    <3>1. CASE c = n
      <4>1. socket'[c] = SocketAccept[Listener]
        BY <2>1, <3>1 DEF NewContext
      <4>2. pc'[w] = "list" /\ cur'[w] = c
        BY <2>1, <3>1
      <4> QED BY <2>4, <4>1, <4>2
    <3>2. CASE c # n
      <4>1. c \in live \ {Listener} /\ socket'[c] = socket[c]
        BY <2>1, <3>2 DEF NewContext
      <4>2. \A v \in Workers : pc[v] \in {"list", "register", "close"} =>
              pc'[v] = pc[v] /\ cur'[v] = cur[v]
        BY <2>1
      <4> QED BY <4>1, <4>2 DEF ContextsHaveEntries
    <3> QED BY <3>1, <3>2
  <2>9. HandlersConsistent'
    <3> SUFFICES ASSUME NEW v \in Workers, pc'[v] \in {"callback", "close", "free"}
                 PROVE  /\ pc[v] = pc'[v] /\ cur'[v] = cur[v]
                        /\ socket'[cur[v]] = socket[cur[v]]
      BY DEF HandlersConsistent
    <3>1. pc[v] = pc'[v] /\ v # w
      OBVIOUS
    <3>2. cur'[v] = cur[v]
      BY <2>1, <3>1
    <3>3. cur[v] \in live /\ cur[v] \in Contexts
      BY <2>5, <3>1 DEF ThreadsConsistent
    <3>4. socket'[cur[v]] = socket[cur[v]]
      BY <2>1, <2>3, <3>3 DEF NewContext
    <3> QED BY <3>1, <3>2, <3>4
  <2>10. NotifiedGone'
    <3>1. ASSUME NEW v \in Workers, pc[v] \in {"erase", "close"}
          PROVE  pc'[v] = pc[v] /\ socket'[cur'[v]] = socket[cur[v]]
      <4>1. cur[v] \in live /\ cur[v] \in Contexts
        BY <2>5, <3>1 DEF ThreadsConsistent
      <4> QED BY <2>1, <2>3, <3>1, <4>1 DEF NewContext
    <3> QED BY <3>1 DEF NotifiedGone
  <2> QED BY <2>6, <2>7, <2>8, <2>9, <2>10 DEF PeersDistinct, NoStraySend

<1>RegisterConnection. CASE RegisterConnection(w)
  <2> USE <1>RegisterConnection DEF RegisterConnection, RegistryInvariant
  <2> DEFINE s == socket[cur[w]]
             k == peer[s]
  <2>1. /\ cur[w] \in live \ {Listener} /\ s \in Sockets
        /\ \A c \in live \ {cur[w]} : socket[c] # s
    BY CurrentContext DEF ThreadsConsistent
  <2>2. \A v \in Workers \ {w} : cur[v] # cur[w]
    BY CurrentContext DEF ThreadsConsistent
  <2>3. /\ k \in Conns
        /\ socket_' = [socket_ EXCEPT ![k] = s]
        /\ connections_' = [connections_ EXCEPT ![s] = k]
    OBVIOUS
  <2>4. /\ \A v \in Workers \ {w} : pc'[v] = pc[v] /\ conn'[v] = conn[v]
        /\ (pc'[w] = "callback" /\ conn'[w] = k) \/ pc'[w] = "post"
    OBVIOUS
  <2>5. AcceptedHasPeer'
    BY DEF AcceptedHasPeer, Listener
  <2>6. EntriesHaveContexts'
    BY <2>1, <2>3 DEF EntriesHaveContexts, Listener
  <2>7. ContextsHaveEntries'
    <3> SUFFICES ASSUME NEW c \in live \ {Listener}, socket[c] # None
                 PROVE  /\ peer[socket[c]] \in Conns
                        /\ \/ \E v \in Workers :
                                pc'[v] \in {"list", "register", "close"} /\ cur[v] = c
                           \/ /\ connections_'[socket[c]] = peer[socket[c]]
                              /\ socket_'[peer[socket[c]]] = socket[c]
      BY DEF ContextsHaveEntries, Listener
    <3>1. CASE c = cur[w]
      BY <2>3, <3>1
    <3>2. CASE c # cur[w]
      <4>1. c \in Contexts /\ socket[c] \in Sockets /\ socket[c] # s
        BY <2>1, <3>2
      <4>2. peer[socket[c]] \in Conns
        BY DEF ContextsHaveEntries
      <4>3. peer[socket[c]] # k
        BY <2>1, <2>3, <4>1, <4>2 DEF PeersDistinct
      <4>4. /\ connections_'[socket[c]] = connections_[socket[c]]
            /\ socket_'[peer[socket[c]]] = socket_[peer[socket[c]]]
        BY <2>3, <4>1, <4>2, <4>3
      <4>5. \A v \in Workers : cur[v] = c => pc'[v] = pc[v]
        BY <2>4, <3>2
      <4> QED BY <4>2, <4>4, <4>5 DEF ContextsHaveEntries
    <3> QED BY <3>1, <3>2
  <2>8. HandlersConsistent'
    <3> SUFFICES ASSUME NEW v \in Workers
                 PROVE  /\ pc'[v] = "callback" => conn'[v] = peer[socket[cur[v]]]
                        /\ pc'[v] = "close" => connections_'[socket[cur[v]]] = None
                        /\ pc'[v] = "free" => socket[cur[v]] = None
      BY DEF HandlersConsistent
    <3>1. CASE v = w
      BY <2>4, <3>1
    <3>2. CASE v # w
      <4>1. pc'[v] = pc[v] /\ conn'[v] = conn[v]
        BY <2>4, <3>2
      <4>2. pc[v] = "close" => cur[v] \in live /\ socket[cur[v]] \in Sockets
        BY CurrentContext DEF ThreadsConsistent
      <4>3. pc[v] = "close" => connections_'[socket[cur[v]]] = connections_[socket[cur[v]]]
        BY <2>1, <2>2, <2>3, <3>2, <4>2
      <4> QED BY <4>1, <4>3 DEF HandlersConsistent
    <3> QED BY <3>1, <3>2
  <2>9. NotifiedGone'
    BY <2>4 DEF NotifiedGone
  <2> QED BY <2>5, <2>6, <2>7, <2>8, <2>9 DEF PeersDistinct, NoStraySend

<1>Arm. CASE \/ Rearm(w)
             \/ RearmFails(w)
  <2> USE <1>Arm DEF Rearm, StartAccept, EndJob, RearmFails, StartAcceptFails,
                     LeaveThread
  <2>1. AcceptedHasPeer'
    <3>1. job[w].key = Listener /\ Listener # None
      BY DEF ThreadsConsistent, Packet, Listener
    <3>2. \A p \in port : p.key # Listener
      BY <3>1, ListenerHeld DEF Queued
    <3>3. \A v \in Workers : pc'[v] \in {"got", "accept"} =>
            v # w /\ pc[v] = pc'[v] /\ job'[v] = job[v]
      OBVIOUS
    <3>4. \A v \in Workers \ {w} : job[v].key # Listener
      BY <3>1, ListenerHeld
    <3>5. accepting' \subseteq {Listener}
      BY DEF RegistryInvariant, AcceptedHasPeer, Listener
    <3> QED BY <3>2, <3>3, <3>4, <3>5 DEF AcceptedHasPeer, Listener
  <2>2. \A v \in Workers :
          pc[v] \in {"list", "register", "erase", "close"} =>
            cur'[v] = cur[v] /\ pc'[v] = pc[v]
    OBVIOUS
  <2>3. \A v \in Workers :
          pc'[v] \in {"callback", "close", "free"} =>
            pc'[v] = pc[v] /\ cur'[v] = cur[v] /\ conn'[v] = conn[v]
    OBVIOUS
  <2> QED BY <2>1, <2>2, <2>3, RegistryKept

<1> QED BY <1>Quiet, <1>HandleAccept, <1>RegisterConnection, <1>Arm
        DEF AcceptStep

(* A worker handles received data, or an application sends from a callback. *)
LEMMA ReceiveRegistry ==
  ASSUME OwnershipInvariant, HandleInvariant, RegistryInvariant,
         UNCHANGED serverVars, NEW w \in Workers,
         ReceiveStep(w) \/ CallbackSend(w)
  PROVE  RegistryInvariant'
<1> USE HandlerAssumption
    DEF OwnershipInvariant, ServerTypeOK, HandlerTypeOK, HandleInvariant,
        Goto, serverVars, engineVars, registryVars, contextVars, connVars,
        threadVars, socketVars, acceptVars, ioVars
<1>Quiet. CASE \/ DispatchReceive(w)
               \/ CallbackReturns(w)
               \/ PostReceive(w)
               \/ PostReceiveFails(w)
  <2> USE <1>Quiet DEF DispatchReceive, Dispatch, HasWork, CallbackReturns,
                       PostReceive, Return, EndJob, PostReceiveFails
  <2>1. AcceptedHasPeer'
    BY DEF RegistryInvariant, AcceptedHasPeer, Listener, NoPacket
  <2>2. \A v \in Workers :
          pc[v] \in {"list", "register", "erase", "close"} =>
            /\ cur'[v] = cur[v]
            /\ pc'[v] = pc[v] \/ (pc[v] = "list" /\ pc'[v] = "register")
    OBVIOUS
  <2>3. \A v \in Workers :
          pc'[v] \in {"callback", "close", "free"} =>
            pc'[v] = pc[v] /\ cur'[v] = cur[v] /\ conn'[v] = conn[v]
    OBVIOUS
  <2> QED BY <2>1, <2>2, <2>3, RegistryKept

<1>HandleReceive. CASE HandleReceive(w)
  <2> USE <1>HandleReceive DEF HandleReceive, RegistryInvariant
  <2>1. conn'[w] = peer[socket[cur[w]]]
    BY CurrentEntry DEF ThreadsConsistent
  <2>2. \A v \in Workers \ {w} : pc'[v] = pc[v] /\ conn'[v] = conn[v]
    OBVIOUS
  <2>3. AcceptedHasPeer'
    BY DEF AcceptedHasPeer, Listener
  <2>4. ContextsHaveEntries'
    BY <2>2 DEF ContextsHaveEntries, Listener
  <2>5. HandlersConsistent'
    BY <2>1, <2>2 DEF HandlersConsistent
  <2>6. NotifiedGone'
    BY <2>2 DEF NotifiedGone
  <2> QED BY <2>3, <2>4, <2>5, <2>6
          DEF PeersDistinct, EntriesHaveContexts, NoStraySend, Listener

<1>CallbackSend. CASE CallbackSend(w)
  <2> USE <1>CallbackSend DEF CallbackSend
  <2>1. cur[w] # None
    BY DEF ThreadsConsistent
  <2>2. conn[w] = peer[socket[cur[w]]]
    BY DEF RegistryInvariant, HandlersConsistent
  <2>3. socket_[conn[w]] = socket[cur[w]]
    BY <2>1, <2>2, CurrentEntry
  <2>4. ReachesPeer(conn[w])
    BY <2>1, <2>2, <2>3, CurrentContext DEF ReachesPeer
  <2>5. strayed' = strayed
    BY <2>4 DEF Send
  <2>6. AcceptedHasPeer'
    BY DEF RegistryInvariant, AcceptedHasPeer, Listener
  <2> QED BY <2>5, <2>6, RegistryKept

<1> QED BY <1>Quiet, <1>HandleReceive, <1>CallbackSend
        DEF ReceiveStep

(* A worker disconnects. *)
LEMMA DisconnectRegistry ==
  ASSUME OwnershipInvariant, HandleInvariant, RegistryInvariant,
         UNCHANGED serverVars, NEW w \in Workers, DisconnectStep(w)
  PROVE  RegistryInvariant'
<1> USE HandlerAssumption
    DEF OwnershipInvariant, ServerTypeOK, HandlerTypeOK, HandleInvariant,
        Goto, serverVars, engineVars, registryVars, contextVars, connVars,
        threadVars, socketVars, acceptVars, ioVars
<1>Quiet. CASE \/ DispatchDisconnect(w)
               \/ RefuseDisconnect(w)
               \/ EnterDisconnect(w)
  <2> USE <1>Quiet DEF DispatchDisconnect, Dispatch, HasWork, RefuseDisconnect,
                       Return, EndJob, EnterDisconnect
  <2>1. AcceptedHasPeer'
    BY DEF RegistryInvariant, AcceptedHasPeer, Listener, NoPacket
  <2>2. \A v \in Workers :
          pc[v] \in {"list", "register", "erase", "close"} =>
            /\ cur'[v] = cur[v]
            /\ pc'[v] = pc[v] \/ (pc[v] = "list" /\ pc'[v] = "register")
    OBVIOUS
  <2>3. \A v \in Workers :
          pc'[v] \in {"callback", "close", "free"} =>
            pc'[v] = pc[v] /\ cur'[v] = cur[v] /\ conn'[v] = conn[v]
    OBVIOUS
  <2> QED BY <2>1, <2>2, <2>3, RegistryKept

<1>NotifyDisconnected. CASE NotifyDisconnected(w)
  <2> USE <1>NotifyDisconnected DEF NotifyDisconnected, RegistryInvariant
  <2> DEFINE s == socket[cur[w]]
  <2>1. cur[w] # None
    BY DEF ThreadsConsistent
  <2>2. s \in Sockets /\ peer[s] \in Conns /\ connections_[s] = peer[s]
    BY <2>1, CurrentContext, CurrentEntry
  <2>3. notified' = notified \cup {peer[s]}
    BY <2>2
  <2>4. /\ \A v \in Workers \ {w} : pc'[v] = pc[v]
        /\ pc'[w] = "erase"
    OBVIOUS
  <2>5. AcceptedHasPeer'
    BY DEF AcceptedHasPeer, Listener
  <2>6. ContextsHaveEntries'
    BY <2>4 DEF ContextsHaveEntries, Listener
  <2>7. HandlersConsistent'
    BY <2>4 DEF HandlersConsistent
  <2>8. NotifiedGone'
    <3> SUFFICES ASSUME NEW k \in notified'
                 PROVE  /\ k \notin clients
                        /\ \A t \in Sockets : peer[t] = k =>
                             \E v \in Workers :
                               pc'[v] \in {"erase", "close"} /\ socket[cur[v]] = t
      BY DEF NotifiedGone
    <3>1. CASE k = peer[s]
      <4>1. k \notin clients /\ \A t \in Sockets : peer[t] = k => t = s
        BY <2>2, <3>1 DEF PeersDistinct
      <4> QED BY <2>4, <4>1
    <3>2. CASE k \in notified
      BY <2>4, <3>2 DEF NotifiedGone
    <3> QED BY <2>3, <3>1, <3>2
  <2> QED BY <2>5, <2>6, <2>7, <2>8
          DEF PeersDistinct, EntriesHaveContexts, NoStraySend, Listener

<1>EraseConnection. CASE EraseConnection(w)
  <2> USE <1>EraseConnection DEF EraseConnection, RegistryInvariant
  <2> DEFINE s == socket[cur[w]]
  <2>1. /\ cur[w] \in live \ {Listener} /\ s \in Sockets
        /\ \A c \in live \ {cur[w]} : socket[c] # s
    BY CurrentContext DEF ThreadsConsistent
  <2>2. /\ \A v \in Workers \ {w} : pc'[v] = pc[v]
        /\ pc'[w] = "close"
    OBVIOUS
  <2>3. AcceptedHasPeer'
    BY DEF AcceptedHasPeer, Listener
  <2>4. EntriesHaveContexts'
    BY <2>1 DEF EntriesHaveContexts, Listener
  <2>5. ContextsHaveEntries'
    <3> SUFFICES ASSUME NEW c \in live \ {Listener}, socket[c] # None
                 PROVE  /\ peer[socket[c]] \in Conns
                        /\ \/ \E v \in Workers :
                                pc'[v] \in {"list", "register", "close"} /\ cur[v] = c
                           \/ /\ connections_'[socket[c]] = peer[socket[c]]
                              /\ socket_[peer[socket[c]]] = socket[c]
      BY DEF ContextsHaveEntries, Listener
    <3>1. CASE c = cur[w]
      BY <2>2, <3>1 DEF ContextsHaveEntries
    <3>2. CASE c # cur[w]
      <4>1. connections_'[socket[c]] = connections_[socket[c]]
        BY <2>1, <3>2
      <4> QED BY <2>2, <4>1 DEF ContextsHaveEntries
    <3> QED BY <3>1, <3>2
  <2>6. HandlersConsistent'
    <3> SUFFICES ASSUME NEW v \in Workers, v # w
                 PROVE  pc[v] = "close" => connections_'[socket[cur[v]]] = None
      BY <2>1, <2>2 DEF HandlersConsistent
    <3>1. pc[v] = "close" => socket[cur[v]] \in Sockets
      BY CurrentContext DEF ThreadsConsistent
    <3> QED BY <2>1, <3>1 DEF HandlersConsistent
  <2>7. NotifiedGone'
    BY <2>2 DEF NotifiedGone
  <2> QED BY <2>3, <2>4, <2>5, <2>6, <2>7 DEF PeersDistinct, NoStraySend

<1>CloseSocket. CASE CloseSocket(w)
  <2> USE <1>CloseSocket DEF CloseSocket, RegistryInvariant
  <2> DEFINE s == socket[cur[w]]
  <2>1. /\ cur[w] \in live \ {Listener} /\ cur[w] \in Contexts
        /\ s \in Sockets /\ s # None
        /\ \A v \in Workers \ {w} : cur[v] # cur[w]
        /\ \A c \in live \ {cur[w]} : socket[c] # s
    BY CurrentContext DEF ThreadsConsistent
  <2>2. /\ peer' = [t \in Sockets |-> IF t = s THEN None ELSE peer[t]]
        /\ SocketAccept' = [SocketAccept EXCEPT ![cur[w]] = None]
    <3>1. SocketAccept[cur[w]] = None
      BY <2>1 DEF ConnectionContexts
    <3>2. \A t \in Sockets : t \in {s, SocketAccept[cur[w]]} <=> t = s
      BY <3>1
    <3> QED BY <3>2
  <2>3. /\ \A v \in Workers \ {w} : pc'[v] = pc[v]
        /\ pc'[w] = "free"
    OBVIOUS
  <2>4. connections_[s] = None
    BY DEF HandlersConsistent
  <2>5. AcceptedHasPeer'
    <3>1. Listener # None /\ AcceptPending => SocketAccept[Listener] # s
      BY <2>1 DEF AcceptedApart
    <3>2. \A p \in port : p.key = Listener => AcceptPending
      BY DEF AcceptPending, Queued
    <3>3. \A v \in Workers :
            pc[v] \in {"got", "accept"} /\ job[v].key = Listener => AcceptPending
      BY DEF AcceptPending
    <3>4. Listener # None /\ AcceptPending =>
            /\ SocketAccept[Listener] \in Sockets
            /\ SocketAccept'[Listener] = SocketAccept[Listener]
            /\ peer'[SocketAccept[Listener]] = peer[SocketAccept[Listener]]
      BY <2>1, <2>2, <3>1 DEF AcceptedApart, Listener
    <3>5. \A p \in port : p.key # None
      BY DEF Packet
    <3>6. \A v \in Workers : pc'[v] \in {"got", "accept"} => pc[v] = pc'[v]
      BY <2>3
    <3> QED BY <3>2, <3>3, <3>4, <3>5, <3>6 DEF AcceptedHasPeer, Listener
  <2>6. PeersDistinct'
    BY <2>2 DEF PeersDistinct
  <2>7. EntriesHaveContexts'
    BY <2>1, <2>2, <2>4 DEF EntriesHaveContexts, Listener
  <2>8. ContextsHaveEntries'
    <3> SUFFICES ASSUME NEW c \in live \ {Listener}, c # cur[w], socket[c] # None
                 PROVE  /\ peer'[socket[c]] = peer[socket[c]]
                        /\ \A v \in Workers : cur[v] = c => pc'[v] = pc[v]
      BY <2>1 DEF ContextsHaveEntries, Listener
    <3> QED BY <2>1, <2>2, <2>3
  <2>9. HandlersConsistent'
    <3> SUFFICES ASSUME NEW v \in Workers, v # w
                 PROVE  /\ pc[v] = "callback" => peer'[socket'[cur[v]]] = peer[socket[cur[v]]]
                        /\ pc[v] \in {"close", "free"} => socket'[cur[v]] = socket[cur[v]]
      BY <2>1, <2>3 DEF HandlersConsistent
    <3>1. pc[v] \in {"callback", "close", "free"} => socket'[cur[v]] = socket[cur[v]]
      BY <2>1 DEF ThreadsConsistent
    <3>2. pc[v] = "callback" =>
            cur[v] \in live /\ cur[v] # cur[w] /\ socket[cur[v]] \in Sockets
      BY <2>1, CurrentContext DEF ThreadsConsistent
    <3> QED BY <2>1, <2>2, <3>1, <3>2
  <2>10. NotifiedGone'
    <3>1. \A v \in Workers \ {w} :
            pc[v] \in {"erase", "close"} =>
              pc'[v] = pc[v] /\ socket'[cur[v]] = socket[cur[v]]
      BY <2>1, <2>3 DEF ThreadsConsistent
    <3>2. \A t \in Sockets : peer'[t] # None => t # s /\ peer'[t] = peer[t]
      BY <2>2
    <3>3. \A k \in notified : k # None
      OBVIOUS
    <3> QED BY <3>1, <3>2, <3>3 DEF NotifiedGone
  <2> QED BY <2>5, <2>6, <2>7, <2>8, <2>9, <2>10 DEF NoStraySend

<1>FreeContext. CASE FreeContext(w)
  <2> USE <1>FreeContext DEF FreeContext, Return, EndJob, RegistryInvariant
  <2>1. socket[cur[w]] = None
    BY DEF HandlersConsistent
  <2>2. \A v \in Workers \ {w} :
          pc'[v] = pc[v] /\ cur'[v] = cur[v] /\ job'[v] = job[v]
    OBVIOUS
  <2>3. pc'[w] \in {"idle", "rearm"}
    OBVIOUS
  <2>4. AcceptedHasPeer'
    BY <2>2, <2>3 DEF AcceptedHasPeer, Listener
  <2>5. EntriesHaveContexts'
    BY <2>1 DEF EntriesHaveContexts, Listener
  <2>6. ContextsHaveEntries'
    <3> SUFFICES ASSUME NEW c \in live \ {Listener}, socket[c] # None
                 PROVE  /\ peer[socket[c]] \in Conns
                        /\ \/ \E v \in Workers :
                                pc'[v] \in {"list", "register", "close"} /\ cur'[v] = c
                           \/ /\ connections_[socket[c]] = peer[socket[c]]
                              /\ socket_[peer[socket[c]]] = socket[c]
      BY DEF ContextsHaveEntries, Listener
    <3> QED BY <2>2 DEF ContextsHaveEntries
  <2>7. HandlersConsistent'
    BY <2>2, <2>3 DEF HandlersConsistent
  <2>8. NotifiedGone'
    BY <2>2 DEF NotifiedGone
  <2> QED BY <2>4, <2>5, <2>6, <2>7, <2>8 DEF PeersDistinct, NoStraySend

<1> QED BY <1>Quiet, <1>NotifyDisconnected, <1>EraseConnection, <1>CloseSocket,
           <1>FreeContext
        DEF DisconnectStep

(* The system completes an operation, or two workers race. *)
LEMMA SystemRegistry ==
  ASSUME OwnershipInvariant, HandleInvariant, RegistryInvariant,
         UNCHANGED serverVars, SystemStep
  PROVE  RegistryInvariant'
<1> USE HandlerAssumption
    DEF OwnershipInvariant, ServerTypeOK, HandlerTypeOK, HandleInvariant,
        Goto, serverVars, engineVars, registryVars, contextVars, connVars,
        threadVars, socketVars, acceptVars, ioVars
<1>CompleteAccept. CASE \E c \in accepting : CompleteAccept(c)
  <2> USE <1>CompleteAccept DEF CompleteAccept, RegistryInvariant
  <2> DEFINE s == SocketAccept[Listener]
  <2>1. Listener \in accepting /\ Listener # None /\ CompleteAccept(Listener)
    <3>1. PICK c \in accepting : CompleteAccept(c)
      BY <1>CompleteAccept
    <3>2. c = Listener /\ c \in Contexts
      BY DEF AcceptedHasPeer
    <3> QED BY <3>1, <3>2
  <2>2. s \in Sockets /\ \A c \in live : socket[c] # s
    BY <2>1 DEF AcceptedApart, AcceptPending
  <2>3. PICK k \in clients, r \in {"data", "eof"} :
          /\ clients' = clients \ {k}
          /\ peer' = [peer EXCEPT ![s] = k]
          /\ port' = port \cup {[key |-> Listener, result |-> r]}
    BY <2>1
  <2>4. \A v \in Workers :
          pc[v] \in {"callback", "erase", "close"} =>
            cur[v] \in live /\ socket[cur[v]] \in Sockets
    BY CurrentContext DEF ThreadsConsistent
  <2>5. AcceptedHasPeer'
    <3>1. accepting' = {}
      BY <2>1 DEF AcceptedHasPeer
    <3>2. peer'[s] \in Conns
      BY <2>2, <2>3
    <3> QED BY <3>1, <3>2 DEF AcceptedHasPeer, Listener
  <2>6. PeersDistinct'
    BY <2>2, <2>3 DEF PeersDistinct
  <2>7. EntriesHaveContexts'
    BY <2>2, <2>3 DEF EntriesHaveContexts, Listener
  <2>8. ContextsHaveEntries'
    <3> SUFFICES ASSUME NEW c \in live \ {Listener}, socket[c] # None
                 PROVE  peer'[socket[c]] = peer[socket[c]]
      BY DEF ContextsHaveEntries, Listener
    <3> QED BY <2>2, <2>3
  <2>9. HandlersConsistent'
    BY <2>2, <2>3, <2>4 DEF HandlersConsistent
  <2>10. NotifiedGone'
    BY <2>2, <2>3 DEF NotifiedGone
  <2> QED BY <2>5, <2>6, <2>7, <2>8, <2>9, <2>10 DEF NoStraySend

<1>Quiet. CASE \/ \E c \in accepting : AbortAccept(c)
               \/ \E c \in receiving, r \in Results : CompleteReceive(c, r)
               \/ DataRace
  <2> USE <1>Quiet DEF AbortAccept, CompleteReceive, DataRace
  <2>1. AcceptedHasPeer'
    BY DEF RegistryInvariant, AcceptedHasPeer, Listener, ListenerApart
  <2>2. \A v \in Workers :
          pc[v] \in {"list", "register", "erase", "close"} =>
            /\ cur'[v] = cur[v]
            /\ pc'[v] = pc[v] \/ (pc[v] = "list" /\ pc'[v] = "register")
    OBVIOUS
  <2>3. \A v \in Workers :
          pc'[v] \in {"callback", "close", "free"} =>
            pc'[v] = pc[v] /\ cur'[v] = cur[v] /\ conn'[v] = conn[v]
    OBVIOUS
  <2> QED BY <2>1, <2>2, <2>3, RegistryKept

<1> QED BY <1>CompleteAccept, <1>Quiet
        DEF SystemStep

(* The thread that owns the server executes Start. *)
LEMMA StartRegistry ==
  ASSUME OwnershipInvariant, HandleInvariant, RegistryInvariant,
         StartStep
  PROVE  RegistryInvariant'
<1> USE HandlerAssumption
    DEF OwnershipInvariant, ServerTypeOK, HandlerTypeOK, HandleInvariant,
        Goto, serverVars, engineVars, registryVars, contextVars, connVars,
        threadVars, socketVars, acceptVars, ioVars
<1> USE DEF MainGoto, handlerVars
<1>Quiet. CASE \/ StartHandler
               \/ CreateEventFails
               \/ \E w \in Workers : StartWorker(w)
               \/ StartWorkerFails
               \/ HandlerStarted
               \/ CreateListener
               \/ ListenFails
               \/ StartFails
  <2> USE <1>Quiet DEF StartHandler, InitHandler, CreateEventFails, StartWorker,
                       CreateWorker, StartWorkerFails, CreateWorkerFails,
                       HandlerStarted, SetRunning, CreateListener, ListenFails,
                       StartFails
  <2>1. AcceptedHasPeer'
    BY DEF RegistryInvariant, AcceptedHasPeer, Listener
  <2>2. \A v \in Workers :
          pc[v] \in {"list", "register", "erase", "close"} =>
            /\ cur'[v] = cur[v]
            /\ pc'[v] = pc[v] \/ (pc[v] = "list" /\ pc'[v] = "register")
    OBVIOUS
  <2>3. \A v \in Workers :
          pc'[v] \in {"callback", "close", "free"} =>
            pc'[v] = pc[v] /\ cur'[v] = cur[v] /\ conn'[v] = conn[v]
    OBVIOUS
  <2> QED BY <2>1, <2>2, <2>3, RegistryKept

<1>InitAccept. CASE InitAccept
  <2> USE <1>InitAccept DEF InitAccept, NewContext, RegistryInvariant
  <2>1. PICK n \in Contexts :
          NewContext(n, ls_, "IOAccept") /\ the_socket_context_' = n
    OBVIOUS
  <2>2. live = {} /\ live' = {n} /\ Listener' = n
    BY <2>1 DEF StartsQuiet, BeforeUp, ListenerFirst, Listener
  <2>3. \A w \in Workers : pc[w] \in {"none", "idle"}
    BY DEF StartsQuiet, BeforeUp
  <2>4. AcceptedHasPeer'
    BY <2>3 DEF AcceptedHasPeer, StartsQuiet, BeforeUp
  <2>5. EntriesHaveContexts' /\ ContextsHaveEntries'
    BY <2>2 DEF EntriesHaveContexts, ContextsHaveEntries
  <2>6. HandlersConsistent'
    BY <2>3 DEF HandlersConsistent
  <2>7. NotifiedGone'
    BY <2>3 DEF NotifiedGone
  <2> QED BY <2>4, <2>5, <2>6, <2>7 DEF PeersDistinct, NoStraySend

<1>InitAcceptFails. CASE InitAcceptFails
  <2> USE <1>InitAcceptFails DEF InitAcceptFails
  <2>1. UNCHANGED the_socket_context_
    BY DEF StartsQuiet, BeforeUp, Listener
  <2>2. AcceptedHasPeer'
    BY <2>1 DEF RegistryInvariant, AcceptedHasPeer, Listener
  <2> QED BY <2>1, <2>2, RegistryKept

<1>Arm. CASE \/ ArmListener
             \/ ArmListenerFails
  <2> USE <1>Arm DEF ArmListener, StartAccept, ArmListenerFails,
                     StartAcceptFails
  <2>1. AcceptedHasPeer'
    BY DEF AcceptedHasPeer, Listener, StartsQuiet, BeforeUp
  <2>2. \A v \in Workers :
          pc[v] \in {"list", "register", "erase", "close"} =>
            cur'[v] = cur[v] /\ pc'[v] = pc[v]
    OBVIOUS
  <2>3. \A v \in Workers :
          pc'[v] \in {"callback", "close", "free"} =>
            pc'[v] = pc[v] /\ cur'[v] = cur[v] /\ conn'[v] = conn[v]
    OBVIOUS
  <2> QED BY <2>1, <2>2, <2>3, RegistryKept

<1> QED BY <1>Quiet, <1>InitAccept, <1>InitAcceptFails, <1>Arm
        DEF StartStep

(* The thread that owns the server executes Stop. *)
LEMMA StopRegistry ==
  ASSUME OwnershipInvariant, HandleInvariant, RegistryInvariant,
         StopStep
  PROVE  RegistryInvariant'
<1> USE HandlerAssumption
    DEF OwnershipInvariant, ServerTypeOK, HandlerTypeOK, HandleInvariant,
        Goto, serverVars, engineVars, registryVars, contextVars, connVars,
        threadVars, socketVars, acceptVars, ioVars
<1> USE DEF MainGoto, handlerVars
<1>Quiet. CASE \/ BeginStop
               \/ PostExitPackets
               \/ WaitForWorkers
               \/ CloseNoListener
  <2> USE <1>Quiet DEF BeginStop, PostExitPackets, PostPackets, WaitForWorkers,
                       CloseNoListener
  <2>1. AcceptedHasPeer'
    BY DEF RegistryInvariant, AcceptedHasPeer, Listener
  <2>2. \A v \in Workers :
          pc[v] \in {"list", "register", "erase", "close"} =>
            /\ cur'[v] = cur[v]
            /\ pc'[v] = pc[v] \/ (pc[v] = "list" /\ pc'[v] = "register")
    OBVIOUS
  <2>3. \A v \in Workers :
          pc'[v] \in {"callback", "close", "free"} =>
            pc'[v] = pc[v] /\ cur'[v] = cur[v] /\ conn'[v] = conn[v]
    OBVIOUS
  <2> QED BY <2>1, <2>2, <2>3, RegistryKept

<1>CloseListener. CASE CloseListener
  <2> USE <1>CloseListener DEF CloseListener, RegistryInvariant
  <2>1. \A c \in Contexts \ {Listener} : socket'[c] = socket[c]
    BY DEF Listener
  <2>2. \A v \in Workers :
          pc[v] \in {"callback", "erase", "close", "free"} =>
            socket'[cur[v]] = socket[cur[v]]
    BY <2>1 DEF ThreadsConsistent, ListenerApart
  <2>3. AcceptedHasPeer'
    BY DEF AcceptedHasPeer, Listener
  <2>4. EntriesHaveContexts'
    BY <2>1 DEF EntriesHaveContexts, Listener
  <2>5. ContextsHaveEntries'
    BY <2>1 DEF ContextsHaveEntries, Listener
  <2>6. HandlersConsistent'
    BY <2>2 DEF HandlersConsistent
  <2>7. NotifiedGone'
    BY <2>2 DEF NotifiedGone
  <2> QED BY <2>3, <2>4, <2>5, <2>6, <2>7 DEF PeersDistinct, NoStraySend

<1> QED BY <1>Quiet, <1>CloseListener
        DEF StopStep

(* Before Start no connection was made. *)
LEMMA RegistryInit == Init => RegistryInvariant
BY HandlerAssumption
   DEF Init, HandlerInit, RegistryInvariant, PeersDistinct, AcceptedHasPeer,
       EntriesHaveContexts, ContextsHaveEntries, HandlersConsistent,
       NotifiedGone, NoStraySend, Listener

(* Every step of the server keeps the invariant. *)
LEMMA RegistryStep ==
  OwnershipInvariant /\ HandleInvariant /\ RegistryInvariant /\ [Next]_vars
  => RegistryInvariant'
<1> SUFFICES ASSUME OwnershipInvariant, HandleInvariant, RegistryInvariant,
                    [Next]_vars
             PROVE  RegistryInvariant'
  OBVIOUS
<1>1. CASE MainStep
  BY <1>1, StartRegistry, StopRegistry DEF MainStep
<1>2. CASE EngineStep
  <2>1. UNCHANGED serverVars
    BY <1>2 DEF EngineStep
  <2>2. ASSUME NEW w \in Workers, WorkerStep(w) \/ CallbackSend(w)
        PROVE  RegistryInvariant'
    BY <2>1, <2>2, DequeueRegistry, AcceptRegistry, ReceiveRegistry,
       DisconnectRegistry
    DEF WorkerStep, Dequeue
  <2> QED BY <1>2, <2>1, <2>2, SystemRegistry DEF EngineStep
<1>3. CASE UNCHANGED vars
  <2> USE <1>3
      DEF vars, handlerVars, serverVars, engineVars, registryVars, contextVars,
          connVars, threadVars, socketVars, acceptVars, ioVars
  <2>1. AcceptedHasPeer'
    BY DEF RegistryInvariant, AcceptedHasPeer, Listener
  <2> QED BY <2>1, RegistryKept
<1> QED BY <1>1, <1>2, <1>3 DEF Next

-----------------------------------------------------------------------------
(* EventsInvariant *)

(* A step that touches no connection, and no context of one.                *)
LEMMA EventsKept ==
  ASSUME EventsInvariant,
         UNCHANGED <<the_socket_context_, connections_, live, socket, peer,
                     clients, connected_>>,
         \A v \in Workers :
           pc'[v] \in {"list", "register"} =>
             pc[v] \in {"list", "register"} /\ cur'[v] = cur[v],
         \A v \in Workers :
           /\ cur'[v] \in {cur[v], None} \/ pc'[v] \notin {"list", "register"}
           /\ pc'[v] # "callback" => conn'[v] = None
  PROVE  EventsInvariant'
<1> USE DEF Listener, EventsInvariant
<1>1. SetUpOnce'
  <2> SUFFICES ASSUME NEW k \in Conns, connected_[k]
               PROVE  /\ k \notin clients
                      /\ \A s \in Sockets : peer[s] = k =>
                           \E c \in live \ {Listener} :
                             /\ socket[c] = s
                             /\ \A v \in Workers :
                                  cur'[v] = c => pc'[v] \notin {"list", "register"}
    BY DEF SetUpOnce
  <2> QED BY DEF SetUpOnce
<1> QED BY <1>1

(* A worker takes a packet out of the port, or leaves. *)
LEMMA DequeueEvents ==
  ASSUME OwnershipInvariant, HandleInvariant, RegistryInvariant, EventsInvariant,
         UNCHANGED serverVars, NEW w \in Workers,
         \/ \E p \in port : GetPacket(w, p)
         \/ GetExitPacket(w)
         \/ StopWorker(w)
  PROVE  EventsInvariant'
<1> USE HandlerAssumption
    DEF OwnershipInvariant, ServerTypeOK, HandlerTypeOK, HandleInvariant,
        Goto, serverVars, engineVars, registryVars, contextVars, connVars,
        threadVars, socketVars, acceptVars, ioVars
<1>Quiet. CASE \/ \E p \in port : GetPacket(w, p)
               \/ GetExitPacket(w)
               \/ StopWorker(w)
  <2> USE <1>Quiet DEF GetPacket, GetExitPacket, StopWorker, LeaveThread
  <2>1. \A v \in Workers :
          pc'[v] \in {"list", "register"} =>
            pc[v] \in {"list", "register"} /\ cur'[v] = cur[v]
    OBVIOUS
  <2>2. \A v \in Workers : pc'[v] # "callback" => conn'[v] = None
    BY DEF EventsInvariant
  <2> QED BY <2>1, <2>2, EventsKept

<1> QED BY <1>Quiet

(* A worker handles the completion of an AcceptEx. *)
LEMMA AcceptEvents ==
  ASSUME OwnershipInvariant, HandleInvariant, RegistryInvariant, EventsInvariant,
         UNCHANGED serverVars, NEW w \in Workers, AcceptStep(w)
  PROVE  EventsInvariant'
<1> USE HandlerAssumption
    DEF OwnershipInvariant, ServerTypeOK, HandlerTypeOK, HandleInvariant,
        Goto, serverVars, engineVars, registryVars, contextVars, connVars,
        threadVars, socketVars, acceptVars, ioVars
<1>Quiet. CASE \/ DispatchAccept(w)
               \/ AcceptFails(w)
               \/ AssociateFails(w)
               \/ PushContext(w)
               \/ Rearm(w)
               \/ RearmFails(w)
  <2> USE <1>Quiet DEF DispatchAccept, Dispatch, HasWork, AcceptFails,
                       LeaveThread, AssociateFails, CanHandleAccept,
                       PushContext, Rearm, EndJob, StartAccept, RearmFails,
                       StartAcceptFails
  <2>1. \A v \in Workers :
          pc'[v] \in {"list", "register"} =>
            pc[v] \in {"list", "register"} /\ cur'[v] = cur[v]
    OBVIOUS
  <2>2. \A v \in Workers : pc'[v] # "callback" => conn'[v] = None
    BY DEF EventsInvariant
  <2> QED BY <2>1, <2>2, EventsKept

<1>HandleAccept. CASE HandleAccept(w)
  <2> USE <1>HandleAccept DEF HandleAccept, CanHandleAccept, EventsInvariant
  <2>1. PICK n \in Contexts :
          /\ NewContext(n, SocketAccept[Listener], "IOConnect")
          /\ cur' = [cur EXCEPT ![w] = n]
    BY DEF ThreadsConsistent, Listener
  <2>2. SetUpOnce'
    <3> SUFFICES ASSUME NEW k \in Conns, connected_[k],
                        NEW s \in Sockets, peer[s] = k
                 PROVE  \E c \in live' \ {Listener} :
                          /\ socket'[c] = s
                          /\ \A v \in Workers :
                               cur'[v] = c => pc'[v] \notin {"list", "register"}
      BY DEF SetUpOnce, Listener
    <3>1. PICK c \in live \ {Listener} :
            /\ socket[c] = s
            /\ \A v \in Workers : cur[v] = c => pc[v] \notin {"list", "register"}
      BY DEF SetUpOnce
    <3>2. c # n /\ c \in live' /\ socket'[c] = s
      BY <2>1, <3>1 DEF NewContext
    <3>3. \A v \in Workers \ {w} : cur'[v] = cur[v] /\ pc'[v] = pc[v]
      BY <2>1
    <3>4. cur'[w] # c
      BY <2>1, <3>2
    <3> QED BY <3>1, <3>2, <3>3, <3>4
  <2> QED BY <2>2

<1>RegisterConnection. CASE RegisterConnection(w)
  <2> USE <1>RegisterConnection DEF RegisterConnection, EventsInvariant
  <2> DEFINE s == socket[cur[w]]
             k == peer[s]
  <2>1. cur[w] \in live \ {Listener} /\ s \in Sockets
    BY CurrentContext DEF ThreadsConsistent
  <2>2. \A v \in Workers \ {w} : cur[v] # cur[w] /\ pc'[v] = pc[v] /\ conn'[v] = conn[v]
    BY CurrentContext DEF ThreadsConsistent
  <2>3. /\ k \in Conns
        /\ connected_' = [connected_ EXCEPT ![k] = TRUE]
        /\ connections_' = [connections_ EXCEPT ![s] = k]
        /\ pc'[w] \in {"callback", "post"}
        /\ pc'[w] = "post" => conn'[w] = conn[w]
    OBVIOUS
  <2>4. k \notin clients /\ \A t \in Sockets \ {s} : peer[t] # k
    BY <2>1, <2>3 DEF RegistryInvariant, PeersDistinct
  <2>5. SetUpOnce'
    <3> SUFFICES ASSUME NEW j \in Conns, connected_'[j]
                 PROVE  /\ j \notin clients
                        /\ \A t \in Sockets : peer[t] = j =>
                             \E c \in live \ {Listener} :
                               /\ socket[c] = t
                               /\ \A v \in Workers :
                                    cur[v] = c => pc'[v] \notin {"list", "register"}
      BY DEF SetUpOnce, Listener
    <3>1. CASE j = k
      BY <2>1, <2>2, <2>3, <2>4, <3>1
    <3>2. CASE j # k
      BY <2>2, <2>3, <3>2 DEF SetUpOnce
    <3> QED BY <3>1, <3>2
  <2>6. \A t \in Sockets : connections_'[t] # None => connected_'[connections_'[t]]
    BY <2>1, <2>3
  <2>7. \A v \in Workers : pc'[v] # "callback" => conn'[v] = None
    BY <2>2, <2>3
  <2> QED BY <2>5, <2>6, <2>7

<1> QED BY <1>Quiet, <1>HandleAccept, <1>RegisterConnection
        DEF AcceptStep

(* A worker handles received data, or an application sends from a callback. *)
LEMMA ReceiveEvents ==
  ASSUME OwnershipInvariant, HandleInvariant, RegistryInvariant, EventsInvariant,
         UNCHANGED serverVars, NEW w \in Workers,
         ReceiveStep(w) \/ CallbackSend(w)
  PROVE  EventsInvariant'
<1> USE HandlerAssumption
    DEF OwnershipInvariant, ServerTypeOK, HandlerTypeOK, HandleInvariant,
        Goto, serverVars, engineVars, registryVars, contextVars, connVars,
        threadVars, socketVars, acceptVars, ioVars
<1>Quiet. CASE \/ DispatchReceive(w)
               \/ HandleReceive(w)
               \/ CallbackSend(w)
               \/ CallbackReturns(w)
               \/ PostReceive(w)
               \/ PostReceiveFails(w)
  <2> USE <1>Quiet DEF DispatchReceive, Dispatch, HasWork, HandleReceive,
                       CallbackSend, CallbackReturns, PostReceive, Return,
                       EndJob, PostReceiveFails
  <2>1. \A v \in Workers :
          pc'[v] \in {"list", "register"} =>
            pc[v] \in {"list", "register"} /\ cur'[v] = cur[v]
    OBVIOUS
  <2>2. \A v \in Workers : pc'[v] # "callback" => conn'[v] = None
    BY DEF EventsInvariant
  <2> QED BY <2>1, <2>2, EventsKept

<1> QED BY <1>Quiet
        DEF ReceiveStep

(* A worker disconnects. *)
LEMMA DisconnectEvents ==
  ASSUME OwnershipInvariant, HandleInvariant, RegistryInvariant, EventsInvariant,
         UNCHANGED serverVars, NEW w \in Workers, DisconnectStep(w)
  PROVE  EventsInvariant'
<1> USE HandlerAssumption
    DEF OwnershipInvariant, ServerTypeOK, HandlerTypeOK, HandleInvariant,
        Goto, serverVars, engineVars, registryVars, contextVars, connVars,
        threadVars, socketVars, acceptVars, ioVars
<1>Quiet. CASE \/ DispatchDisconnect(w)
               \/ RefuseDisconnect(w)
               \/ EnterDisconnect(w)
               \/ NotifyDisconnected(w)
  <2> USE <1>Quiet DEF DispatchDisconnect, Dispatch, HasWork, RefuseDisconnect,
                       Return, EndJob, EnterDisconnect, NotifyDisconnected
  <2>1. \A v \in Workers :
          pc'[v] \in {"list", "register"} =>
            pc[v] \in {"list", "register"} /\ cur'[v] = cur[v]
    OBVIOUS
  <2>2. \A v \in Workers : pc'[v] # "callback" => conn'[v] = None
    BY DEF EventsInvariant
  <2> QED BY <2>1, <2>2, EventsKept

<1>EraseConnection. CASE EraseConnection(w)
  <2> USE <1>EraseConnection DEF EraseConnection, EventsInvariant
  <2>1. SetUpOnce'
    BY DEF SetUpOnce, Listener
  <2>2. \A t \in Sockets : connections_'[t] \in {None, connections_[t]}
    OBVIOUS
  <2> QED BY <2>1, <2>2

<1>CloseSocket. CASE CloseSocket(w)
  <2> USE <1>CloseSocket DEF CloseSocket, EventsInvariant
  <2>1. SetUpOnce'
    <3> SUFFICES ASSUME NEW k \in Conns, connected_[k],
                        NEW s \in Sockets, peer'[s] = k
                 PROVE  \E c \in live \ {Listener} :
                          /\ socket'[c] = s
                          /\ \A v \in Workers :
                               cur[v] = c => pc'[v] \notin {"list", "register"}
      BY DEF SetUpOnce, Listener
    <3>1. peer[s] = k /\ s # socket[cur[w]]
      OBVIOUS
    <3>2. PICK c \in live \ {Listener} :
            /\ socket[c] = s
            /\ \A v \in Workers : cur[v] = c => pc[v] \notin {"list", "register"}
      BY <3>1 DEF SetUpOnce
    <3>3. socket'[c] = s
      BY <3>1, <3>2
    <3> QED BY <3>2, <3>3
  <2> QED BY <2>1

<1>FreeContext. CASE FreeContext(w)
  <2> USE <1>FreeContext DEF FreeContext, Return, EndJob, EventsInvariant
  <2>1. socket[cur[w]] = None
    BY DEF RegistryInvariant, HandlersConsistent
  <2>2. \A v \in Workers \ {w} : pc'[v] = pc[v] /\ cur'[v] = cur[v]
    OBVIOUS
  <2>3. pc'[w] \in {"idle", "rearm"}
    OBVIOUS
  <2>4. SetUpOnce'
    BY <2>1, <2>2, <2>3 DEF SetUpOnce, Listener
  <2> QED BY <2>2, <2>3, <2>4

<1> QED BY <1>Quiet, <1>EraseConnection, <1>CloseSocket, <1>FreeContext
        DEF DisconnectStep

(* The system completes an operation, or two workers race. *)
LEMMA SystemEvents ==
  ASSUME OwnershipInvariant, HandleInvariant, RegistryInvariant, EventsInvariant,
         UNCHANGED serverVars, SystemStep
  PROVE  EventsInvariant'
<1> USE HandlerAssumption
    DEF OwnershipInvariant, ServerTypeOK, HandlerTypeOK, HandleInvariant,
        Goto, serverVars, engineVars, registryVars, contextVars, connVars,
        threadVars, socketVars, acceptVars, ioVars
<1>CompleteAccept. CASE \E c \in accepting : CompleteAccept(c)
  <2> USE DEF EventsInvariant
  <2>1. PICK c \in accepting : CompleteAccept(c)
    BY <1>CompleteAccept
  <2>2. c = Listener /\ c \in Contexts /\ c # None
    BY DEF RegistryInvariant, AcceptedHasPeer
  <2>3. \A d \in live : socket[d] # SocketAccept[c]
    BY <2>2 DEF AcceptedApart, AcceptPending
  <2>4. PICK k \in clients :
          clients' = clients \ {k} /\ peer' = [peer EXCEPT ![SocketAccept[c]] = k]
    BY <2>1 DEF CompleteAccept
  <2>5. UNCHANGED <<the_socket_context_, connections_, live, socket, connected_,
                    pc, cur, conn>>
    BY <2>1 DEF CompleteAccept
  <2>6. SetUpOnce'
    BY <2>3, <2>4, <2>5 DEF SetUpOnce, Listener
  <2> QED BY <2>5, <2>6

<1>Quiet. CASE \/ \E c \in accepting : AbortAccept(c)
               \/ \E c \in receiving, r \in Results : CompleteReceive(c, r)
               \/ DataRace
  <2> USE <1>Quiet DEF AbortAccept, CompleteReceive, DataRace
  <2>1. \A v \in Workers :
          pc'[v] \in {"list", "register"} =>
            pc[v] \in {"list", "register"} /\ cur'[v] = cur[v]
    OBVIOUS
  <2>2. \A v \in Workers : pc'[v] # "callback" => conn'[v] = None
    BY DEF EventsInvariant
  <2> QED BY <2>1, <2>2, EventsKept

<1> QED BY <1>CompleteAccept, <1>Quiet
        DEF SystemStep

(* The thread that owns the server executes Start. *)
LEMMA StartEvents ==
  ASSUME OwnershipInvariant, HandleInvariant, RegistryInvariant, EventsInvariant,
         StartStep
  PROVE  EventsInvariant'
<1> USE HandlerAssumption
    DEF OwnershipInvariant, ServerTypeOK, HandlerTypeOK, HandleInvariant,
        Goto, serverVars, engineVars, registryVars, contextVars, connVars,
        threadVars, socketVars, acceptVars, ioVars
<1> USE DEF MainGoto, handlerVars
<1>Quiet. CASE \/ StartHandler
               \/ CreateEventFails
               \/ \E w \in Workers : StartWorker(w)
               \/ StartWorkerFails
               \/ HandlerStarted
               \/ CreateListener
               \/ ListenFails
               \/ ArmListener
               \/ ArmListenerFails
               \/ StartFails
  <2> USE <1>Quiet DEF StartHandler, InitHandler, CreateEventFails, StartWorker,
                       CreateWorker, StartWorkerFails, CreateWorkerFails,
                       HandlerStarted, SetRunning, CreateListener, ListenFails,
                       ArmListener, StartAccept, ArmListenerFails,
                       StartAcceptFails, StartFails
  <2>1. \A v \in Workers :
          pc'[v] \in {"list", "register"} =>
            pc[v] \in {"list", "register"} /\ cur'[v] = cur[v]
    OBVIOUS
  <2>2. \A v \in Workers : pc'[v] # "callback" => conn'[v] = None
    BY DEF EventsInvariant
  <2> QED BY <2>1, <2>2, EventsKept

<1>InitAccept. CASE InitAccept
  <2> USE <1>InitAccept DEF InitAccept, NewContext, EventsInvariant
  <2>1. live = {}
    BY DEF StartsQuiet, BeforeUp, ListenerFirst
  <2>2. SetUpOnce'
    BY <2>1 DEF SetUpOnce
  <2> QED BY <2>2

<1>InitAcceptFails. CASE InitAcceptFails
  <2> USE <1>InitAcceptFails DEF InitAcceptFails, EventsInvariant
  <2>1. UNCHANGED the_socket_context_
    BY DEF StartsQuiet, BeforeUp, Listener
  <2>2. SetUpOnce'
    BY <2>1 DEF SetUpOnce, Listener
  <2> QED BY <2>2

<1> QED BY <1>Quiet, <1>InitAccept, <1>InitAcceptFails
        DEF StartStep

(* The thread that owns the server executes Stop. *)
LEMMA StopEvents ==
  ASSUME OwnershipInvariant, HandleInvariant, RegistryInvariant, EventsInvariant,
         StopStep
  PROVE  EventsInvariant'
<1> USE HandlerAssumption
    DEF OwnershipInvariant, ServerTypeOK, HandlerTypeOK, HandleInvariant,
        Goto, serverVars, engineVars, registryVars, contextVars, connVars,
        threadVars, socketVars, acceptVars, ioVars
<1> USE DEF MainGoto, handlerVars
<1>Quiet. CASE \/ BeginStop
               \/ PostExitPackets
               \/ WaitForWorkers
               \/ CloseNoListener
  <2> USE <1>Quiet DEF BeginStop, PostExitPackets, PostPackets, WaitForWorkers,
                       CloseNoListener
  <2>1. \A v \in Workers :
          pc'[v] \in {"list", "register"} =>
            pc[v] \in {"list", "register"} /\ cur'[v] = cur[v]
    OBVIOUS
  <2>2. \A v \in Workers : pc'[v] # "callback" => conn'[v] = None
    BY DEF EventsInvariant
  <2> QED BY <2>1, <2>2, EventsKept

<1>CloseListener. CASE CloseListener
  <2> USE <1>CloseListener DEF CloseListener, EventsInvariant
  <2>1. \A c \in Contexts \ {Listener} : socket'[c] = socket[c]
    BY DEF Listener
  <2>2. SetUpOnce'
    BY <2>1 DEF SetUpOnce, Listener
  <2> QED BY <2>2

<1> QED BY <1>Quiet, <1>CloseListener
        DEF StopStep

(* Every step of the server keeps the invariant. *)
LEMMA EventsStep ==
  /\ OwnershipInvariant /\ HandleInvariant /\ RegistryInvariant
  /\ EventsInvariant /\ [Next]_vars
  => EventsInvariant'
<1> SUFFICES ASSUME OwnershipInvariant, HandleInvariant, RegistryInvariant,
                    EventsInvariant, [Next]_vars
             PROVE  EventsInvariant'
  OBVIOUS
<1>1. CASE MainStep
  BY <1>1, StartEvents, StopEvents DEF MainStep
<1>2. CASE EngineStep
  <2>1. UNCHANGED serverVars
    BY <1>2 DEF EngineStep
  <2>2. ASSUME NEW w \in Workers, WorkerStep(w) \/ CallbackSend(w)
        PROVE  EventsInvariant'
    BY <2>1, <2>2, DequeueEvents, AcceptEvents, ReceiveEvents, DisconnectEvents
    DEF WorkerStep, Dequeue
  <2> QED BY <1>2, <2>1, <2>2, SystemEvents DEF EngineStep
<1>3. CASE UNCHANGED vars
  BY <1>3 DEF vars, handlerVars, engineVars, registryVars, contextVars, connVars,
              threadVars, socketVars, EventsInvariant, SetUpOnce, Listener
<1> QED BY <1>1, <1>2, <1>3 DEF Next

-----------------------------------------------------------------------------
(* The theorems *)

-----------------------------------------------------------------------------
(* AccountInvariant *)

(* A step that leaves the contexts, their sockets and the list as they are. *)
LEMMA AccountKept ==
  ASSUME AccountInvariant,
         UNCHANGED <<the_socket_context_, live, socket, SocketAccept, open,
                     socket_contexts_>>,
         open # {} => ls_' = ls_,
         main' \in {"init", "threads", "listen"} =>
           main \in {"init", "threads", "listen"},
         main' = "arm" => main = "arm",
         \A v \in Workers :
           pc'[v] = "list" \/ pc[v] = "list" => pc'[v] = pc[v] /\ cur'[v] = cur[v],
         \A v \in Workers :
           Listener # None /\ job'[v].key = Listener
             /\ pc'[v] \notin {"got", "accept"}
           => job[v].key = Listener /\ pc[v] \notin {"got", "accept"}
  PROVE  AccountInvariant'
<1> USE DEF AccountInvariant, Listener
<1>1. ListMatches'
  BY DEF ListMatches
<1>2. HandlesAccounted'
  BY DEF HandlesAccounted
<1> QED BY <1>1, <1>2

(* Once a worker has something to do, Start has called start_accept. *)
LEMMA WorkAfterStart ==
  ASSUME OwnershipInvariant, NEW w \in Workers, pc[w] \notin {"none", "idle"}
  PROVE  main \notin BeforeUp
BY DEF OwnershipInvariant, StartsQuiet

(* A worker takes a packet out of the port, or leaves. *)
LEMMA DequeueAccount ==
  ASSUME OwnershipInvariant, HandleInvariant, RegistryInvariant,
         AccountInvariant,
         UNCHANGED serverVars, NEW w \in Workers,
         \/ \E p \in port : GetPacket(w, p)
         \/ GetExitPacket(w)
         \/ StopWorker(w)
  PROVE  AccountInvariant'
<1> USE HandlerAssumption
    DEF OwnershipInvariant, ServerTypeOK, HandlerTypeOK, HandleInvariant, Goto,
        serverVars, engineVars, registryVars, contextVars, connVars, threadVars,
        socketVars, acceptVars, ioVars, AccountInvariant
<1>Quiet. CASE \/ \E p \in port : GetPacket(w, p)
               \/ GetExitPacket(w)
               \/ StopWorker(w)
  <2> USE <1>Quiet DEF GetPacket, GetExitPacket, StopWorker, LeaveThread
  <2>1. \A v \in Workers :
          pc'[v] = "list" \/ pc[v] = "list" => pc'[v] = pc[v] /\ cur'[v] = cur[v]
    OBVIOUS
  <2>2. \A v \in Workers :
          Listener # None /\ job'[v].key = Listener
            /\ pc'[v] \notin {"got", "accept"}
          => job[v].key = Listener /\ pc[v] \notin {"got", "accept"}
    BY DEF NoPacket, ThreadsConsistent
  <2> QED BY <2>1, <2>2, AccountKept

<1> QED BY <1>Quiet

(* A worker handles the completion of an AcceptEx. *)
LEMMA AcceptAccount ==
  ASSUME OwnershipInvariant, HandleInvariant, RegistryInvariant,
         AccountInvariant,
         UNCHANGED serverVars, NEW w \in Workers, AcceptStep(w)
  PROVE  AccountInvariant'
<1> USE HandlerAssumption
    DEF OwnershipInvariant, ServerTypeOK, HandlerTypeOK, HandleInvariant, Goto,
        serverVars, engineVars, registryVars, contextVars, connVars, threadVars,
        socketVars, acceptVars, ioVars, AccountInvariant
<1>Quiet. CASE \/ DispatchAccept(w)
               \/ AcceptFails(w)
               \/ AssociateFails(w)
               \/ RegisterConnection(w)
  <2> USE <1>Quiet DEF DispatchAccept, Dispatch, HasWork, AcceptFails,
                       LeaveThread, AssociateFails, CanHandleAccept,
                       RegisterConnection
  <2>1. \A v \in Workers :
          pc'[v] = "list" \/ pc[v] = "list" => pc'[v] = pc[v] /\ cur'[v] = cur[v]
    OBVIOUS
  <2>2. \A v \in Workers :
          Listener # None /\ job'[v].key = Listener
            /\ pc'[v] \notin {"got", "accept"}
          => job[v].key = Listener /\ pc[v] \notin {"got", "accept"}
    BY DEF NoPacket, ThreadsConsistent
  <2> QED BY <2>1, <2>2, AccountKept

<1>HandleAccept. CASE HandleAccept(w)
  <2> USE <1>HandleAccept DEF HandleAccept, CanHandleAccept
  <2>1. PICK n \in Contexts :
          /\ NewContext(n, SocketAccept[Listener], "IOConnect")
          /\ cur' = [cur EXCEPT ![w] = n]
    BY DEF ThreadsConsistent, Listener
  <2>2. job[w].key = Listener /\ Listener # None
    BY DEF ThreadsConsistent, Packet, Listener
  <2>3. /\ Listener \in live /\ n \notin live /\ live' = live \cup {n}
        /\ socket' = [socket EXCEPT ![n] = SocketAccept[Listener]]
        /\ SocketAccept' = [SocketAccept EXCEPT ![n] = None]
        /\ main \notin BeforeUp
    BY <2>1, <2>2, ListenerHeld, WorkAfterStart DEF NewContext
  <2>4. \A v \in Workers \ {w} :
          pc'[v] = pc[v] /\ cur'[v] = cur[v] /\ cur[v] # n /\ job[v].key # Listener
    BY <2>1, <2>2, <2>3, ListenerHeld DEF NoDanglingContext, Holds
  <2>5. ListMatches'
    <3>1. pc'[w] = "list" /\ cur'[w] = n /\ pc[w] = "accept"
      BY <2>1
    <3>2. ASSUME NEW c
          PROVE  c \in socket_contexts_ <=>
                   /\ c \in live' \ {Listener}
                   /\ \A v \in Workers : ~(pc'[v] = "list" /\ cur'[v] = c)
      <4>1. CASE c = n
        BY <2>3, <3>1, <4>1 DEF ListMatches
      <4>2. CASE c # n
        BY <2>3, <2>4, <3>1, <4>2 DEF ListMatches
      <4> QED BY <4>1, <4>2
    <3> QED BY <3>2 DEF ListMatches, Listener
  <2>6. HandlesAccounted'
    <3>1. \A c \in live :
            c \in live' /\ socket'[c] = socket[c] /\ SocketAccept'[c] = SocketAccept[c]
      BY <2>3
    <3> QED BY <3>1 DEF HandlesAccounted
  <2>7. /\ n \in live' \ {Listener}
        /\ socket'[n] = SocketAccept'[Listener]
    BY <2>3
  <2> QED BY <2>3, <2>4, <2>5, <2>6, <2>7 DEF Listener, BeforeUp

<1>PushContext. CASE PushContext(w)
  <2> USE <1>PushContext DEF PushContext
  <2>1. /\ cur[w] \in live \ {Listener}
        /\ \A v \in Workers \ {w} : cur[v] # cur[w] /\ pc'[v] = pc[v]
    BY CurrentContext DEF ThreadsConsistent
  <2>2. ListMatches'
    <3>1. ASSUME NEW c
          PROVE  c \in socket_contexts_' <=>
                   /\ c \in live \ {Listener}
                   /\ \A v \in Workers : ~(pc'[v] = "list" /\ cur[v] = c)
      <4>1. CASE c = cur[w]
        BY <2>1, <4>1
      <4>2. CASE c # cur[w]
        BY <2>1, <4>2 DEF ListMatches
      <4> QED BY <4>1, <4>2
    <3>2. socket_contexts_' =
            {c \in live \ {Listener} :
               \A v \in Workers : ~(pc'[v] = "list" /\ cur[v] = c)}
      BY ONLY <3>1
    <3>3. live' = live /\ cur' = cur /\ the_socket_context_' = the_socket_context_
      OBVIOUS
    <3> QED BY <3>2, <3>3 DEF ListMatches, Listener
  <2>3. HandlesAccounted'
    BY DEF HandlesAccounted
  <2> QED BY <2>2, <2>3 DEF Listener

<1>Rearm. CASE Rearm(w) \/ RearmFails(w)
  <2> USE <1>Rearm DEF Rearm, RearmFails
  <2>1. job[w].key = Listener /\ Listener # None
    BY DEF ThreadsConsistent, Packet, Listener
  <2>2. PICK s \in Sockets \cup {None} :
          /\ SocketAccept' = [SocketAccept EXCEPT ![Listener] = s]
          /\ open' \subseteq open \cup {s}
          /\ open \subseteq open'
    BY DEF StartAccept, StartAcceptFails, Listener
  <2>3. /\ Listener \in live /\ main \notin BeforeUp
        /\ \A v \in Workers \ {w} : job[v].key # Listener
    BY <2>1, ListenerHeld, WorkAfterStart
  <2>4. /\ job'[w] = NoPacket
        /\ \A v \in Workers \ {w} :
             pc'[v] = pc[v] /\ cur'[v] = cur[v] /\ job'[v] = job[v]
        /\ pc[w] = "rearm" /\ pc'[w] \in {"idle", "exited"}
    BY DEF EndJob, LeaveThread
  <2>5. ListMatches'
    BY <2>4 DEF ListMatches, Listener
  <2>6. HandlesAccounted'
    <3>1. ASSUME NEW x \in open'
          PROVE  \/ x = ls_
                 \/ \E c \in live : x = socket[c] \/ x = SocketAccept'[c]
      <4>1. CASE x = s /\ x \notin open
        BY <2>2, <2>3, <4>1
      <4>2. CASE x \in open
        <5>1. CASE x = SocketAccept[Listener]
          BY <2>1, <2>4, <4>2, <5>1
        <5>2. CASE x # SocketAccept[Listener]
          BY <2>2, <4>2, <5>2 DEF HandlesAccounted
        <5> QED BY <5>1, <5>2
      <4> QED BY <2>2, <3>1, <4>1, <4>2
    <3>2. UNCHANGED <<live, socket, ls_>>
      OBVIOUS
    <3> QED BY <3>1, <3>2 DEF HandlesAccounted
  <2> QED BY <2>1, <2>3, <2>4, <2>5, <2>6 DEF NoPacket, Listener, BeforeUp

<1> QED BY <1>Quiet, <1>HandleAccept, <1>PushContext, <1>Rearm DEF AcceptStep

(* A worker handles received data, or an application sends from a callback. *)
LEMMA ReceiveAccount ==
  ASSUME OwnershipInvariant, HandleInvariant, RegistryInvariant,
         AccountInvariant,
         UNCHANGED serverVars, NEW w \in Workers,
         ReceiveStep(w) \/ CallbackSend(w)
  PROVE  AccountInvariant'
<1> USE HandlerAssumption
    DEF OwnershipInvariant, ServerTypeOK, HandlerTypeOK, HandleInvariant, Goto,
        serverVars, engineVars, registryVars, contextVars, connVars, threadVars,
        socketVars, acceptVars, ioVars, AccountInvariant
<1>Quiet. CASE \/ DispatchReceive(w)
               \/ HandleReceive(w)
               \/ CallbackSend(w)
               \/ CallbackReturns(w)
               \/ PostReceive(w)
               \/ PostReceiveFails(w)
  <2> USE <1>Quiet DEF DispatchReceive, Dispatch, HasWork, HandleReceive,
                       CallbackSend, CallbackReturns, PostReceive, Return,
                       EndJob, PostReceiveFails
  <2>1. \A v \in Workers :
          pc'[v] = "list" \/ pc[v] = "list" => pc'[v] = pc[v] /\ cur'[v] = cur[v]
    OBVIOUS
  <2>2. \A v \in Workers :
          Listener # None /\ job'[v].key = Listener
            /\ pc'[v] \notin {"got", "accept"}
          => job[v].key = Listener /\ pc[v] \notin {"got", "accept"}
    BY DEF NoPacket, ThreadsConsistent, ListenerApart
  <2> QED BY <2>1, <2>2, AccountKept

<1> QED BY <1>Quiet DEF ReceiveStep

(* A worker disconnects. *)
LEMMA DisconnectAccount ==
  ASSUME OwnershipInvariant, HandleInvariant, RegistryInvariant,
         AccountInvariant,
         UNCHANGED serverVars, NEW w \in Workers, DisconnectStep(w)
  PROVE  AccountInvariant'
<1> USE HandlerAssumption
    DEF OwnershipInvariant, ServerTypeOK, HandlerTypeOK, HandleInvariant, Goto,
        serverVars, engineVars, registryVars, contextVars, connVars, threadVars,
        socketVars, acceptVars, ioVars, AccountInvariant
<1>Quiet. CASE \/ DispatchDisconnect(w)
               \/ RefuseDisconnect(w)
               \/ EnterDisconnect(w)
               \/ NotifyDisconnected(w)
               \/ EraseConnection(w)
  <2> USE <1>Quiet DEF DispatchDisconnect, Dispatch, HasWork, RefuseDisconnect,
                       Return, EndJob, EnterDisconnect, NotifyDisconnected,
                       EraseConnection
  <2>1. \A v \in Workers :
          pc'[v] = "list" \/ pc[v] = "list" => pc'[v] = pc[v] /\ cur'[v] = cur[v]
    OBVIOUS
  <2>2. \A v \in Workers :
          Listener # None /\ job'[v].key = Listener
            /\ pc'[v] \notin {"got", "accept"}
          => job[v].key = Listener /\ pc[v] \notin {"got", "accept"}
    BY DEF NoPacket, ThreadsConsistent, ListenerApart
  <2> QED BY <2>1, <2>2, AccountKept

<1>CloseSocket. CASE CloseSocket(w)
  <2> USE <1>CloseSocket DEF CloseSocket
  <2> DEFINE s == socket[cur[w]]
  <2>1. cur[w] \in live \ {Listener} /\ cur[w] \in Contexts
    BY CurrentContext DEF ThreadsConsistent
  <2>2. /\ open' = open \ {s}
        /\ SocketAccept[cur[w]] = None
        /\ SocketAccept' = SocketAccept
    <3>1. SocketAccept[cur[w]] = None
      BY <2>1 DEF ConnectionContexts
    <3> QED BY <3>1
  <2>3. \A c \in live : socket[c] # s => socket'[c] = socket[c]
    OBVIOUS
  <2>4. /\ main \notin BeforeUp /\ pc'[w] = "free" /\ pc[w] = "close"
        /\ \A v \in Workers \ {w} : pc'[v] = pc[v]
    BY WorkAfterStart
  <2>5. ListMatches'
    BY <2>4 DEF ListMatches, Listener
  <2>6. HandlesAccounted'
    BY <2>2, <2>3 DEF HandlesAccounted
  <2>7. \A v \in Workers :
          Listener # None /\ job[v].key = Listener /\ pc'[v] \notin {"got", "accept"} =>
            \/ SocketAccept[Listener] \notin open'
            \/ \E c \in live \ {Listener} : socket'[c] = SocketAccept[Listener]
    <3> SUFFICES ASSUME NEW v \in Workers, Listener # None,
                        job[v].key = Listener, pc'[v] \notin {"got", "accept"},
                        SocketAccept[Listener] \in open'
                 PROVE  \E c \in live \ {Listener} : socket'[c] = SocketAccept[Listener]
      OBVIOUS
    <3>1. pc[v] \notin {"got", "accept"}
      BY <2>4
    <3>2. PICK c \in live \ {Listener} : socket[c] = SocketAccept[Listener]
      BY <2>2, <3>1
    <3> QED BY <2>2, <2>3, <3>2
  <2> QED BY <2>2, <2>4, <2>5, <2>6, <2>7 DEF Listener, BeforeUp

<1>FreeContext. CASE FreeContext(w)
  <2> USE <1>FreeContext DEF FreeContext, Return, EndJob
  <2>1. socket[cur[w]] = None /\ cur[w] # None
    BY DEF RegistryInvariant, HandlersConsistent, ThreadsConsistent
  <2>2. cur[w] \in live \ {Listener} /\ SocketAccept[cur[w]] = None
    BY <2>1 DEF NoDanglingContext, Holds, ListenerApart, ConnectionContexts
  <2>3. /\ \A v \in Workers \ {w} :
             pc'[v] = pc[v] /\ cur'[v] = cur[v] /\ job'[v] = job[v]
        /\ pc[w] = "free" /\ pc'[w] \in {"idle", "rearm"}
        /\ Listener # None /\ job'[w].key = Listener => job[w].key = Listener
        /\ main \notin BeforeUp
    BY WorkAfterStart DEF NoPacket
  <2>4. ListMatches'
    <3>1. ASSUME NEW c
          PROVE  (\A v \in Workers : ~(pc'[v] = "list" /\ cur'[v] = c)) <=>
                   (\A v \in Workers : ~(pc[v] = "list" /\ cur[v] = c))
      BY <2>3
    <3> QED BY <3>1 DEF ListMatches, Listener
  <2>5. HandlesAccounted'
    BY <2>1, <2>2 DEF HandlesAccounted
  <2>6. \A v \in Workers :
          Listener # None /\ job'[v].key = Listener /\ pc'[v] \notin {"got", "accept"} =>
            \/ SocketAccept[Listener] \notin open
            \/ \E c \in live' \ {Listener} : socket[c] = SocketAccept[Listener]
    BY <2>1, <2>3
  <2> QED BY <2>3, <2>4, <2>5, <2>6 DEF Listener, BeforeUp

<1> QED BY <1>Quiet, <1>CloseSocket, <1>FreeContext DEF DisconnectStep

(* The system completes an operation, or two workers race. *)
LEMMA SystemAccount ==
  ASSUME OwnershipInvariant, HandleInvariant, RegistryInvariant,
         AccountInvariant,
         UNCHANGED serverVars, SystemStep
  PROVE  AccountInvariant'
<1> USE HandlerAssumption
    DEF OwnershipInvariant, ServerTypeOK, HandlerTypeOK, HandleInvariant, Goto,
        serverVars, engineVars, registryVars, contextVars, connVars, threadVars,
        socketVars, acceptVars, ioVars, AccountInvariant
<1>1. UNCHANGED <<the_socket_context_, live, socket, SocketAccept, open,
                  socket_contexts_, pc, cur, job>>
  BY DEF SystemStep, CompleteAccept, AbortAccept, CompleteReceive, DataRace
<1> QED BY <1>1, AccountKept

(* The thread that owns the server executes Start. *)
LEMMA StartAccount ==
  ASSUME OwnershipInvariant, HandleInvariant, RegistryInvariant,
         AccountInvariant,
         StartStep
  PROVE  AccountInvariant'
<1> USE HandlerAssumption
    DEF OwnershipInvariant, ServerTypeOK, HandlerTypeOK, HandleInvariant, Goto,
        serverVars, engineVars, registryVars, contextVars, connVars, threadVars,
        socketVars, acceptVars, ioVars, AccountInvariant
<1> USE DEF MainGoto, handlerVars
<1>Quiet. CASE \/ StartHandler
               \/ CreateEventFails
               \/ \E w \in Workers : StartWorker(w)
               \/ StartWorkerFails
               \/ HandlerStarted
               \/ StartFails
  <2> USE <1>Quiet DEF StartHandler, InitHandler, CreateEventFails, StartWorker,
                       CreateWorker, StartWorkerFails, CreateWorkerFails,
                       HandlerStarted, SetRunning, StartFails
  <2>1. \A v \in Workers :
          pc'[v] = "list" \/ pc[v] = "list" => pc'[v] = pc[v] /\ cur'[v] = cur[v]
    OBVIOUS
  <2>2. \A v \in Workers :
          Listener # None /\ job'[v].key = Listener
            /\ pc'[v] \notin {"got", "accept"}
          => job[v].key = Listener /\ pc[v] \notin {"got", "accept"}
    OBVIOUS
  <2> QED BY <2>1, <2>2, AccountKept

<1>CreateListener. CASE CreateListener \/ ListenFails
  <2> USE <1>CreateListener DEF CreateListener, ListenFails
  <2>1. PICK s \in Sockets : open' = open \cup {s} /\ ls_' = s
    OBVIOUS
  <2>2. open = {} /\ Listener = None
    BY DEF StartsQuiet, BeforeUp
  <2>3. HandlesAccounted'
    BY <2>1, <2>2 DEF HandlesAccounted
  <2> QED BY <2>2, <2>3 DEF ListMatches, Listener

<1>InitAccept. CASE InitAccept
  <2> USE <1>InitAccept DEF InitAccept, NewContext
  <2>1. PICK n \in Contexts :
          NewContext(n, ls_, "IOAccept") /\ the_socket_context_' = n
    OBVIOUS
  <2>2. /\ live = {} /\ live' = {n} /\ Listener' = n /\ SocketAccept'[n] = None
        /\ socket_contexts_ = {}
    BY <2>1 DEF StartsQuiet, BeforeUp, ListenerFirst, Listener, ListMatches
  <2>3. \A w \in Workers : job[w] = NoPacket
    BY DEF StartsQuiet, BeforeUp, ThreadsConsistent
  <2>4. ListMatches'
    <3>1. socket_contexts_' = {}
      BY <2>2
    <3>2. live' \ {Listener'} = {}
      BY ONLY <2>2
    <3> QED BY ONLY <3>1, <3>2 DEF ListMatches
  <2>5. HandlesAccounted'
    <3>1. open \subseteq {ls_}
      BY ONLY <2>2, AccountInvariant DEF AccountInvariant, HandlesAccounted
    <3>2. open' = open /\ ls_' = ls_
      OBVIOUS
    <3> QED BY ONLY <3>1, <3>2 DEF HandlesAccounted
  <2> QED BY <2>2, <2>3, <2>4, <2>5 DEF NoPacket

<1>InitAcceptFails. CASE InitAcceptFails
  <2> USE <1>InitAcceptFails DEF InitAcceptFails
  <2>1. UNCHANGED the_socket_context_
    BY DEF StartsQuiet, BeforeUp, Listener
  <2> QED BY <2>1, AccountKept

<1>Arm. CASE ArmListener \/ ArmListenerFails
  <2> USE <1>Arm DEF ArmListener, ArmListenerFails
  <2>1. PICK s \in Sockets \cup {None} :
          /\ SocketAccept' = [SocketAccept EXCEPT ![Listener] = s]
          /\ open' \subseteq open \cup {s}
    BY DEF StartAccept, StartAcceptFails, Listener
  <2>2. Listener \in live /\ SocketAccept[Listener] = None
    BY DEF StartsQuiet, NoDanglingContext, Listener
  <2>3. \A w \in Workers : job[w] = NoPacket
    BY DEF StartsQuiet, BeforeUp, ThreadsConsistent
  <2>4. HandlesAccounted'
    BY <2>1, <2>2 DEF HandlesAccounted
  <2>5. ListMatches'
    BY DEF ListMatches, Listener
  <2> QED BY <2>3, <2>4, <2>5 DEF NoPacket

<1> QED BY <1>Quiet, <1>CreateListener, <1>InitAccept, <1>InitAcceptFails, <1>Arm
        DEF StartStep

(* The thread that owns the server executes Stop. *)
LEMMA StopAccount ==
  ASSUME OwnershipInvariant, HandleInvariant, RegistryInvariant,
         AccountInvariant,
         StopStep
  PROVE  AccountInvariant'
<1> USE HandlerAssumption
    DEF OwnershipInvariant, ServerTypeOK, HandlerTypeOK, HandleInvariant, Goto,
        serverVars, engineVars, registryVars, contextVars, connVars, threadVars,
        socketVars, acceptVars, ioVars, AccountInvariant
<1> USE DEF MainGoto, handlerVars
<1>Quiet. CASE \/ BeginStop
               \/ PostExitPackets
               \/ WaitForWorkers
               \/ CloseNoListener
  <2> USE <1>Quiet DEF BeginStop, PostExitPackets, PostPackets, WaitForWorkers,
                       CloseNoListener
  <2>1. \A v \in Workers :
          pc'[v] = "list" \/ pc[v] = "list" => pc'[v] = pc[v] /\ cur'[v] = cur[v]
    OBVIOUS
  <2>2. \A v \in Workers :
          Listener # None /\ job'[v].key = Listener
            /\ pc'[v] \notin {"got", "accept"}
          => job[v].key = Listener /\ pc[v] \notin {"got", "accept"}
    OBVIOUS
  <2> QED BY <2>1, <2>2, AccountKept

<1>CloseListener. CASE CloseListener
  <2> USE <1>CloseListener DEF CloseListener
  <2>1. \A c \in live :
          c \in Contexts /\ (c # Listener => socket'[c] = socket[c])
    BY DEF Listener
  <2>2. HandlesAccounted'
    BY <2>1 DEF HandlesAccounted, Listener
  <2>3. ListMatches'
    BY DEF ListMatches, Listener
  <2> QED BY <2>1, <2>2, <2>3 DEF Listener

<1> QED BY <1>Quiet, <1>CloseListener DEF StopStep

(* Every step of the server keeps the invariant. *)
LEMMA AccountStep ==
  /\ OwnershipInvariant /\ HandleInvariant /\ RegistryInvariant
  /\ AccountInvariant /\ [Next]_vars
  => AccountInvariant'
<1> SUFFICES ASSUME OwnershipInvariant, HandleInvariant, RegistryInvariant,
                    AccountInvariant, [Next]_vars
             PROVE  AccountInvariant'
  OBVIOUS
<1>1. CASE MainStep
  BY <1>1, StartAccount, StopAccount DEF MainStep
<1>2. CASE EngineStep
  <2>1. UNCHANGED serverVars
    BY <1>2 DEF EngineStep
  <2>2. ASSUME NEW w \in Workers, WorkerStep(w) \/ CallbackSend(w)
        PROVE  AccountInvariant'
    BY <2>1, <2>2, DequeueAccount, AcceptAccount, ReceiveAccount,
       DisconnectAccount
    DEF WorkerStep, Dequeue
  <2> QED BY <1>2, <2>1, <2>2, SystemAccount DEF EngineStep
<1>3. CASE UNCHANGED vars
  BY <1>3, AccountKept
  DEF vars, handlerVars, serverVars, engineVars, registryVars, contextVars,
      threadVars, socketVars
<1> QED BY <1>1, <1>2, <1>3 DEF Next

(* Nothing exists before Start. *)
LEMMA AccountInit == Init => AccountInvariant
<1> SUFFICES ASSUME Init PROVE AccountInvariant
  OBVIOUS
<1>1. ListMatches /\ HandlesAccounted
  BY DEF Init, HandlerInit, ListMatches, HandlesAccounted
<1> QED BY <1>1 DEF Init, HandlerInit, AccountInvariant, Listener

-----------------------------------------------------------------------------
(* No worker is stuck *)

(* A worker enters the critical section and leaves it as its label says.    *)
LEMMA LockStep ==
  OwnershipInvariant /\ DisconnectsSerialized /\ [Next]_vars
  => DisconnectsSerialized'
<1> SUFFICES ASSUME OwnershipInvariant, DisconnectsSerialized, [Next]_vars
             PROVE  DisconnectsSerialized'
  OBVIOUS
<1> USE HandlerAssumption
    DEF OwnershipInvariant, ServerTypeOK, HandlerTypeOK, threadVars, handlerVars,
        Goto, DisconnectsSerialized
<1>1. CASE UNCHANGED <<pc, locker_>>
  BY <1>1
<1>2. CASE StartStep
  BY <1>1, <1>2
  DEF StartStep, StartHandler, InitHandler, CreateEventFails, StartWorker,
      CreateWorker, StartWorkerFails, CreateWorkerFails, HandlerStarted,
      SetRunning, CreateListener, ListenFails, InitAccept, InitAcceptFails,
      ArmListener, ArmListenerFails, StartFails
<1>3. CASE StopStep
  BY <1>1, <1>3
  DEF StopStep, BeginStop, PostExitPackets, PostPackets, WaitForWorkers,
      CloseListener, CloseNoListener
<1>4. ASSUME NEW w \in Workers, Dequeue(w) \/ StopWorker(w)
      PROVE  DisconnectsSerialized'
  BY <1>4 DEF Dequeue, GetPacket, GetExitPacket, StopWorker, LeaveThread
<1>5. ASSUME NEW w \in Workers, AcceptStep(w)
      PROVE  DisconnectsSerialized'
  BY <1>5
  DEF AcceptStep, DispatchAccept, Dispatch, HasWork, AcceptFails, HandleAccept,
      AssociateFails, CanHandleAccept, PushContext, RegisterConnection, Rearm,
      RearmFails, EndJob, LeaveThread
<1>6. ASSUME NEW w \in Workers, ReceiveStep(w) \/ CallbackSend(w)
      PROVE  DisconnectsSerialized'
  BY <1>6
  DEF ReceiveStep, DispatchReceive, Dispatch, HasWork, HandleReceive,
      CallbackReturns, PostReceive, PostReceiveFails, CallbackSend, Return, EndJob
<1>7. ASSUME NEW w \in Workers, DisconnectStep(w)
      PROVE  DisconnectsSerialized'
  BY <1>7
  DEF DisconnectStep, DispatchDisconnect, Dispatch, HasWork, RefuseDisconnect,
      EnterDisconnect, NotifyDisconnected, EraseConnection, CloseSocket,
      FreeContext, Return, EndJob
<1>8. CASE SystemStep
  BY <1>1, <1>8
  DEF SystemStep, CompleteAccept, AbortAccept, CompleteReceive, DataRace
<1> QED BY <1>1, <1>2, <1>3, <1>4, <1>5, <1>6, <1>7, <1>8
        DEF Next, MainStep, EngineStep, WorkerStep, vars

(* Exit packets and workers that have taken none yet go down together.      *)
LEMMA RunningShrinks ==
  ASSUME OwnershipInvariant, ExitPacketsSuffice, Running' \subseteq Running,
         exitPackets' = exitPackets,
         main' \in {"wait", "close", "done"} /\ iocp_handle_' =>
           main \in {"wait", "close", "done"} /\ iocp_handle_
  PROVE  ExitPacketsSuffice'
<1>1. IsFiniteSet(Running) /\ Cardinality(Running) \in Nat
  BY HandlerAssumption, FS_Subset, FS_CardinalityType DEF Running
<1>2. Cardinality(Running') <= Cardinality(Running) /\ Cardinality(Running') \in Nat
  BY <1>1, FS_Subset, FS_CardinalityType
<1>3. exitPackets \in Nat
  BY WorkersCounted DEF OwnershipInvariant, ServerTypeOK, HandlerTypeOK
<1> QED BY <1>1, <1>2, <1>3 DEF ExitPacketsSuffice

LEMMA ExitPacketsStep ==
  OwnershipInvariant /\ ExitPacketsSuffice /\ [Next]_vars => ExitPacketsSuffice'
<1> SUFFICES ASSUME OwnershipInvariant, ExitPacketsSuffice, [Next]_vars
             PROVE  ExitPacketsSuffice'
  OBVIOUS
<1> USE HandlerAssumption
    DEF OwnershipInvariant, ServerTypeOK, HandlerTypeOK, threadVars, handlerVars,
        engineVars, ioVars, serverVars, Goto, MainGoto
<1>1. CASE UNCHANGED <<pc, job, exitPackets, main, iocp_handle_>>
  BY <1>1, RunningShrinks DEF Running
<1>2. CASE StartStep
  <2>1. main' \notin {"wait", "close", "done"}
    BY <1>2
    DEF StartStep, StartHandler, CreateEventFails, StartWorker, StartWorkerFails,
        HandlerStarted, CreateListener, ListenFails, InitAccept, InitAcceptFails,
        ArmListener, ArmListenerFails, StartFails
  <2> QED BY <2>1 DEF ExitPacketsSuffice
<1>3. CASE BeginStop
  BY <1>3 DEF BeginStop, ExitPacketsSuffice
<1>4. CASE PostExitPackets
  <2>1. /\ exitPackets = 0 /\ Running' \subseteq Workers
        /\ iocp_handle_' = iocp_handle_
        /\ iocp_handle_ => exitPackets' = exitPackets + Cardinality(Workers)
    BY <1>4 DEF PostExitPackets, PostPackets, StartsQuiet, Running
  <2>2. Cardinality(Running') <= Cardinality(Workers)
    BY <2>1, FS_Subset
  <2> QED BY <2>1, <2>2, WorkersCounted DEF ExitPacketsSuffice
<1>5. CASE WaitForWorkers \/ CloseListener \/ CloseNoListener
  <2>1. Running' = Running
    BY <1>5 DEF Running, WaitForWorkers, CloseListener, CloseNoListener
  <2> QED BY <1>5, <2>1, RunningShrinks
          DEF WaitForWorkers, CloseListener, CloseNoListener
<1>6. ASSUME NEW w \in Workers, Dequeue(w) \/ StopWorker(w), UNCHANGED serverVars
      PROVE  ExitPacketsSuffice'
  <2>1. CASE GetExitPacket(w)
    <3>1. w \in Running /\ Running' = Running \ {w}
      BY <2>1 DEF GetExitPacket, Running, ThreadsConsistent, ExitPacket, NoPacket
    <3>2. IsFiniteSet(Running) /\ Cardinality(Running) \in Nat
      BY FS_Subset, FS_CardinalityType DEF Running
    <3>3. Cardinality(Running') = Cardinality(Running) - 1
      BY <3>1, <3>2, FS_RemoveElement
    <3>4. exitPackets \in Nat /\ exitPackets' = exitPackets - 1
      BY <2>1, WorkersCounted DEF GetExitPacket
    <3> QED BY <1>6, <2>1, <3>2, <3>3, <3>4 DEF GetExitPacket, ExitPacketsSuffice
  <2>2. CASE StopWorker(w) \/ \E p \in port : GetPacket(w, p)
    <3>1. Running' \subseteq Running
      BY <2>2 DEF StopWorker, LeaveThread, GetPacket, Running, ThreadsConsistent,
                  ExitPacket, NoPacket
    <3>2. UNCHANGED <<exitPackets, iocp_handle_>>
      BY <2>2 DEF StopWorker, GetPacket
    <3> QED BY <1>6, <3>1, <3>2, RunningShrinks
  <2> QED BY <1>6, <2>1, <2>2 DEF Dequeue
<1>7. ASSUME NEW w \in Workers, UNCHANGED serverVars,
             AcceptStep(w) \/ ReceiveStep(w) \/ CallbackSend(w) \/ DisconnectStep(w)
      PROVE  ExitPacketsSuffice'
  <2>1. pc[w] \notin {"none", "idle", "exited"} /\ job[w] \in Packet
    BY <1>7, PacketAtWork
    DEF AcceptStep, DispatchAccept, AcceptFails, HandleAccept, AssociateFails,
        CanHandleAccept, PushContext, RegisterConnection, Rearm, RearmFails,
        ReceiveStep, DispatchReceive, HandleReceive, CallbackReturns, PostReceive,
        PostReceiveFails, CallbackSend, DisconnectStep, DispatchDisconnect,
        RefuseDisconnect, EnterDisconnect, NotifyDisconnected, EraseConnection,
        CloseSocket, FreeContext, ThreadsConsistent, HasWork
  <2>4. UNCHANGED exitPackets /\ (iocp_handle_' => iocp_handle_)
    BY <1>7
    DEF AcceptStep, DispatchAccept, Dispatch, AcceptFails, HandleAccept,
        AssociateFails, PushContext, RegisterConnection, Rearm, RearmFails,
        ReceiveStep, DispatchReceive, HandleReceive, CallbackReturns, PostReceive,
        PostReceiveFails, CallbackSend, DisconnectStep, DispatchDisconnect,
        RefuseDisconnect, EnterDisconnect, NotifyDisconnected, EraseConnection,
        CloseSocket, FreeContext
  <2>5. \A v \in Workers \ {w} : pc'[v] = pc[v] /\ job'[v] = job[v]
    <3>1. CASE AcceptStep(w)
      BY <3>1
      DEF AcceptStep, DispatchAccept, Dispatch, AcceptFails, HandleAccept,
          AssociateFails, PushContext, RegisterConnection, Rearm, RearmFails,
          EndJob, LeaveThread
    <3>2. CASE ReceiveStep(w) \/ CallbackSend(w)
      BY <3>2
      DEF ReceiveStep, DispatchReceive, Dispatch, HandleReceive, CallbackReturns,
          PostReceive, PostReceiveFails, CallbackSend, Return, EndJob
    <3>3. CASE DisconnectStep(w)
      BY <3>3
      DEF DisconnectStep, DispatchDisconnect, Dispatch, RefuseDisconnect,
          EnterDisconnect, NotifyDisconnected, EraseConnection, CloseSocket,
          FreeContext, Return, EndJob
    <3> QED BY <1>7, <3>1, <3>2, <3>3
  <2>2. ExitPacket \notin Packet
    BY DEF ExitPacket, Packet
  <2>3. Running' \subseteq Running
    BY <2>1, <2>2, <2>5 DEF Running
  <2> QED BY <1>7, <2>3, <2>4, RunningShrinks
<1>8. CASE SystemStep /\ UNCHANGED serverVars
  BY <1>1, <1>8
  DEF SystemStep, CompleteAccept, AbortAccept, CompleteReceive, DataRace
<1>9. CASE EngineStep
  BY <1>6, <1>7, <1>8, <1>9 DEF EngineStep, WorkerStep
<1>10. CASE UNCHANGED vars
  BY <1>1, <1>10 DEF vars
<1> QED BY <1>2, <1>3, <1>4, <1>5, <1>9, <1>10 DEF Next, MainStep, StopStep

(* Only a context that was marked for it has a WSARecv outstanding, and only *)
(* an accept that succeeded is set up.                                      *)
Marked ==
  /\ \A c \in (receiving \cup Queued) \ {Listener} : LastOperation[c] = "IOReceive"
  /\ \A w \in Workers :
       /\ pc[w] = "got" /\ job[w].key \notin {None, Listener} =>
            LastOperation[job[w].key] = "IOReceive"
       /\ pc[w] \in {"list", "register"} => job[w].result # "error"

LEMMA MarkedKept ==
  ASSUME OwnershipInvariant, Marked,
         \A c \in live : LastOperation'[c] \in {LastOperation[c], "IOReceive"},
         UNCHANGED <<the_socket_context_, port>>,
         \A c \in receiving' \ receiving : LastOperation'[c] = "IOReceive",
         \A w \in Workers :
           /\ pc'[w] = "got" => pc[w] = "got" /\ job'[w] = job[w]
           /\ pc'[w] \in {"list", "register"} =>
                /\ pc[w] \in {"list", "register"} \/ job[w].result # "error"
                /\ job'[w] = job[w]
  PROVE  Marked'
<1> USE DEF OwnershipInvariant, ServerTypeOK, HandlerTypeOK, Marked, Listener
<1>1. ASSUME NEW c \in (receiving \cup Queued) \ {Listener}
      PROVE  LastOperation'[c] = "IOReceive"
  BY <1>1 DEF NoDanglingContext, InFlight
<1>2. ASSUME NEW w \in Workers, pc'[w] = "got", job'[w].key \notin {None, Listener}
      PROVE  LastOperation'[job'[w].key] = "IOReceive"
  <2>1. job[w].key \in live
    BY <1>2 DEF NoDanglingContext, Holds
  <2> QED BY <1>2, <2>1
<1>3. Queued' = Queued
  BY DEF Queued
<1> QED BY <1>1, <1>2, <1>3

LEMMA MarkedStep ==
  OwnershipInvariant /\ HandleInvariant /\ RegistryInvariant /\ Marked /\ [Next]_vars
  => Marked'
<1> SUFFICES ASSUME OwnershipInvariant, HandleInvariant, RegistryInvariant, Marked,
                    [Next]_vars
             PROVE  Marked'
  OBVIOUS
<1> USE HandlerAssumption
    DEF OwnershipInvariant, ServerTypeOK, HandlerTypeOK, threadVars, handlerVars,
        engineVars, contextVars, ioVars, acceptVars, Goto, MainGoto
<1>1. CASE UNCHANGED <<pc, job, receiving, port, LastOperation, the_socket_context_>>
  BY <1>1 DEF Marked, Queued, Listener
<1>2. CASE StartStep
  <2>1. CASE InitAccept \/ InitAcceptFails
    <3>1. receiving = {} /\ port = {} /\ \A w \in Workers : pc[w] \in {"none", "idle"}
      BY <2>1 DEF InitAccept, InitAcceptFails, StartsQuiet, BeforeUp
    <3>2. UNCHANGED <<receiving, port, pc, job>>
      BY <2>1 DEF InitAccept, InitAcceptFails
    <3> QED BY <3>1, <3>2 DEF Marked, Queued
  <2>2. CASE \E w \in Workers : StartWorker(w)
    BY <2>2, MarkedKept DEF StartWorker, CreateWorker
  <2> QED
    BY <1>1, <1>2, <2>1, <2>2
    DEF StartStep, StartHandler, InitHandler, CreateEventFails,
        StartWorkerFails, CreateWorkerFails, HandlerStarted, SetRunning,
        CreateListener, ListenFails, ArmListener, ArmListenerFails, StartFails
<1>3. CASE StopStep
  BY <1>1, <1>3
  DEF StopStep, BeginStop, PostExitPackets, PostPackets, WaitForWorkers,
      CloseListener, CloseNoListener
<1>4. ASSUME NEW w \in Workers, Dequeue(w) \/ StopWorker(w)
      PROVE  Marked'
  <2>1. CASE \E p \in port : GetPacket(w, p)
    <3>1. PICK p \in port : GetPacket(w, p)
      BY <2>1
    <3>2. p.key \in Queued /\ Queued' \subseteq Queued
      BY <3>1 DEF GetPacket, Queued
    <3>3. job'[w] = p /\ pc'[w] = "got"
          /\ \A v \in Workers \ {w} : pc'[v] = pc[v] /\ job'[v] = job[v]
      BY <3>1 DEF GetPacket
    <3> QED BY <3>1, <3>2, <3>3 DEF GetPacket, Marked, Listener
  <2>2. CASE GetExitPacket(w)
    BY <2>2 DEF GetExitPacket, ExitPacket, Marked, Listener, Queued
  <2>3. CASE StopWorker(w)
    BY <2>3, MarkedKept DEF StopWorker, LeaveThread
  <2> QED BY <1>4, <2>1, <2>2, <2>3 DEF Dequeue
<1>5. ASSUME NEW w \in Workers, AcceptStep(w)
      PROVE  Marked'
  <2>1. CASE HandleAccept(w)
    <3>1. PICK n \in Contexts : NewContext(n, SocketAccept[job[w].key], "IOConnect")
      BY <2>1 DEF HandleAccept
    <3>2. \A c \in live : LastOperation'[c] = LastOperation[c]
      BY <3>1 DEF NewContext
    <3> QED BY <2>1, <3>2, MarkedKept DEF HandleAccept, CanHandleAccept
  <2>2. CASE ~HandleAccept(w)
    <3>1. UNCHANGED <<LastOperation, the_socket_context_, port, receiving>>
      BY <1>5, <2>2
      DEF AcceptStep, DispatchAccept, Dispatch, AcceptFails, AssociateFails,
          PushContext, RegisterConnection, Rearm, RearmFails
    <3>2. \A v \in Workers :
            /\ pc'[v] = "got" => pc[v] = "got" /\ job'[v] = job[v]
            /\ pc'[v] \in {"list", "register"} =>
                 pc[v] \in {"list", "register"} /\ job'[v] = job[v]
      BY <1>5, <2>2
      DEF AcceptStep, DispatchAccept, Dispatch, AcceptFails, AssociateFails,
          PushContext, RegisterConnection, Rearm, RearmFails, EndJob, LeaveThread
    <3> QED BY <3>1, <3>2, MarkedKept
  <2> QED BY <2>1, <2>2
<1>6. ASSUME NEW w \in Workers, ReceiveStep(w) \/ CallbackSend(w)
      PROVE  Marked'
  <2>1. UNCHANGED <<the_socket_context_, port>>
    BY <1>6
    DEF ReceiveStep, DispatchReceive, Dispatch, HandleReceive,
        CallbackReturns, PostReceive, PostReceiveFails, CallbackSend
  <2>2. \A v \in Workers :
          /\ pc'[v] = "got" => pc[v] = "got" /\ job'[v] = job[v]
          /\ pc'[v] \in {"list", "register"} =>
               pc[v] \in {"list", "register"} /\ job'[v] = job[v]
    BY <1>6
    DEF ReceiveStep, DispatchReceive, Dispatch, HandleReceive, CallbackReturns,
        PostReceive, PostReceiveFails, CallbackSend, Return, EndJob
  <2>3. /\ \A c \in live : LastOperation'[c] \in {LastOperation[c], "IOReceive"}
        /\ \A c \in receiving' \ receiving : LastOperation'[c] = "IOReceive"
    BY <1>6
    DEF ReceiveStep, DispatchReceive, Dispatch, HandleReceive,
        CallbackReturns, PostReceive, PostReceiveFails, CallbackSend, ThreadsConsistent
  <2> QED BY <2>1, <2>2, <2>3, MarkedKept
<1>7. ASSUME NEW w \in Workers, DisconnectStep(w)
      PROVE  Marked'
  <2>1. UNCHANGED <<LastOperation, the_socket_context_, port, receiving>>
    BY <1>7
    DEF DisconnectStep, DispatchDisconnect, Dispatch, RefuseDisconnect,
        EnterDisconnect, NotifyDisconnected, EraseConnection, CloseSocket,
        FreeContext
  <2>2. \A v \in Workers :
          /\ pc'[v] = "got" => pc[v] = "got" /\ job'[v] = job[v]
          /\ pc'[v] \in {"list", "register"} =>
               pc[v] \in {"list", "register"} /\ job'[v] = job[v]
    BY <1>7
    DEF DisconnectStep, DispatchDisconnect, Dispatch, RefuseDisconnect,
        EnterDisconnect, NotifyDisconnected, EraseConnection, CloseSocket,
        FreeContext, Return, EndJob
  <2> QED BY <2>1, <2>2, MarkedKept
<1>8. CASE SystemStep
  <2>1. UNCHANGED <<pc, job, LastOperation, the_socket_context_>>
    BY <1>8
    DEF SystemStep, CompleteAccept, AbortAccept, CompleteReceive, DataRace
  <2>2. receiving' \cup Queued' \subseteq receiving \cup Queued \cup {Listener}
    <3>1. ASSUME NEW c \in Contexts, NEW r, port' = port \cup {[key |-> c, result |-> r]}
          PROVE  Queued' = Queued \cup {c}
      <4> DEFINE packet == [key |-> c, result |-> r]
      <4>1. packet.key = c
        OBVIOUS
      <4>2. port' = port \cup {packet}
        BY <3>1
      <4> HIDE DEF packet
      <4> QED BY <4>1, <4>2 DEF Queued
    <3>2. \A c \in accepting : c = Listener
      BY DEF RegistryInvariant, AcceptedHasPeer
    <3>3. CASE DataRace
      BY <3>3 DEF DataRace, Queued
    <3>4. ASSUME NEW c \in accepting, CompleteAccept(c) \/ AbortAccept(c)
          PROVE  Queued' = Queued \cup {Listener} /\ receiving' = receiving
      BY <3>1, <3>2, <3>4 DEF CompleteAccept, AbortAccept
    <3>5. ASSUME NEW c \in receiving, NEW r \in Results, CompleteReceive(c, r)
          PROVE  Queued' = Queued \cup {c} /\ receiving' = receiving \ {c}
      BY <3>1, <3>5 DEF CompleteReceive
    <3> QED BY <1>8, <3>3, <3>4, <3>5 DEF SystemStep
  <2> QED BY <2>1, <2>2 DEF Marked, Listener
<1>9. CASE EngineStep
  BY <1>4, <1>5, <1>6, <1>7, <1>8, <1>9 DEF EngineStep, WorkerStep
<1>10. CASE UNCHANGED vars
  BY <1>1, <1>10 DEF vars
<1> QED BY <1>2, <1>3, <1>9, <1>10 DEF Next, MainStep

(* A packet with data that reaches the switch has its case there.           *)
LEMMA CasesCovered ==
  ASSUME OwnershipInvariant, HandleInvariant, RegistryInvariant, Marked
  PROVE  NoCaseMissing
<1> USE HandlerAssumption
    DEF OwnershipInvariant, ServerTypeOK, HandlerTypeOK, HandleInvariant
<1> SUFFICES ASSUME NEW w \in Workers
             PROVE  /\ HasWork(w) /\ job[w].result = "data" =>
                         LastOperation[job[w].key] \in {"IOAccept", "IOReceive"}
                    /\ pc[w] = "register" =>
                         peer[socket[cur[w]]] \in Conns /\ job[w].result # "error"
                    /\ pc[w] \in {"accept", "rearm", "lock"} =>
                         the_socket_context_ # None
  BY DEF NoCaseMissing
<1>1. ASSUME HasWork(w)
      PROVE  LastOperation[job[w].key] \in {"IOAccept", "IOReceive"}
  <2>1. CASE job[w].key = Listener
    BY <1>1, <2>1 DEF HasWork, ListenerApart
  <2>2. CASE job[w].key # Listener
    BY <1>1, <2>2 DEF HasWork, Marked
  <2> QED BY <2>1, <2>2
<1>2. ASSUME pc[w] = "register"
      PROVE  peer[socket[cur[w]]] \in Conns /\ job[w].result # "error"
  <2>1. cur[w] # None
    BY <1>2 DEF ThreadsConsistent
  <2>2. cur[w] \in live \ {Listener} /\ socket[cur[w]] # None
    BY <1>2, <2>1, CurrentContext
  <2> QED BY <1>2, <2>2 DEF RegistryInvariant, ContextsHaveEntries, Marked
<1>3. ASSUME pc[w] \in {"accept", "rearm", "lock"}
      PROVE  the_socket_context_ # None
  <2>1. job[w] \in Packet
    BY <1>3 DEF ThreadsConsistent
  <2>2. job[w].key \in live
    BY <2>1 DEF Packet, Holds, NoDanglingContext
  <2> QED BY <2>2 DEF ListenerFirst, Listener
<1> QED BY <1>1, <1>2, <1>3

LEMMA WorkInvariantHolds == Spec /\ []RegistryInvariant => []WorkInvariant
<1>1. Init => DisconnectsSerialized
  BY HandlerAssumption DEF Init, HandlerInit, DisconnectsSerialized
<1>2. Init => ExitPacketsSuffice
  BY DEF Init, ExitPacketsSuffice
<1>3. Init => Marked
  BY DEF Init, HandlerInit, Marked, Queued
<1>4. /\ OwnershipInvariant /\ HandleInvariant /\ RegistryInvariant
      /\ DisconnectsSerialized /\ ExitPacketsSuffice /\ Marked
      => WorkInvariant
  <2>1. Marked => \A w \in Workers : pc[w] = "list" => job[w].result # "error"
    BY DEF Marked
  <2> QED BY <2>1, CasesCovered DEF WorkInvariant, Marked
<1> QED BY <1>1, <1>2, <1>3, <1>4, LockStep, ExitPacketsStep, MarkedStep, PTL,
           OwnershipInvariantHolds, HandleInvariantHolds
        DEF Spec

(* The invariants of the server, for every value of the constants. *)
THEOREM ServerInvariantHolds == Spec => []ServerInvariant
<1>1. Init => RegistryInvariant
  BY RegistryInit
<1>2. Init => EventsInvariant
  BY DEF Init, HandlerInit, EventsInvariant, SetUpOnce
<1>3. Init => AccountInvariant
  BY AccountInit
<1>4. OwnershipInvariant /\ HandleInvariant /\ RegistryInvariant /\ [Next]_vars
      => RegistryInvariant'
  BY RegistryStep
<1>5. /\ OwnershipInvariant /\ HandleInvariant /\ RegistryInvariant
      /\ EventsInvariant /\ [Next]_vars
      => EventsInvariant'
  BY EventsStep
<1>6. /\ OwnershipInvariant /\ HandleInvariant /\ RegistryInvariant
      /\ AccountInvariant /\ [Next]_vars
      => AccountInvariant'
  BY AccountStep
<1>7. /\ OwnershipInvariant /\ HandleInvariant /\ RegistryInvariant
      /\ EventsInvariant /\ ExitInvariant /\ ChainInvariant /\ AccountInvariant
      /\ WorkInvariant
      => ServerInvariant
  BY DEF ServerInvariant
<1> QED BY <1>1, <1>2, <1>3, <1>4, <1>5, <1>6, <1>7, OwnershipInvariantHolds,
           HandleInvariantHolds, ExitInvariantHolds, ChainInvariantHolds,
           WorkInvariantHolds, PTL
        DEF Spec

(* socket_contexts_ has every connection's context from push_front to the   *)
(* deletion.                                                                *)
THEOREM ListComplete == Spec => []ListMatches
<1>1. ServerInvariant => ListMatches
  BY DEF ServerInvariant, AccountInvariant
<1> QED BY <1>1, ServerInvariantHolds, PTL

(* No handle is leaked, whatever call fails. *)
THEOREM NoHandleLeaked == Spec => []HandlesAccounted
<1>1. ServerInvariant => HandlesAccounted
  BY DEF ServerInvariant, AccountInvariant
<1> QED BY <1>1, ServerInvariantHolds, PTL

(* A worker with received data finds the connection the data is for: the    *)
(* branch of handle_receive for a socket without one is never taken.        *)
THEOREM ReceiversRegistered == Spec => []ReceiverRegistered
<1>1. ServerInvariant => ReceiverRegistered
  <2> SUFFICES ASSUME ServerInvariant, NEW w \in Workers, pc[w] = "lookup"
               PROVE  LET k == connections_[socket[cur[w]]]
                      IN  /\ k # None /\ k = peer[socket[cur[w]]]
                          /\ socket_[k] = socket[cur[w]]
    BY DEF ReceiverRegistered
  <2>1. cur[w] # None
    BY HandlerAssumption DEF ServerInvariant, OwnershipInvariant, ThreadsConsistent
  <2> QED BY <2>1, CurrentEntry, HandlerAssumption DEF ServerInvariant
<1> QED BY <1>1, ServerInvariantHolds, PTL

(* An entry of connections_ is always that of the connection which has the  *)
(* handle now: no entry outlives a use of its handle value.                 *)
THEOREM RegistrationFresh == Spec => []NoStaleRegistration
<1>1. ServerInvariant => NoStaleRegistration
  BY DEF ServerInvariant, RegistryInvariant, EntriesHaveContexts,
         NoStaleRegistration
<1> QED BY <1>1, ServerInvariantHolds, PTL

(* A Send from onDataReceived is made on the open handle of the peer of the *)
(* connection it is for.                                                    *)
THEOREM SendReachesPeer == Spec => []NoStraySend
<1>1. ServerInvariant => NoStraySend
  BY DEF ServerInvariant, RegistryInvariant
<1> QED BY <1>1, ServerInvariantHolds, PTL

(* A worker waits for locker_ only while another is in disconnect; no two   *)
(* onDisconnected callbacks overlap.                                        *)
THEOREM OneDisconnect == Spec => []DisconnectsSerialized
<1>1. ServerInvariant => DisconnectsSerialized
  BY DEF ServerInvariant, WorkInvariant
<1> QED BY <1>1, ServerInvariantHolds, PTL

(* The switch of WorkerThread has a case for every packet it meets, and the *)
(* code it goes to finds what it needs.                                     *)
THEOREM CasesComplete == Spec => []NoCaseMissing
<1>1. ServerInvariant => NoCaseMissing
  BY DEF ServerInvariant, WorkInvariant
<1> QED BY <1>1, ServerInvariantHolds, PTL

(* Stop posts enough exit packets, whatever the workers do meanwhile.       *)
THEOREM ExitPacketForEach == Spec => []ExitPacketsSuffice
<1>1. ServerInvariant => ExitPacketsSuffice
  BY DEF ServerInvariant, WorkInvariant
<1> QED BY <1>1, ServerInvariantHolds, PTL

(* So no worker waits in the port after Stop without a packet to take.      *)
THEOREM NobodyLeftWaiting ==
  Spec => [](main \in {"wait", "close", "done"} /\ iocp_handle_ =>
               \A w \in Workers : pc[w] = "idle" => exitPackets > 0)
<1>1. ServerInvariant =>
        (main \in {"wait", "close", "done"} /\ iocp_handle_ =>
           \A w \in Workers : pc[w] = "idle" => exitPackets > 0)
  <2> SUFFICES ASSUME ServerInvariant, main \in {"wait", "close", "done"},
                      iocp_handle_, NEW w \in Workers, pc[w] = "idle"
               PROVE  exitPackets > 0
    OBVIOUS
  <2>1. w \in Running
    BY DEF Running, ServerInvariant, OwnershipInvariant, ThreadsConsistent,
           ExitPacket, NoPacket
  <2>2. IsFiniteSet(Running)
    BY HandlerAssumption, FS_Subset DEF Running
  <2>3. Cardinality(Running) \in Nat /\ Cardinality(Running) # 0
    BY <2>1, <2>2, FS_EmptySet, FS_CardinalityType
  <2>4. Cardinality(Running) <= exitPackets /\ exitPackets \in Nat
    BY WorkersCounted DEF ServerInvariant, WorkInvariant, ExitPacketsSuffice,
       OwnershipInvariant, ServerTypeOK, HandlerTypeOK
  <2> QED BY <2>3, <2>4
<1> QED BY <1>1, ServerInvariantHolds, PTL

-----------------------------------------------------------------------------
(* The callbacks come in the order ConnectionEvents promises *)

(* A worker is the only one at its connection. *)
LEMMA OnlyWorker ==
  ASSUME ServerInvariant, NEW w \in Workers, cur[w] # None, pc[w] # "free",
         NEW k \in Conns, k = peer[socket[cur[w]]]
  PROVE  /\ k \notin InCallback \/ pc[w] = "callback"
         /\ \A v \in Workers \ {w} : conn[v] # k
         /\ k \notin notified \/ pc[w] \in {"erase", "close"}
<1> USE HandlerAssumption DEF ServerInvariant
<1>1. /\ socket[cur[w]] \in Sockets
      /\ \A v \in Workers \ {w} : cur[v] # cur[w]
      /\ \A c \in live \ {cur[w]} : socket[c] # socket[cur[w]]
  BY CurrentContext
<1>2. ASSUME NEW v \in Workers \ {w}, pc[v] \in {"callback", "erase", "close"}
      PROVE  socket[cur[v]] \in Sockets /\ socket[cur[v]] # socket[cur[w]]
  <2>1. cur[v] # None
    BY <1>2 DEF OwnershipInvariant, ThreadsConsistent
  <2>2. cur[v] \in live /\ socket[cur[v]] \in Sockets
    BY <1>2, <2>1, CurrentContext
  <2> QED BY <1>1, <2>2
<1>3. ASSUME NEW v \in Workers \ {w}, conn[v] = k
      PROVE  FALSE
  <2>1. pc[v] = "callback" /\ k = peer[socket[cur[v]]]
    BY <1>3 DEF EventsInvariant, RegistryInvariant, HandlersConsistent
  <2> QED BY <1>1, <1>2, <2>1 DEF RegistryInvariant, PeersDistinct
<1>4. conn[w] # k \/ pc[w] = "callback"
  BY DEF EventsInvariant
<1>5. k \in notified => pc[w] \in {"erase", "close"}
  BY <1>1, <1>2 DEF RegistryInvariant, NotifiedGone
<1> QED BY <1>3, <1>4, <1>5 DEF InCallback

(* No onDataReceived runs for a connection whose end was reported.          *)
THEOREM NoDataAfterClose == Spec => [](InCallback \cap notified = {})
<1>1. ServerInvariant => InCallback \cap notified = {}
  <2> SUFFICES ASSUME ServerInvariant, NEW w \in Workers, conn[w] # None,
                      conn[w] \in notified
               PROVE  FALSE
    BY DEF InCallback
  <2>1. pc[w] = "callback" /\ cur[w] # None
    BY HandlerAssumption
       DEF ServerInvariant, OwnershipInvariant, ThreadsConsistent, EventsInvariant
  <2>2. conn[w] \in Conns /\ conn[w] = peer[socket[cur[w]]]
    BY <2>1 DEF ServerInvariant, OwnershipInvariant, ThreadsConsistent,
                RegistryInvariant, HandlersConsistent
  <2> QED BY <2>1, <2>2, OnlyWorker
<1> QED BY <1>1, ServerInvariantHolds, PTL

(* disconnect finds a connection to report, and reports none twice.         *)
THEOREM OneNotification == Spec => []NotifiedOnce
<1>1. ServerInvariant => NotifiedOnce
  <2> SUFFICES ASSUME ServerInvariant, NEW w \in Workers, pc[w] = "notify"
               PROVE  connections_[socket[cur[w]]] \in Conns \ notified
    BY DEF NotifiedOnce
  <2>1. cur[w] # None
    BY HandlerAssumption DEF ServerInvariant, OwnershipInvariant, ThreadsConsistent
  <2>2. PICK k \in Conns :
          k = peer[socket[cur[w]]] /\ k = connections_[socket[cur[w]]]
    BY <2>1, CurrentEntry DEF ServerInvariant
  <2> QED BY <2>1, <2>2, OnlyWorker
<1> QED BY <1>1, ServerInvariantHolds, PTL

(* Setting a connection up is Connect of the promise. *)
LEMMA RegisterRefines ==
  ASSUME ServerInvariant, NEW w \in Workers, RegisterConnection(w)
  PROVE  Events!EventsNext
<1> USE HandlerAssumption
    DEF ServerInvariant, OwnershipInvariant, ServerTypeOK, HandlerTypeOK
<1>1. PICK k \in Conns :
        /\ k = peer[socket[cur[w]]]
        /\ connected_' = [connected_ EXCEPT ![k] = TRUE]
        /\ conn' = conn \/ conn' = [conn EXCEPT ![w] = k]
  BY DEF RegisterConnection
<1>2. cur[w] # None /\ pc[w] = "register" /\ conn[w] = None /\ notified' = notified
  BY DEF RegisterConnection, ThreadsConsistent, EventsInvariant
<1>3. k \notin notified
  BY <1>1, <1>2, OnlyWorker
<1>4. ~connected_[k]
  <2>1. /\ socket[cur[w]] \in Sockets
        /\ \A c \in live \ {cur[w]} : socket[c] # socket[cur[w]]
    BY <1>2, CurrentContext
  <2> QED BY <1>1, <1>2, <2>1 DEF EventsInvariant, SetUpOnce
<1>5. Stage[k] = "away" /\ Stage' = [Stage EXCEPT ![k] = "open"]
  BY <1>1, <1>2, <1>3, <1>4 DEF Stage
<1>6. InCallback' \in {InCallback, InCallback \cup {k}}
  <2>1. CASE conn' = conn
    BY <2>1 DEF InCallback
  <2>2. CASE conn' = [conn EXCEPT ![w] = k]
    BY <1>2, <2>2 DEF InCallback
  <2> QED BY <1>1, <2>1, <2>2
<1>7. Events!Connect(k)
  BY <1>5, <1>6 DEF Events!Connect
<1> QED BY <1>7 DEF Events!EventsNext

(* Handing received data over is BeginData. *)
LEMMA ReceiveRefines ==
  ASSUME ServerInvariant, NEW w \in Workers, HandleReceive(w)
  PROVE  Events!EventsNext
<1> USE HandlerAssumption
    DEF ServerInvariant, OwnershipInvariant, ServerTypeOK, HandlerTypeOK
<1>1. cur[w] # None /\ pc[w] = "lookup" /\ conn[w] = None
  BY DEF HandleReceive, ThreadsConsistent, EventsInvariant
<1>2. PICK k \in Conns :
        /\ k = connections_[socket[cur[w]]]
        /\ conn' = [conn EXCEPT ![w] = k]
  BY DEF HandleReceive
<1>3. k = peer[socket[cur[w]]] /\ socket[cur[w]] \in Sockets
  BY <1>1, <1>2, CurrentEntry, CurrentContext
<1>4. k \notin InCallback /\ k \notin notified
  BY <1>1, <1>3, OnlyWorker
<1>5. Stage[k] = "open"
  <2>1. k = connections_[socket[cur[w]]] /\ k # None
    BY <1>2
  <2>2. connected_[k]
    BY <1>3, <2>1 DEF EventsInvariant
  <2> QED BY <1>4, <2>2 DEF Stage
<1>6. UNCHANGED Stage
  BY DEF HandleReceive, connVars, Stage
<1>7. InCallback' = InCallback \cup {k}
  BY <1>1, <1>2 DEF InCallback
<1>8. Events!BeginData(k)
  BY <1>4, <1>5, <1>6, <1>7 DEF Events!BeginData
<1> QED BY <1>8 DEF Events!EventsNext

(* The return of onDataReceived is EndData. *)
LEMMA ReturnRefines ==
  ASSUME ServerInvariant, NEW w \in Workers, CallbackReturns(w)
  PROVE  Events!EventsNext
<1> USE HandlerAssumption
    DEF ServerInvariant, OwnershipInvariant, ServerTypeOK, HandlerTypeOK
<1>1. pc[w] = "callback" /\ cur[w] # None /\ conn' = [conn EXCEPT ![w] = None]
  BY DEF CallbackReturns, ThreadsConsistent
<1>2. PICK k \in Conns : k = conn[w] /\ k = peer[socket[cur[w]]]
  BY <1>1 DEF ThreadsConsistent, RegistryInvariant, HandlersConsistent
<1>3. \A v \in Workers \ {w} : conn[v] # k
  BY <1>1, <1>2, OnlyWorker
<1>4. k \in InCallback /\ InCallback' = InCallback \ {k}
  <2>1. k # None /\ conn'[w] = None /\ conn[w] = k
    BY <1>1, <1>2
  <2>2. \A v \in Workers \ {w} : conn'[v] = conn[v] /\ conn[v] # k
    BY <1>1, <1>3
  <2>3. ASSUME NEW x PROVE x \in InCallback' <=> x \in InCallback \ {k}
    BY <2>1, <2>2 DEF InCallback
  <2> QED BY <2>1, <2>3 DEF InCallback
<1>5. UNCHANGED Stage
  BY DEF CallbackReturns, connVars, Stage
<1>6. Events!EndData(k)
  BY <1>4, <1>5 DEF Events!EndData
<1> QED BY <1>6 DEF Events!EventsNext

(* onDisconnected is Disconnected. *)
LEMMA NotifyRefines ==
  ASSUME ServerInvariant, NEW w \in Workers, NotifyDisconnected(w)
  PROVE  Events!EventsNext
<1> USE HandlerAssumption
    DEF ServerInvariant, OwnershipInvariant, ServerTypeOK, HandlerTypeOK
<1>1. cur[w] # None /\ pc[w] = "notify"
  BY DEF NotifyDisconnected, ThreadsConsistent
<1>2. PICK k \in Conns :
        k = peer[socket[cur[w]]] /\ k = connections_[socket[cur[w]]]
  BY <1>1, CurrentEntry
<1>3. k \notin InCallback /\ k \notin notified
  BY <1>1, <1>2, OnlyWorker
<1>4. socket[cur[w]] \in Sockets
  BY <1>1, CurrentContext
<1>5. notified' = notified \cup {k} /\ connected_' = connected_ /\ conn' = conn
  BY <1>2 DEF NotifyDisconnected
<1>6. Stage[k] = "open" /\ Stage' = [Stage EXCEPT ![k] = "closed"]
  BY <1>2, <1>3, <1>4, <1>5 DEF Stage, EventsInvariant
<1>7. UNCHANGED InCallback
  BY <1>5 DEF InCallback
<1>8. Events!Disconnected(k)
  BY <1>3, <1>6, <1>7 DEF Events!Disconnected
<1> QED BY <1>8 DEF Events!EventsNext

(* Steps that set up no connection and start or end no callback.            *)
LEMMA SilentStep ==
  ASSUME UNCHANGED <<conn, connected_, notified>>
  PROVE  UNCHANGED Events!eventVars
BY DEF Events!eventVars, Stage, InCallback

(* Every step of the server is one of the promise, or invisible in it. *)
LEMMA StepRefines ==
  ASSUME ServerInvariant, [Next]_vars
  PROVE  [Events!EventsNext]_(Events!eventVars)
<1> USE DEF handlerVars, connVars, threadVars
<1>1. CASE UNCHANGED vars
  BY <1>1, SilentStep DEF vars
<1>2. CASE StartStep
  BY <1>2, SilentStep
  DEF StartStep, StartHandler, InitHandler, CreateEventFails, StartWorker,
      CreateWorker, StartWorkerFails, CreateWorkerFails, HandlerStarted,
      SetRunning, CreateListener, ListenFails, InitAccept, InitAcceptFails,
      ArmListener, ArmListenerFails, StartFails
<1>3. CASE StopStep
  BY <1>3, SilentStep
  DEF StopStep, BeginStop, PostExitPackets, PostPackets, WaitForWorkers,
      CloseListener, CloseNoListener
<1>4. CASE SystemStep
  BY <1>4, SilentStep
  DEF SystemStep, CompleteAccept, AbortAccept, CompleteReceive, DataRace
<1>5. ASSUME NEW w \in Workers, WorkerStep(w) \/ CallbackSend(w)
      PROVE  [Events!EventsNext]_(Events!eventVars)
  <2>1. CASE Dequeue(w) \/ StopWorker(w)
    BY <2>1, SilentStep DEF Dequeue, GetPacket, GetExitPacket, StopWorker
  <2>2. CASE AcceptStep(w)
    BY <2>2, SilentStep, RegisterRefines
    DEF AcceptStep, DispatchAccept, Dispatch, AcceptFails, HandleAccept,
        AssociateFails, PushContext, Rearm, RearmFails
  <2>3. CASE ReceiveStep(w) \/ CallbackSend(w)
    BY <2>3, SilentStep, ReceiveRefines, ReturnRefines
    DEF ReceiveStep, DispatchReceive, Dispatch, PostReceive, PostReceiveFails,
        CallbackSend
  <2>4. CASE DisconnectStep(w)
    BY <2>4, SilentStep, NotifyRefines
    DEF DisconnectStep, DispatchDisconnect, Dispatch, RefuseDisconnect,
        EnterDisconnect, EraseConnection, CloseSocket, FreeContext
  <2> QED BY <1>5, <2>1, <2>2, <2>3, <2>4 DEF WorkerStep
<1> QED BY <1>1, <1>2, <1>3, <1>4, <1>5 DEF Next, MainStep, EngineStep

(* The server implements ConnectionEvents: each connection is set up once,  *)
(* its onDataReceived calls never overlap, and onDisconnected is its last.  *)
THEOREM CallbacksOrdered == Spec => CallbacksInOrder
<1>1. Init => Events!EventsInit
  <2> SUFFICES ASSUME Init PROVE Events!EventsInit
    OBVIOUS
  <2>1. InCallback = {}
    BY DEF Init, HandlerInit, InCallback
  <2> QED BY <2>1 DEF Init, HandlerInit, Stage, Events!EventsInit
<1>2. ServerInvariant /\ [Next]_vars => [Events!EventsNext]_(Events!eventVars)
  BY StepRefines
<1> QED BY <1>1, <1>2, ServerInvariantHolds, PTL
        DEF Spec, CallbacksInOrder, Events!EventsSpec

=============================================================================
