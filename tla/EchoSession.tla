---------------------------- MODULE EchoSession ----------------------------
(***************************************************************************)
(* The echo exchange of src/main.cpp.  The session thread of the client     *)
(* sends one message; the two onDataReceived callbacks send whatever comes  *)
(* back and forth, until the client has counted more than Limit deliveries. *)
(* Send blocks: SocketFactory turns the send buffer off, so bytes wait in   *)
(* the sender until the peer's receive window has room.  Bytes come in      *)
(* units.  Each connection has one callback at a time (see TcpServer).      *)
(***************************************************************************)
EXTENDS Naturals

CONSTANTS
  Message,   \* units the session sends: 10 * 1024 bytes
  MaxRecv,   \* units one receive may take: max_buff_size
  Window,    \* units a connection holds in one direction
  Limit      \* 100

ASSUME EchoAssumption ==
  /\ Message \in Nat /\ MaxRecv \in Nat /\ Window \in Nat /\ Limit \in Nat
  /\ 0 < Window
  /\ MaxRecv <= Message

VARIABLES
  counter, g_hDone,   \* the globals
  session,            \* ClientSession: before Send, inside it, waiting, done
  open,               \* the connection is not broken
  link,               \* units on their way to each end
  sending             \* units left in the Send of each thread

vars == <<counter, g_hDone, session, open, link, sending>>

Ends == {"server", "client"}

(* The session thread sends on the client's connection. *)
Senders == Ends \cup {"session"}

To(e) == IF e = "server" THEN "client" ELSE "server"

EchoTypeOK ==
  /\ counter \in 0..(Limit + Message)
  /\ g_hDone \in BOOLEAN
  /\ session \in {"begin", "send", "wait", "done"}
  /\ open \in BOOLEAN
  /\ link \in [Ends -> 0..Window]
  /\ sending \in [Senders -> 0..Message]
  /\ \A e \in Ends : sending[e] <= MaxRecv

Init ==
  /\ counter = 0
  /\ g_hDone = FALSE
  /\ session = "begin"
  /\ open = TRUE
  /\ link = [e \in Ends |-> 0]
  /\ sending = [e \in Senders |-> 0]

-----------------------------------------------------------------------------
BeginSend ==
  /\ session = "begin"
  /\ session' = "send"
  /\ counter' = 0
  /\ sending' = [sending EXCEPT !["session"] = Message]
  /\ UNCHANGED <<g_hDone, open, link>>

(* Its Send has returned: WaitForSingleObject(g_hDone, -1). *)
EndSend ==
  /\ session = "send"
  /\ sending["session"] = 0
  /\ session' = "wait"
  /\ UNCHANGED <<counter, g_hDone, open, link, sending>>

SessionDone ==
  /\ session = "wait"
  /\ g_hDone
  /\ session' = "done"
  /\ UNCHANGED <<counter, g_hDone, open, link, sending>>

(* One more unit of a Send goes out. *)
Transmit(e) ==
  /\ open
  /\ sending[e] > 0
  /\ link[To(e)] < Window
  /\ sending' = [sending EXCEPT ![e] = @ - 1]
  /\ link' = [link EXCEPT ![To(e)] = @ + 1]
  /\ UNCHANGED <<counter, g_hDone, session, open>>

(* The result of send() is not looked at: Send returns all the same. *)
SendFails(e) ==
  /\ ~open
  /\ sending[e] > 0
  /\ sending' = [sending EXCEPT ![e] = 0]
  /\ UNCHANGED <<counter, g_hDone, session, open, link>>

Receive(e, k) ==
  /\ sending[e] = 0
  /\ k \in 1..MaxRecv /\ k <= link[e]
  /\ link' = [link EXCEPT ![e] = @ - k]
  /\ UNCHANGED <<session, open>>

Echo(e, k) == sending' = [sending EXCEPT ![e] = k]

(* Faulty: if( counter >= 100 ) return. *)
ServerStopsEarly(k) ==
  /\ Receive("server", k)
  /\ IF counter >= Limit THEN UNCHANGED sending ELSE Echo("server", k)
  /\ UNCHANGED <<counter, g_hDone>>

(* Faulty: sends length + 1, one unit that was not received. *)
ServerSendsMore(k) ==
  /\ Receive("server", k)
  /\ IF counter > Limit THEN UNCHANGED sending ELSE Echo("server", k + 1)
  /\ UNCHANGED <<counter, g_hDone>>

(* onDataReceived *)
ServerReceives(k) ==
  /\ Receive("server", k)
  /\ IF counter > Limit THEN UNCHANGED sending ELSE Echo("server", k)
  /\ UNCHANGED <<counter, g_hDone>>

(* onDataReceiveClient *)
ClientReceives(k) ==
  /\ Receive("client", k)
  /\ counter' = counter + 1
  /\ \/ /\ counter' > Limit
        /\ g_hDone' = TRUE
        /\ UNCHANGED sending
     \/ /\ counter' <= Limit
        /\ Echo("client", k)
        /\ UNCHANGED g_hDone

(* The connection is lost, and what was on its way with it. *)
Break ==
  /\ open
  /\ open' = FALSE
  /\ link' = [e \in Ends |-> 0]
  /\ UNCHANGED <<counter, g_hDone, session, sending>>

-----------------------------------------------------------------------------
Receives == \E k \in 1..MaxRecv : ServerReceives(k)

ClientReceivesSome == \E k \in 1..MaxRecv : ClientReceives(k)

SessionStep == BeginSend \/ EndSend \/ SessionDone

SendStep(e) == Transmit(e) \/ SendFails(e)

Next ==
  \/ SessionStep
  \/ Receives
  \/ ClientReceivesSome
  \/ \E e \in Senders : SendStep(e)
  \/ Break

Spec == Init /\ [][Next]_vars

(* Threads run, and the system delivers: of two threads that send on the    *)
(* client's connection neither is passed over for ever.                     *)
Fairness ==
  /\ WF_vars(SessionStep)
  /\ WF_vars(Receives)
  /\ WF_vars(ClientReceivesSome)
  /\ \A e \in Senders : SF_vars(SendStep(e))

-----------------------------------------------------------------------------
(* Properties *)

Total == link["server"] + link["client"]
         + sending["server"] + sending["client"] + sending["session"]

(* No byte is lost or made while the exchange goes on: all of the message   *)
(* is on a connection or in a Send until the client has counted past Limit. *)
Conserved ==
  /\ Total <= Message
  /\ open /\ counter <= Limit /\ session # "begin" => Total = Message

(* The echo cannot block itself: both ends send with blocking calls, yet    *)
(* one of the threads can always go on, for a message that the two          *)
(* directions can hold with one unit to spare.                              *)
NeverStuck ==
  Message <= 2 * Window + 1 /\ open /\ Total > 0 =>
    \/ \E e \in Senders : sending[e] > 0 /\ link[To(e)] < Window
    \/ \E e \in Ends : sending[e] = 0 /\ link[e] > 0

(* The session ends, or the connection broke and no thread is left in Send. *)
EchoEnds ==
  session = "send" ~>
    \/ session = "done"
    \/ ~open /\ \A e \in Senders : sending[e] = 0

=============================================================================
