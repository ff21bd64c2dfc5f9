----------------------------- MODULE EchoProofs -----------------------------
(***************************************************************************)
(* EchoSession for every message, receive size, window and limit: the bytes *)
(* are conserved, the counter is bounded, and the echo cannot block itself. *)
(***************************************************************************)
EXTENDS EchoSession, TLAPS

(* Past the limit every delivery takes at least one unit away for good. *)
CounterBound == counter > Limit => counter + Total <= Limit + Message

Quiet == session = "begin" => counter = 0 /\ Total = 0

EchoInv == EchoTypeOK /\ Quiet /\ Conserved /\ CounterBound

(* The number of units under way is a natural number. *)
LEMMA TotalType ==
  ASSUME EchoTypeOK
  PROVE  /\ link["server"] \in Nat /\ link["server"] <= Window
         /\ link["client"] \in Nat /\ link["client"] <= Window
         /\ sending["server"] \in Nat /\ sending["server"] <= MaxRecv
         /\ sending["client"] \in Nat /\ sending["client"] <= MaxRecv
         /\ sending["session"] \in Nat
         /\ counter \in Nat
         /\ Total \in Nat
<1>1. /\ link["server"] \in 0..Window /\ link["client"] \in 0..Window
      /\ sending["server"] \in 0..Message /\ sending["client"] \in 0..Message
      /\ sending["session"] \in 0..Message
      /\ sending["server"] <= MaxRecv /\ sending["client"] <= MaxRecv
      /\ counter \in 0..(Limit + Message)
  BY DEF EchoTypeOK, Ends, Senders
<1>2. /\ link["server"] \in Nat /\ link["server"] <= Window
      /\ link["client"] \in Nat /\ link["client"] <= Window
      /\ sending["server"] \in Nat /\ sending["client"] \in Nat
      /\ sending["session"] \in Nat /\ counter \in Nat
  BY <1>1, EchoAssumption
<1> QED BY <1>1, <1>2 DEF Total

(* The program starts with no byte under way. *)
LEMMA EchoInitInv == Init => EchoInv
<1> SUFFICES ASSUME Init PROVE EchoInv
  OBVIOUS
<1>1. EchoTypeOK
  <2>1. 0 \in 0..Window /\ 0 \in 0..Message /\ 0 \in 0..(Limit + Message)
    BY EchoAssumption
  <2>2. link \in [Ends -> 0..Window] /\ sending \in [Senders -> 0..Message]
    BY <2>1 DEF Init
  <2>3. \A e \in Ends : sending[e] <= MaxRecv
    BY EchoAssumption DEF Init, Ends, Senders
  <2> QED BY <2>1, <2>2, <2>3 DEF Init, EchoTypeOK
<1>2. Total = 0
  BY DEF Init, Total, Ends, Senders
<1> QED BY <1>1, <1>2, EchoAssumption DEF Init, EchoInv, Quiet, Conserved, CounterBound

(* A broken connection only loses bytes. *)
LEMMA LossStep ==
  ASSUME EchoInv, EchoTypeOK', Total' \in Nat, Total' <= Total, ~open',
         counter' = counter, session' = session
  PROVE  EchoInv'
<1>1. Total \in Nat /\ counter \in Nat
  BY TotalType DEF EchoInv
<1>2. Quiet'
  BY <1>1 DEF EchoInv, Quiet
<1>3. Conserved'
  BY <1>1, EchoAssumption DEF EchoInv, Conserved
<1>4. CounterBound'
  <2>1. counter > Limit => counter + Total <= Limit + Message
    BY DEF EchoInv, CounterBound
  <2>2. \A c, m, n, b \in Nat : n <= m /\ c + m <= b => c + n <= b
    OBVIOUS
  <2>3. Limit + Message \in Nat
    BY EchoAssumption
  <2>4. counter > Limit => counter + Total' <= Limit + Message
    BY <1>1, <2>1, <2>2, <2>3
  <2> QED BY <2>4 DEF CounterBound
<1> QED BY <1>2, <1>3, <1>4 DEF EchoInv

(* The first Send puts the message in. *)
LEMMA BeginStep ==
  ASSUME EchoInv, BeginSend
  PROVE  EchoInv'
<1>1. Total = 0
  BY DEF EchoInv, Quiet, BeginSend
<1>2. Total' = Message
  BY <1>1, TotalType, EchoAssumption DEF Total, BeginSend, EchoInv, EchoTypeOK, Ends, Senders
<1>3. EchoTypeOK'
  BY EchoAssumption DEF BeginSend, EchoInv, EchoTypeOK, Ends, Senders
<1> QED BY <1>2, <1>3, EchoAssumption DEF BeginSend, EchoInv, Quiet, Conserved, CounterBound

(* A unit moves from a Send to the connection. *)
LEMMA TransmitStep ==
  ASSUME EchoInv, NEW e \in Senders, Transmit(e)
  PROVE  EchoInv'
<1>1. To(e) \in Ends /\ To(e) \in {"server", "client"} /\ e \in {"server", "client", "session"}
  BY DEF To, Ends, Senders
<1>2. EchoTypeOK'
  BY <1>1, EchoAssumption DEF Transmit, EchoInv, EchoTypeOK, Ends, Senders
<1>3. Total' = Total
  BY <1>1, TotalType DEF Transmit, EchoInv, EchoTypeOK, Total, Ends, Senders
<1> QED BY <1>2, <1>3 DEF Transmit, EchoInv, Quiet, Conserved, CounterBound

(* On a broken connection a Send drops what it had left. *)
LEMMA FailStep ==
  ASSUME EchoInv, NEW e \in Senders, SendFails(e)
  PROVE  EchoInv'
<1>1. EchoTypeOK'
  BY EchoAssumption DEF SendFails, EchoInv, EchoTypeOK, Ends, Senders
<1>2. /\ Total \in Nat /\ Total' <= Total /\ Total' \in Nat
  BY TotalType DEF SendFails, EchoInv, EchoTypeOK, Total, Ends, Senders
<1> QED BY <1>1, <1>2, LossStep DEF SendFails

(* A break drops what was on its way. *)
LEMMA BreakStep ==
  ASSUME EchoInv, Break
  PROVE  EchoInv'
<1>1. EchoTypeOK'
  <2>1. 0 \in 0..Window
    BY EchoAssumption
  <2>2. link' \in [Ends -> 0..Window]
    BY <2>1 DEF Break
  <2> QED BY <2>2 DEF Break, EchoInv, EchoTypeOK
<1>2. Total' \in Nat /\ Total \in Nat /\ Total' <= Total
  BY TotalType, EchoAssumption DEF Break, EchoInv, EchoTypeOK, Total, Ends, Senders
<1> QED BY <1>1, <1>2, LossStep DEF Break

(* The server keeps what it received, or drops it once the client is done. *)
LEMMA ServerStep ==
  ASSUME EchoInv, NEW k \in 1..MaxRecv, ServerReceives(k)
  PROVE  EchoInv'
<1>1. EchoTypeOK'
  BY EchoAssumption DEF ServerReceives, Receive, Echo, EchoInv, EchoTypeOK, Ends, Senders
<1>2. /\ Total \in Nat /\ counter \in Nat /\ k \in Nat /\ k > 0
      /\ Total' = IF counter > Limit THEN Total - k ELSE Total
  BY TotalType, EchoAssumption
     DEF ServerReceives, Receive, Echo, EchoInv, EchoTypeOK, Total, Ends, Senders
<1>3. session # "begin"
  BY TotalType, EchoAssumption DEF ServerReceives, Receive, EchoInv, Quiet, Total, Ends, Senders
<1> QED BY <1>1, <1>2, <1>3, EchoAssumption
        DEF ServerReceives, Receive, EchoInv, Quiet, Conserved, CounterBound

(* The client counts, and keeps what it received up to the limit. *)
LEMMA ClientStep ==
  ASSUME EchoInv, NEW k \in 1..MaxRecv, ClientReceives(k)
  PROVE  EchoInv'
<1>1. /\ Total \in Nat /\ counter \in Nat /\ k \in Nat /\ k > 0 /\ counter' = counter + 1
      /\ Total' = IF counter' > Limit THEN Total - k ELSE Total
  BY TotalType, EchoAssumption
     DEF ClientReceives, Receive, Echo, EchoInv, EchoTypeOK, Total, Ends, Senders
<1>2. session # "begin"
  BY TotalType, EchoAssumption DEF ClientReceives, Receive, EchoInv, Quiet, Total, Ends, Senders
<1>3. Total' \in Nat
  BY TotalType, EchoAssumption
     DEF ClientReceives, Receive, Echo, EchoInv, EchoTypeOK, Total, Ends, Senders
<1>4. Conserved' /\ CounterBound'
  BY <1>1, <1>2, EchoAssumption
     DEF ClientReceives, Receive, EchoInv, Conserved, CounterBound
<1>5. counter' \in 0..(Limit + Message)
  BY <1>1, <1>3, <1>4, EchoAssumption DEF CounterBound
<1>6. EchoTypeOK'
  <2>1. link' \in [Ends -> 0..Window]
    BY EchoAssumption DEF ClientReceives, Receive, EchoInv, EchoTypeOK, Ends
  <2>2. sending' \in [Senders -> 0..Message] /\ \A e \in Ends : sending'[e] <= MaxRecv
    BY EchoAssumption DEF ClientReceives, Echo, EchoInv, EchoTypeOK, Ends, Senders
  <2> QED BY <1>5, <2>1, <2>2 DEF ClientReceives, Receive, EchoInv, EchoTypeOK
<1> QED BY <1>2, <1>4, <1>6 DEF ClientReceives, Receive, EchoInv, Quiet

(* Every step of the echo keeps the invariant. *)
LEMMA EchoNextStep == EchoInv /\ [Next]_vars => EchoInv'
<1> SUFFICES ASSUME EchoInv, [Next]_vars PROVE EchoInv'
  OBVIOUS
<1>1. CASE UNCHANGED vars
  BY <1>1 DEF vars, EchoInv, EchoTypeOK, Quiet, Conserved, CounterBound, Total
<1>2. CASE EndSend \/ SessionDone
  BY <1>2 DEF EndSend, SessionDone, EchoInv, EchoTypeOK, Quiet, Conserved, CounterBound, Total
<1> QED BY <1>1, <1>2, BeginStep, TransmitStep, FailStep, BreakStep, ServerStep, ClientStep
        DEF Next, SessionStep, SendStep, Receives, ClientReceivesSome

(* The invariant of the echo holds in every reachable state. *)
LEMMA EchoInvHolds == Spec => []EchoInv
  BY EchoInitInv, EchoNextStep, PTL DEF Spec

(* The variables keep to their types: the counter passes the limit by no *)
(* more than the units of the message.                                   *)
THEOREM EchoTypeCorrect == Spec => []EchoTypeOK
<1>1. EchoInv => EchoTypeOK
  BY DEF EchoInv
<1> QED BY <1>1, EchoInvHolds, PTL

(* No byte is lost or made before the client is done or the connection *)
(* breaks.                                                             *)
THEOREM EchoConserves == Spec => []Conserved
<1>1. EchoInv => Conserved
  BY DEF EchoInv
<1> QED BY <1>1, EchoInvHolds, PTL

(* Both directions full, and a unit in the Send of each end, are more than *)
(* the message has.                                                        *)
THEOREM EchoNotStuck == Spec => []NeverStuck
<1>1. EchoInv => NeverStuck
  <2> SUFFICES ASSUME EchoInv, Message <= 2 * Window + 1, open, Total > 0,
                      \A e \in Senders : ~(sending[e] > 0 /\ link[To(e)] < Window),
                      \A e \in Ends : ~(sending[e] = 0 /\ link[e] > 0)
               PROVE  FALSE
    BY DEF NeverStuck
  <2>1. /\ link["server"] \in 0..Window /\ link["client"] \in 0..Window
        /\ sending["server"] \in Nat /\ sending["client"] \in Nat
        /\ sending["session"] \in Nat
    BY TotalType DEF EchoInv, Senders
  <2>2. /\ sending["server"] = 0 \/ link["client"] >= Window
        /\ sending["client"] = 0 \/ link["server"] >= Window
        /\ sending["session"] = 0 \/ link["server"] >= Window
        /\ sending["server"] # 0 \/ link["server"] = 0
        /\ sending["client"] # 0 \/ link["client"] = 0
    BY <2>1, EchoAssumption DEF To, Ends, Senders
  <2>3. Total <= Message
    BY DEF EchoInv, Conserved
  <2> QED BY <2>1, <2>2, <2>3, EchoAssumption DEF Total
<1> QED BY <1>1, EchoInvHolds, PTL

=============================================================================
