-------------------------- MODULE ConnectionEvents --------------------------
(***************************************************************************)
(* What the library promises to the application's callbacks, with no worker *)
(* threads and no completion port: every connection is set up at most once, *)
(* its onDataReceived calls come one at a time and only while it is open,    *)
(* and onDisconnected is its last call.                                     *)
(***************************************************************************)
CONSTANT Conns

VARIABLES
  stage,      \* how far each connection has come
  receiving   \* connections whose onDataReceived is running

eventVars == <<stage, receiving>>

Stages == {"away", "open", "closed"}

EventsTypeOK ==
  /\ stage \in [Conns -> Stages]
  /\ receiving \in SUBSET Conns

EventsInit ==
  /\ stage = [k \in Conns |-> "away"]
  /\ receiving = {}

(* The connection is set up; data that came with it is handed over at once. *)
Connect(k) ==
  /\ stage[k] = "away"
  /\ stage' = [stage EXCEPT ![k] = "open"]
  /\ receiving' \in {receiving, receiving \cup {k}}

BeginData(k) ==
  /\ stage[k] = "open"
  /\ k \notin receiving
  /\ receiving' = receiving \cup {k}
  /\ UNCHANGED stage

EndData(k) ==
  /\ k \in receiving
  /\ receiving' = receiving \ {k}
  /\ UNCHANGED stage

Disconnected(k) ==
  /\ stage[k] = "open"
  /\ k \notin receiving
  /\ stage' = [stage EXCEPT ![k] = "closed"]
  /\ UNCHANGED receiving

EventsNext ==
  \E k \in Conns : Connect(k) \/ BeginData(k) \/ EndData(k) \/ Disconnected(k)

EventsSpec == EventsInit /\ [][EventsNext]_eventVars

=============================================================================
