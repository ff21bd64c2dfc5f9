---------------------------- MODULE TimedSession ----------------------------
(***************************************************************************)
(* ClientSession (src/main.cpp) with the watch that times it: begin before  *)
(* the Send, stop after the wait for g_hDone.  Once stopped the watch can   *)
(* be read in any of its ways; main.cpp itself prints elapsedmilliseconds.  *)
(***************************************************************************)
EXTENDS EchoSession, Stopwatch

timedVars == <<vars, watchVars>>

TimedInit == Init /\ WatchInit

(* sw.begin(), then client->Connection().Send *)
BeginTimed == BeginSend /\ Begin

(* WaitForSingleObject returns, then sw.stop() *)
SessionTimed == SessionDone /\ Stop

(* Every other step of the echo, with the watch left alone.                  *)
Untimed ==
  \/ EndSend
  \/ Receives
  \/ ClientReceivesSome
  \/ \E e \in Senders : SendStep(e)
  \/ Break

Read == session = "done" /\ (Readable \/ Readable2)

TimedNext ==
  \/ BeginTimed
  \/ SessionTimed
  \/ Untimed /\ UNCHANGED watchVars
  \/ Read /\ UNCHANGED vars

TimedSpec == TimedInit /\ [][TimedNext]_timedVars /\ Fairness

=============================================================================
