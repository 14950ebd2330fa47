---------------------------- MODULE ClientPhases ----------------------------
(***************************************************************************)
(* What the rest of the app relies on about iperf_run_client: how far the  *)
(* control connection has got, and test->done.  ClientEngine implements it *)
(* with streams, workers and timers, RunLifecycle uses it for each run.    *)
(***************************************************************************)
VARIABLES
    phase,  \* "start" -> "setup" -> "armed" -> "running" -> "ending" -> "done"
    due     \* test->done: the timer has fired or the user asked to stop

pvars == <<phase, due>>

PInit == phase = "start" /\ due = FALSE

Mark == ~due /\ due' = TRUE /\ UNCHANGED phase

(* TEST_START forgets an earlier request, unless its handler is cut short *)
Arm == phase = "setup" /\ phase' = "armed" /\ due' \in {FALSE, due}

Succ == [start |-> "setup", armed |-> "running", ending |-> "done"]

Advance == phase \in DOMAIN Succ /\ phase' = Succ[phase] /\ UNCHANGED due

(* TEST_END is for a test that is due, and only after TEST_RUNNING *)
Finish == phase = "running" /\ due /\ phase' = "ending" /\ UNCHANGED due

PNext == Mark \/ Arm \/ Advance \/ Finish

PStep == [PNext]_pvars

PSpec == PInit /\ [][PNext]_pvars
=============================================================================
