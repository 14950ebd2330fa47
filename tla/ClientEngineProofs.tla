------------------------- MODULE ClientEngineProofs -------------------------
(***************************************************************************)
(* Theorems about ClientEngine, for any number of streams, with and without *)
(* --reverse, --omit and Stop: one inductive invariant, IInv, from which    *)
(* the safety properties and the refinement of ClientPhases follow.        *)
(***************************************************************************)
EXTENDS ClientEngine, TLAPS

-----------------------------------------------------------------------------
(* The inductive invariant *)

(* The control connection has carried the peers past TEST_START. *)
Late == {"TEST_RUNNING", "EXCHANGE_RESULTS", "DISPLAY_RESULTS"}

(* The loop has been left for good. *)
Leaving == {"receivers", "fail", "abort", "returned", "freed"}

Over == {"returned", "freed"}

(* A state the server announces is the last one it announced. *)
Sync ==
    /\ state \in Heard => heard = state
    /\ state = "TEST_RUNNING" => ~ended

(* TEST_RUNNING, the worker threads and TEST_END come in this order, and    *)
(* the part of the loop that spawns and ends belongs to TEST_RUNNING.       *)
Order ==
    /\ ended => heard \in Late /\ ~startup
    /\ heard \in Late \ {"TEST_RUNNING"} => ended
    /\ ~startup => heard \in Late
    /\ pc \in {"spawn", "timers", "check", "senders", "end"}
         => heard = "TEST_RUNNING" /\ ~ended
    /\ pc = "spawn" => startup
    /\ pc \in {"timers", "check", "senders", "end"} => ~startup

(* What a Stop and the end of a test leave behind. *)
Stopping ==
    /\ stopPc # "idle" => marked
    /\ marked => MayStop
    /\ pc \notin Over /\ state = "IPERF_DONE" => marked \/ ended
    /\ pc = "receivers" => marked \/ ended
    /\ pc \in {"senders", "end"} => done

(* thread_created and sp->done follow the workers, and each sweep has       *)
(* stopped the workers it has passed.                                       *)
Workers ==
    /\ startup => \A s \in Stream : worker[s] = "none" /\ ~thread[s]
    /\ \A s \in Stream : Live(s) => thread[s] /\ s <= listed /\ ~spDone[s]
    /\ \A s \in Stream : spDone[s] => ~startup \/ pc \in Leaving
    /\ pc \notin {"senders", "receivers", "fail"} => at = 1
    /\ \/ pc = "senders" /\ ~reverse
       \/ pc = "receivers" /\ reverse
       \/ pc = "fail"
       => \A s \in Stream : s < at => ~Live(s)
    /\ pc = "abort" => \A s \in Stream : ~Live(s)
    /\ (ended \/ pc = "end") /\ ~reverse => \A s \in Stream : ~Live(s)
    /\ pc \in Over => \A s \in Stream : Live(s) => marked /\ ~reverse

(* The control socket, and the timers that TEST_START makes. *)
Arming ==
    /\ ctrl = "none" => heard = "NEW" /\ ~ended
    /\ ctrl = "none" => pc \in {"connect"} \cup (Leaving \ {"receivers"})
    /\ pc = "connect" => ctrl = "none"
    /\ armed => heard \in {"TEST_START"} \cup Late
    /\ heard \in Late => armed
    /\ heard = "TEST_START" /\ ~armed
         => \/ pc = "handle" /\ state \in {"TEST_START", "IPERF_DONE"}
            \/ pc \in {"pass", "loop"} /\ state = "IPERF_DONE"
            \/ pc \in Leaving
    /\ pc = "handle" /\ state = "TEST_START" => ~armed

(* The omit timer is pending exactly while the statistics are to be reset. *)
Omission ==
    /\ (pc \in Leaving => ended)
         => resets + (IF omitting THEN 1 ELSE 0) = (IF omit /\ armed THEN 1 ELSE 0)
    /\ omitTimer => omitting
    /\ pc \in {"senders", "end"} \/ ended => ~omitting

(* Once the summary is out, no state is reached that prints it again. *)
Summing ==
    /\ summaries <= 1
    /\ summaries = 1 =>
         \/ pc \in {"pass", "loop", "receivers"} /\ state = "IPERF_DONE"
         \/ pc \in {"fail", "abort"} /\ state \in {"SERVER_TERMINATE", "IPERF_DONE"}
         \/ pc \in Over
    /\ pc \notin Over /\ state = "IPERF_DONE" => marked \/ summaries = 1
    /\ pc = "receivers" => marked \/ summaries = 1
    /\ pc = "returned" /\ result = "ok" => marked \/ summaries = 1

(* Once the loop is to be left without a Stop, iperf_client_end has run. *)
Closing ==
    state = "IPERF_DONE" \/ pc \in Over \cup {"receivers"}
        => marked \/ \A s \in Stream : s <= listed => sock[s] = "closed"

IInv == TypeOK /\ Sync /\ Order /\ Stopping /\ Workers /\ Arming /\ Omission
           /\ Summing /\ Closing
-----------------------------------------------------------------------------
(* IInv is inductive *)

(* The steps that only move the IO thread *)
Moves ==
    \/ DialFails \/ SetUp \/ LoopTest \/ ConnectionLost \/ SelectReturns
    \/ HandleExchange \/ HandleNothing \/ PassTest \/ CheckDone

(* The values the actions store *)
LEMMA Values ==
    /\ "setup" \in Pc /\ "loop" \in Pc /\ "select" \in Pc /\ "handle" \in Pc
    /\ "pass" \in Pc /\ "spawn" \in Pc /\ "timers" \in Pc /\ "check" \in Pc
    /\ "senders" \in Pc /\ "end" \in Pc /\ "receivers" \in Pc
    /\ "fail" \in Pc /\ "abort" \in Pc /\ "returned" \in Pc /\ "freed" \in Pc
    /\ "connect" \in Pc
    /\ "NEW" \in State /\ "TEST_END" \in State /\ "IPERF_DONE" \in State
    /\ "SERVER_TERMINATE" \in State /\ "ERROR" \in State
    /\ "none" \in Worker /\ "test" \in Worker /\ "io" \in Worker
    /\ "exited" \in Worker
    /\ "none" \in Socket /\ "open" \in Socket /\ "closed" \in Socket
    /\ \A h \in DOMAIN Announced : Announced[h] \in Heard
    /\ "NEW" \in Heard /\ 0 \in 0..Parallel /\ 1 \in 1..Parallel + 1
BY ParallelAssumption DEF Pc, State, Heard, Worker, Socket, Announced

(* Every variable keeps its type. *)
LEMMA TypeOKStep == ASSUME IInv, [Next]_vars PROVE TypeOK'
<1> USE ParallelAssumption, OptionsAssumption, Values DEF IInv, TypeOK,
      Go, optVars, threadVars, testVars, timerVars, streamVars, serverVars,
      stopVars, countVars
<1>1. CASE Moves
  BY <1>1 DEF Moves, DialFails, SetUp, LoopTest, ConnectionLost, SelectReturns,
           HandleExchange, HandleNothing, PassTest, CheckDone
<1>2. CASE Dial
  BY <1>2 DEF Dial
<1>3. ASSUME NEW m \in State, ReadMessage(m)
      PROVE  TypeOK'
  BY <1>3 DEF ReadMessage
<1>4. ASSUME NEW n \in 0..Parallel, CreateStreams(n)
      PROVE  TypeOK'
  BY <1>4 DEF CreateStreams
<1>5. ASSUME NEW n \in 0..Parallel, Spawn(n)
      PROVE  TypeOK'
  <2>1. thread' \in [Stream -> BOOLEAN]
    BY <1>5 DEF Spawn
  <2>2. worker' \in [Stream -> Worker]
    BY <1>5 DEF Spawn
  <2>3. startup' \in BOOLEAN
    BY <1>5, Zenon DEF Spawn
  <2>4. /\ pc' \in Pc
        /\ UNCHANGED <<optVars, at, result, state, done, omitting, listed, ctrl,
                       timerVars, spDone, sock, serverVars, stopVars, countVars,
                       hangup>>
    BY <1>5 DEF Spawn
  <2> QED
    BY <2>1, <2>2, <2>3, <2>4
<1>6. CASE TestStart
  BY <1>6 DEF TestStart
<1>7. CASE DisplayResults
  <2>1. sock' \in [Stream -> Socket]
    BY <1>7 DEF DisplayResults, ClientEnd, Report
  <2>2. state' \in State /\ ctrl' \in Socket
    BY <1>7 DEF DisplayResults, ClientEnd, Report
  <2>3. summaries' \in Nat
    BY <1>7 DEF DisplayResults, ClientEnd, Report
  <2>4. hangup' \in BOOLEAN
    BY <1>7, Zenon DEF DisplayResults, ClientEnd
  <2>5. /\ pc' \in Pc
        /\ UNCHANGED <<optVars, at, result, done, omitting, startup, listed,
                       timerVars, spDone, thread, worker, serverVars, stopVars,
                       resets>>
    BY <1>7 DEF DisplayResults
  <2> QED
    BY <2>1, <2>2, <2>3, <2>4, <2>5
<1>8. CASE ServerGivesUp
  BY <1>8 DEF ServerGivesUp, Report
<1>9. ASSUME NEW testDue \in BOOLEAN, NEW omitDue \in BOOLEAN,
             RunTimers(testDue, omitDue)
      PROVE  TypeOK'
  BY <1>9 DEF RunTimers
<1>10. CASE Sweep
  <2>1. at \in Stream
    BY <1>10 DEF Sweep, Stream
  <2>2. spDone' \in [Stream -> BOOLEAN] /\ thread' \in [Stream -> BOOLEAN]
    BY <1>10, <2>1 DEF Sweep, Sweeps
  <2>3. worker' \in [Stream -> Worker]
    BY <1>10, <2>1 DEF Sweep, Sweeps
  <2>4. at' \in 1..Parallel + 1
    BY <1>10 DEF Sweep
  <2>5. UNCHANGED <<optVars, pc, result, testVars, timerVars, sock, serverVars,
                    stopVars, countVars, hangup>>
    BY <1>10 DEF Sweep
  <2> QED
    BY <2>2, <2>3, <2>4, <2>5
<1>11. CASE Swept
  BY <1>11 DEF Swept
<1>12. CASE SendEnd
  BY <1>12 DEF SendEnd
<1>13. CASE Abort
  <2>1. sock' \in [Stream -> Socket]
    BY <1>13 DEF Abort, ClientEnd, Report
  <2>2. state' \in State /\ ctrl' \in Socket
    BY <1>13 DEF Abort, ClientEnd, Report
  <2>3. summaries' \in Nat
    BY <1>13 DEF Abort, ClientEnd, Report
  <2>4. hangup' \in BOOLEAN
    BY <1>13, Zenon DEF Abort, ClientEnd
  <2>5. /\ pc' \in Pc /\ result' = "error"
        /\ UNCHANGED <<optVars, at, done, omitting, startup, listed, timerVars,
                       spDone, thread, worker, serverVars, stopVars, resets>>
    BY <1>13 DEF Abort
  <2> QED
    BY <2>1, <2>2, <2>3, <2>4, <2>5
<1>14. CASE Free
  <2>1. timer' \in BOOLEAN /\ omitTimer' \in BOOLEAN
    BY <1>14, Zenon DEF Free
  <2> QED
    BY <1>14, <2>1 DEF Free
<1>15. ASSUME NEW s \in Stream, WorkerNext(s)
      PROVE  TypeOK'
  BY <1>15 DEF WorkerNext, WorkerTest, WorkerIo
<1>16. CASE StopNext
  <2>1. CASE MarkDone
    BY <2>1 DEF MarkDone
  <2>2. CASE SendDone
    <3>1. hangup' \in BOOLEAN
      BY <2>2, Zenon DEF SendDone
    <3> QED
      BY <2>2, <3>1 DEF SendDone
  <2> QED
    BY <1>16, <2>1, <2>2 DEF StopNext
<1>17. CASE TestStartFails
  <2>1. /\ done' \in BOOLEAN /\ armed' \in BOOLEAN /\ timer' \in BOOLEAN
        /\ omitTimer' \in BOOLEAN
    BY <1>17, Zenon DEF TestStartFails
  <2>2. omitting' \in BOOLEAN
    BY <1>17, <2>1, Zenon DEF TestStartFails
  <2>3. /\ pc' \in Pc
        /\ UNCHANGED <<optVars, at, result, state, startup, listed, ctrl,
                       streamVars, serverVars, stopVars, countVars, hangup>>
    BY <1>17 DEF TestStartFails
  <2> QED
    BY <2>1, <2>2, <2>3
<1>18. CASE UNCHANGED vars
  BY <1>18 DEF vars
<1> QED
  BY <1>1, <1>2, <1>3, <1>4, <1>5, <1>6, <1>7, <1>8, <1>9, <1>10, <1>11, <1>12,
     <1>13, <1>14, <1>15, <1>16, <1>17, <1>18
  DEF Next, LoopNext, Moves, AtRest

USE DEF Stream, Heard, State, Pc, Worker, Socket, Announced, Late, Leaving, Over

(* A message of the server sets state and heard together. *)
LEMMA SyncStep == ASSUME IInv, [Next]_vars PROVE Sync'
<1> USE ParallelAssumption, OptionsAssumption
    DEF IInv, TypeOK, Sync, Order,
      Go, optVars, threadVars, testVars, timerVars, streamVars, serverVars,
      stopVars, countVars
<1>1. CASE Moves
  BY <1>1 DEF Moves, DialFails, SetUp, LoopTest, ConnectionLost, SelectReturns,
           HandleExchange, HandleNothing, PassTest, CheckDone
<1>2. CASE Dial
  BY <1>2 DEF Dial
<1>3. ASSUME NEW m \in State, ReadMessage(m)
      PROVE  Sync'
  BY <1>3 DEF ReadMessage
<1>4. ASSUME NEW n \in 0..Parallel, CreateStreams(n)
      PROVE  Sync'
  BY <1>4 DEF CreateStreams
<1>5. ASSUME NEW n \in 0..Parallel, Spawn(n)
      PROVE  Sync'
  BY <1>5 DEF Spawn
<1>6. CASE TestStart
  BY <1>6 DEF TestStart
<1>7. CASE DisplayResults
  BY <1>7 DEF DisplayResults, ClientEnd, Report
<1>8. CASE ServerGivesUp
  BY <1>8 DEF ServerGivesUp, Report
<1>9. ASSUME NEW testDue \in BOOLEAN, NEW omitDue \in BOOLEAN,
             RunTimers(testDue, omitDue)
      PROVE  Sync'
  BY <1>9 DEF RunTimers
<1>10. CASE Sweep
  BY <1>10 DEF Sweep, Sweeps
<1>11. CASE Swept
  BY <1>11 DEF Swept
<1>12. CASE SendEnd
  BY <1>12 DEF SendEnd
<1>13. CASE Abort
  BY <1>13 DEF Abort, ClientEnd, Report
<1>14. CASE Free
  BY <1>14 DEF Free
<1>15. ASSUME NEW s \in Stream, WorkerNext(s)
      PROVE  Sync'
  BY <1>15 DEF WorkerNext, WorkerTest, WorkerIo
<1>16. CASE StopNext
  BY <1>16 DEF StopNext, MarkDone, SendDone
<1>17. CASE TestStartFails
  BY <1>17 DEF TestStartFails
<1>18. CASE UNCHANGED vars
  BY <1>18 DEF vars
<1> QED
  BY <1>1, <1>2, <1>3, <1>4, <1>5, <1>6, <1>7, <1>8, <1>9, <1>10, <1>11, <1>12,
     <1>13, <1>14, <1>15, <1>16, <1>17, <1>18
  DEF Next, LoopNext, Moves, AtRest

(* Nothing before TEST_RUNNING spawns or ends, nothing after TEST_END runs. *)
LEMMA OrderStep == ASSUME IInv, [Next]_vars PROVE Order'
<1> USE ParallelAssumption, OptionsAssumption
    DEF IInv, TypeOK, Sync, Order,
      Go, optVars, threadVars, testVars, timerVars, streamVars, serverVars,
      stopVars, countVars
<1>1. CASE Moves
  BY <1>1 DEF Moves, DialFails, SetUp, LoopTest, ConnectionLost, SelectReturns,
           HandleExchange, HandleNothing, PassTest, CheckDone
<1>2. CASE Dial
  BY <1>2 DEF Dial
<1>3. ASSUME NEW m \in State, ReadMessage(m)
      PROVE  Order'
  BY <1>3 DEF ReadMessage
<1>4. ASSUME NEW n \in 0..Parallel, CreateStreams(n)
      PROVE  Order'
  BY <1>4 DEF CreateStreams
<1>5. ASSUME NEW n \in 0..Parallel, Spawn(n)
      PROVE  Order'
  BY <1>5 DEF Spawn
<1>6. CASE TestStart
  BY <1>6 DEF TestStart
<1>7. CASE DisplayResults
  BY <1>7 DEF DisplayResults, ClientEnd, Report
<1>8. CASE ServerGivesUp
  BY <1>8 DEF ServerGivesUp, Report
<1>9. ASSUME NEW testDue \in BOOLEAN, NEW omitDue \in BOOLEAN,
             RunTimers(testDue, omitDue)
      PROVE  Order'
  BY <1>9 DEF RunTimers
<1>10. CASE Sweep
  BY <1>10 DEF Sweep, Sweeps
<1>11. CASE Swept
  BY <1>11 DEF Swept
<1>12. CASE SendEnd
  BY <1>12 DEF SendEnd
<1>13. CASE Abort
  BY <1>13 DEF Abort, ClientEnd, Report
<1>14. CASE Free
  BY <1>14 DEF Free
<1>15. ASSUME NEW s \in Stream, WorkerNext(s)
      PROVE  Order'
  BY <1>15 DEF WorkerNext, WorkerTest, WorkerIo
<1>16. CASE StopNext
  BY <1>16 DEF StopNext, MarkDone, SendDone
<1>17. CASE TestStartFails
  BY <1>17 DEF TestStartFails
<1>18. CASE UNCHANGED vars
  BY <1>18 DEF vars
<1> QED
  BY <1>1, <1>2, <1>3, <1>4, <1>5, <1>6, <1>7, <1>8, <1>9, <1>10, <1>11, <1>12,
     <1>13, <1>14, <1>15, <1>16, <1>17, <1>18
  DEF Next, LoopNext, Moves, AtRest

(* The loop is left by a Stop or by the end of the test. *)
LEMMA StoppingStep == ASSUME IInv, [Next]_vars PROVE Stopping'
<1> USE ParallelAssumption, OptionsAssumption
    DEF IInv, TypeOK, Sync, Order, Stopping,
      Go, optVars, threadVars, testVars, timerVars, streamVars, serverVars,
      stopVars, countVars
<1>1. CASE Moves
  BY <1>1 DEF Moves, DialFails, SetUp, LoopTest, ConnectionLost, SelectReturns,
           HandleExchange, HandleNothing, PassTest, CheckDone
<1>2. CASE Dial
  BY <1>2 DEF Dial
<1>3. ASSUME NEW m \in State, ReadMessage(m)
      PROVE  Stopping'
  BY <1>3 DEF ReadMessage
<1>4. ASSUME NEW n \in 0..Parallel, CreateStreams(n)
      PROVE  Stopping'
  BY <1>4 DEF CreateStreams
<1>5. ASSUME NEW n \in 0..Parallel, Spawn(n)
      PROVE  Stopping'
  BY <1>5 DEF Spawn
<1>6. CASE TestStart
  BY <1>6 DEF TestStart
<1>7. CASE DisplayResults
  BY <1>7 DEF DisplayResults, ClientEnd, Report
<1>8. CASE ServerGivesUp
  BY <1>8 DEF ServerGivesUp, Report
<1>9. ASSUME NEW testDue \in BOOLEAN, NEW omitDue \in BOOLEAN,
             RunTimers(testDue, omitDue)
      PROVE  Stopping'
  BY <1>9 DEF RunTimers
<1>10. CASE Sweep
  BY <1>10 DEF Sweep, Sweeps
<1>11. CASE Swept
  BY <1>11 DEF Swept
<1>12. CASE SendEnd
  BY <1>12 DEF SendEnd
<1>13. CASE Abort
  BY <1>13 DEF Abort, ClientEnd, Report
<1>14. CASE Free
  BY <1>14 DEF Free
<1>15. ASSUME NEW s \in Stream, WorkerNext(s)
      PROVE  Stopping'
  BY <1>15 DEF WorkerNext, WorkerTest, WorkerIo
<1>16. CASE StopNext
  BY <1>16 DEF StopNext, MarkDone, SendDone
<1>17. CASE TestStartFails
  BY <1>17 DEF TestStartFails
<1>18. CASE UNCHANGED vars
  BY <1>18 DEF vars
<1> QED
  BY <1>1, <1>2, <1>3, <1>4, <1>5, <1>6, <1>7, <1>8, <1>9, <1>10, <1>11, <1>12,
     <1>13, <1>14, <1>15, <1>16, <1>17, <1>18
  DEF Next, LoopNext, Moves, AtRest

(* Sweeps join what Spawn created. *)
LEMMA WorkersStep == ASSUME IInv, [Next]_vars PROVE Workers'
<1> USE ParallelAssumption, OptionsAssumption
    DEF IInv, TypeOK, Sync, Order, Stopping, Workers, Live,
      Go, optVars, threadVars, testVars, timerVars, streamVars, serverVars,
      stopVars, countVars
<1>1. CASE Moves
  BY <1>1 DEF Moves, DialFails, SetUp, LoopTest, ConnectionLost, SelectReturns,
           HandleExchange, HandleNothing, PassTest, CheckDone
<1>2. CASE Dial
  BY <1>2 DEF Dial
<1>3. ASSUME NEW m \in State, ReadMessage(m)
      PROVE  Workers'
  BY <1>3 DEF ReadMessage
<1>4. ASSUME NEW n \in 0..Parallel, CreateStreams(n)
      PROVE  Workers'
  BY <1>4 DEF CreateStreams
<1>5. ASSUME NEW n \in 0..Parallel, Spawn(n)
      PROVE  Workers'
  <2>1. /\ startup /\ heard = "TEST_RUNNING" /\ ~ended
        /\ \A s \in Stream : worker[s] = "none" /\ ~spDone[s]
    BY <1>5 DEF Spawn
  <2>2. ASSUME NEW s \in Stream, Live(s)'
        PROVE  thread'[s] /\ s <= listed'
    <3>1. s <= n /\ n <= listed /\ listed' = listed
      BY <1>5, <2>2 DEF Spawn
    <3>2. thread'[s]
      BY <1>5, <3>1 DEF Spawn
    <3> QED
      BY <1>5, <3>1, <3>2
  <2>3. /\ pc' \in {"timers", "fail"} /\ at' = 1 /\ ~startup' /\ ~ended'
        /\ \A s \in Stream : ~spDone'[s]
    BY <1>5, <2>1 DEF Spawn
  <2> QED
    BY <2>2, <2>3
<1>6. CASE TestStart
  BY <1>6 DEF TestStart
<1>7. CASE DisplayResults
  BY <1>7 DEF DisplayResults, ClientEnd, Report
<1>8. CASE ServerGivesUp
  BY <1>8 DEF ServerGivesUp, Report
<1>9. ASSUME NEW testDue \in BOOLEAN, NEW omitDue \in BOOLEAN,
             RunTimers(testDue, omitDue)
      PROVE  Workers'
  BY <1>9 DEF RunTimers
<1>10. CASE Sweep
  <2>1. at \in Stream /\ at' = at + 1
    BY <1>10 DEF Sweep
  <2>2. \A s \in Stream : Live(s)' => Live(s) /\ (s = at => ~Sweeps(at))
    BY <1>10, <2>1 DEF Sweep
  <2>3. \A s \in Stream : s # at =>
          thread'[s] = thread[s] /\ spDone'[s] = spDone[s]
    BY <1>10, <2>1 DEF Sweep
  <2>4. ~Sweeps(at) => thread' = thread /\ spDone' = spDone
    BY <1>10 DEF Sweep
  <2>5. /\ pc \in {"senders", "receivers", "fail"}
        /\ UNCHANGED <<pc, reverse, startup, listed, ended, marked>>
    BY <1>10 DEF Sweep
  <2>6. Workers!1'
    BY <1>10, <2>1, <2>5 DEF Sweep
  <2>7. Workers!2'
    BY <2>2, <2>3, <2>4, <2>5
  <2>8. Workers!3'
    BY <2>1, <2>3, <2>4, <2>5
  <2>9. Workers!5'
    BY <2>1, <2>2, <2>5 DEF Sweeps
  <2> QED
    BY <2>2, <2>5, <2>6, <2>7, <2>8, <2>9
<1>11. CASE Swept
  BY <1>11 DEF Swept
<1>12. CASE SendEnd
  BY <1>12 DEF SendEnd
<1>13. CASE Abort
  BY <1>13 DEF Abort, ClientEnd, Report
<1>14. CASE Free
  BY <1>14 DEF Free
<1>15. ASSUME NEW s \in Stream, WorkerNext(s)
      PROVE  Workers'
  <2>1. \A t \in Stream : Live(t)' => Live(t)
    BY <1>15 DEF WorkerNext, WorkerTest, WorkerIo
  <2>2. Live(s) /\ UNCHANGED <<pc, at, reverse, startup, listed, ended, marked,
                              thread, spDone>>
    BY <1>15 DEF WorkerNext, WorkerTest, WorkerIo
  <2>3. ~startup
    BY <2>2
  <2> QED
    BY <2>1, <2>2, <2>3
<1>16. CASE StopNext
  BY <1>16 DEF StopNext, MarkDone, SendDone
<1>17. CASE TestStartFails
  BY <1>17 DEF TestStartFails
<1>18. CASE UNCHANGED vars
  BY <1>18 DEF vars
<1> QED
  BY <1>1, <1>2, <1>3, <1>4, <1>5, <1>6, <1>7, <1>8, <1>9, <1>10, <1>11, <1>12,
     <1>13, <1>14, <1>15, <1>16, <1>17, <1>18
  DEF Next, LoopNext, Moves, AtRest

(* The server cannot announce TEST_RUNNING before the timers are made. *)
LEMMA ArmingStep == ASSUME IInv, [Next]_vars PROVE Arming'
<1> USE ParallelAssumption, OptionsAssumption
    DEF IInv, TypeOK, Sync, Order, Arming,
      Go, optVars, threadVars, testVars, timerVars, streamVars, serverVars,
      stopVars, countVars
<1>1. CASE Moves
  BY <1>1 DEF Moves, DialFails, SetUp, LoopTest, ConnectionLost, SelectReturns,
           HandleExchange, HandleNothing, PassTest, CheckDone
<1>2. CASE Dial
  BY <1>2 DEF Dial
<1>3. ASSUME NEW m \in State, ReadMessage(m)
      PROVE  Arming'
  BY <1>3 DEF ReadMessage
<1>4. ASSUME NEW n \in 0..Parallel, CreateStreams(n)
      PROVE  Arming'
  BY <1>4 DEF CreateStreams
<1>5. ASSUME NEW n \in 0..Parallel, Spawn(n)
      PROVE  Arming'
  BY <1>5 DEF Spawn
<1>6. CASE TestStart
  BY <1>6 DEF TestStart
<1>7. CASE DisplayResults
  BY <1>7 DEF DisplayResults, ClientEnd, Report
<1>8. CASE ServerGivesUp
  BY <1>8 DEF ServerGivesUp, Report
<1>9. ASSUME NEW testDue \in BOOLEAN, NEW omitDue \in BOOLEAN,
             RunTimers(testDue, omitDue)
      PROVE  Arming'
  BY <1>9 DEF RunTimers
<1>10. CASE Sweep
  BY <1>10 DEF Sweep, Sweeps
<1>11. CASE Swept
  BY <1>11 DEF Swept
<1>12. CASE SendEnd
  BY <1>12 DEF SendEnd
<1>13. CASE Abort
  BY <1>13 DEF Abort, ClientEnd, Report
<1>14. CASE Free
  BY <1>14 DEF Free
<1>15. ASSUME NEW s \in Stream, WorkerNext(s)
      PROVE  Arming'
  BY <1>15 DEF WorkerNext, WorkerTest, WorkerIo
<1>16. CASE StopNext
  BY <1>16 DEF StopNext, MarkDone, SendDone
<1>17. CASE TestStartFails
  BY <1>17 DEF TestStartFails
<1>18. CASE UNCHANGED vars
  BY <1>18 DEF vars
<1> QED
  BY <1>1, <1>2, <1>3, <1>4, <1>5, <1>6, <1>7, <1>8, <1>9, <1>10, <1>11, <1>12,
     <1>13, <1>14, <1>15, <1>16, <1>17, <1>18
  DEF Next, LoopNext, Moves, AtRest

(* The omit timer fires once, before the test may end. *)
LEMMA OmissionStep == ASSUME IInv, [Next]_vars PROVE Omission'
<1> USE ParallelAssumption, OptionsAssumption
    DEF IInv, TypeOK, Sync, Order, Arming, Omission,
      Go, optVars, threadVars, testVars, timerVars, streamVars, serverVars,
      stopVars, countVars
<1>1. CASE Moves
  BY <1>1 DEF Moves, DialFails, SetUp, LoopTest, ConnectionLost, SelectReturns,
           HandleExchange, HandleNothing, PassTest, CheckDone
<1>2. CASE Dial
  BY <1>2 DEF Dial
<1>3. ASSUME NEW m \in State, ReadMessage(m)
      PROVE  Omission'
  BY <1>3 DEF ReadMessage
<1>4. ASSUME NEW n \in 0..Parallel, CreateStreams(n)
      PROVE  Omission'
  BY <1>4 DEF CreateStreams
<1>5. ASSUME NEW n \in 0..Parallel, Spawn(n)
      PROVE  Omission'
  BY <1>5 DEF Spawn
<1>6. CASE TestStart
  BY <1>6 DEF TestStart
<1>7. CASE DisplayResults
  BY <1>7 DEF DisplayResults, ClientEnd, Report
<1>8. CASE ServerGivesUp
  BY <1>8 DEF ServerGivesUp, Report
<1>9. ASSUME NEW testDue \in BOOLEAN, NEW omitDue \in BOOLEAN,
             RunTimers(testDue, omitDue)
      PROVE  Omission'
  BY <1>9 DEF RunTimers
<1>10. CASE Sweep
  BY <1>10 DEF Sweep, Sweeps
<1>11. CASE Swept
  BY <1>11 DEF Swept
<1>12. CASE SendEnd
  BY <1>12 DEF SendEnd
<1>13. CASE Abort
  BY <1>13 DEF Abort, ClientEnd, Report
<1>14. CASE Free
  BY <1>14 DEF Free
<1>15. ASSUME NEW s \in Stream, WorkerNext(s)
      PROVE  Omission'
  BY <1>15 DEF WorkerNext, WorkerTest, WorkerIo
<1>16. CASE StopNext
  BY <1>16 DEF StopNext, MarkDone, SendDone
<1>17. CASE TestStartFails
  <2>1. ~ended' /\ pc' = "fail"
    BY <1>17 DEF TestStartFails
  <2>2. omitTimer' => omitting'
    BY <1>17 DEF TestStartFails
  <2> QED
    BY <2>1, <2>2
<1>18. CASE UNCHANGED vars
  BY <1>18 DEF vars
<1> QED
  BY <1>1, <1>2, <1>3, <1>4, <1>5, <1>6, <1>7, <1>8, <1>9, <1>10, <1>11, <1>12,
     <1>13, <1>14, <1>15, <1>16, <1>17, <1>18
  DEF Next, LoopNext, Moves, AtRest

(* The state in which iperf_client_end reports is left at once. *)
LEMMA SummingStep == ASSUME IInv, [Next]_vars PROVE Summing'
<1> USE ParallelAssumption, OptionsAssumption
    DEF IInv, TypeOK, Sync, Order, Stopping, Arming, Summing,
      Go, optVars, threadVars, testVars, timerVars, streamVars, serverVars,
      stopVars, countVars
<1>1. CASE Moves
  BY <1>1 DEF Moves, DialFails, SetUp, LoopTest, ConnectionLost, SelectReturns,
           HandleExchange, HandleNothing, PassTest, CheckDone
<1>2. CASE Dial
  BY <1>2 DEF Dial
<1>3. ASSUME NEW m \in State, ReadMessage(m)
      PROVE  Summing'
  BY <1>3 DEF ReadMessage
<1>4. ASSUME NEW n \in 0..Parallel, CreateStreams(n)
      PROVE  Summing'
  BY <1>4 DEF CreateStreams
<1>5. ASSUME NEW n \in 0..Parallel, Spawn(n)
      PROVE  Summing'
  BY <1>5 DEF Spawn
<1>6. CASE TestStart
  BY <1>6 DEF TestStart
<1>7. CASE DisplayResults
  BY <1>7 DEF DisplayResults, ClientEnd, Report
<1>8. CASE ServerGivesUp
  BY <1>8 DEF ServerGivesUp, Report
<1>9. ASSUME NEW testDue \in BOOLEAN, NEW omitDue \in BOOLEAN,
             RunTimers(testDue, omitDue)
      PROVE  Summing'
  BY <1>9 DEF RunTimers
<1>10. CASE Sweep
  BY <1>10 DEF Sweep, Sweeps
<1>11. CASE Swept
  BY <1>11 DEF Swept
<1>12. CASE SendEnd
  BY <1>12 DEF SendEnd
<1>13. CASE Abort
  BY <1>13 DEF Abort, ClientEnd, Report
<1>14. CASE Free
  BY <1>14 DEF Free
<1>15. ASSUME NEW s \in Stream, WorkerNext(s)
      PROVE  Summing'
  BY <1>15 DEF WorkerNext, WorkerTest, WorkerIo
<1>16. CASE StopNext
  BY <1>16 DEF StopNext, MarkDone, SendDone
<1>17. CASE TestStartFails
  BY <1>17 DEF TestStartFails
<1>18. CASE UNCHANGED vars
  BY <1>18 DEF vars
<1> QED
  BY <1>1, <1>2, <1>3, <1>4, <1>5, <1>6, <1>7, <1>8, <1>9, <1>10, <1>11, <1>12,
     <1>13, <1>14, <1>15, <1>16, <1>17, <1>18
  DEF Next, LoopNext, Moves, AtRest

(* Streams are closed where the summary is made, or by cleanup_and_fail. *)
LEMMA ClosingStep == ASSUME IInv, [Next]_vars PROVE Closing'
<1> USE ParallelAssumption, OptionsAssumption
    DEF IInv, TypeOK, Sync, Order, Stopping, Summing, Closing,
      Go, optVars, threadVars, testVars, timerVars, streamVars, serverVars,
      stopVars, countVars
<1>1. CASE Moves
  BY <1>1 DEF Moves, DialFails, SetUp, LoopTest, ConnectionLost, SelectReturns,
           HandleExchange, HandleNothing, PassTest, CheckDone
<1>2. CASE Dial
  BY <1>2 DEF Dial
<1>3. ASSUME NEW m \in State, ReadMessage(m)
      PROVE  Closing'
  BY <1>3 DEF ReadMessage
<1>4. ASSUME NEW n \in 0..Parallel, CreateStreams(n)
      PROVE  Closing'
  BY <1>4 DEF CreateStreams
<1>5. ASSUME NEW n \in 0..Parallel, Spawn(n)
      PROVE  Closing'
  BY <1>5 DEF Spawn
<1>6. CASE TestStart
  BY <1>6 DEF TestStart
<1>7. CASE DisplayResults
  BY <1>7 DEF DisplayResults, ClientEnd, Report
<1>8. CASE ServerGivesUp
  BY <1>8 DEF ServerGivesUp, Report
<1>9. ASSUME NEW testDue \in BOOLEAN, NEW omitDue \in BOOLEAN,
             RunTimers(testDue, omitDue)
      PROVE  Closing'
  BY <1>9 DEF RunTimers
<1>10. CASE Sweep
  BY <1>10 DEF Sweep, Sweeps
<1>11. CASE Swept
  BY <1>11 DEF Swept
<1>12. CASE SendEnd
  BY <1>12 DEF SendEnd
<1>13. CASE Abort
  BY <1>13 DEF Abort, ClientEnd, Report
<1>14. CASE Free
  BY <1>14 DEF Free
<1>15. ASSUME NEW s \in Stream, WorkerNext(s)
      PROVE  Closing'
  BY <1>15 DEF WorkerNext, WorkerTest, WorkerIo
<1>16. CASE StopNext
  BY <1>16 DEF StopNext, MarkDone, SendDone
<1>17. CASE TestStartFails
  BY <1>17 DEF TestStartFails
<1>18. CASE UNCHANGED vars
  BY <1>18 DEF vars
<1> QED
  BY <1>1, <1>2, <1>3, <1>4, <1>5, <1>6, <1>7, <1>8, <1>9, <1>10, <1>11, <1>12,
     <1>13, <1>14, <1>15, <1>16, <1>17, <1>18
  DEF Next, LoopNext, Moves, AtRest

LEMMA InitInv == Init => IInv
<1> SUFFICES ASSUME Init PROVE IInv
  OBVIOUS
<1> USE ParallelAssumption, OptionsAssumption DEF Init
<1>1. TypeOK
  <2>1. /\ spDone \in [Stream -> BOOLEAN] /\ thread \in [Stream -> BOOLEAN]
        /\ sock \in [Stream -> Socket] /\ worker \in [Stream -> Worker]
    OBVIOUS
  <2>2. reverse \in BOOLEAN /\ omit \in BOOLEAN
    OBVIOUS
  <2>3. /\ done \in BOOLEAN /\ omitting \in BOOLEAN /\ startup \in BOOLEAN
        /\ timer \in BOOLEAN /\ omitTimer \in BOOLEAN /\ armed \in BOOLEAN
        /\ ended \in BOOLEAN /\ marked \in BOOLEAN /\ hangup \in BOOLEAN
    BY Zenon
  <2> QED
    BY <2>1, <2>2, <2>3 DEF TypeOK
<1>2. Sync /\ Order /\ Stopping /\ Arming /\ Omission /\ Summing /\ Closing
  BY DEF Sync, Order, Stopping, Arming, Omission, Summing, Closing
<1>3. Workers
  BY DEF Workers, Live
<1> QED
  BY <1>1, <1>2, <1>3 DEF IInv

LEMMA Inductive == IInv /\ [Next]_vars => IInv'
  BY TypeOKStep, SyncStep, OrderStep, StoppingStep, WorkersStep, ArmingStep,
     OmissionStep, SummingStep, ClosingStep DEF IInv

LEMMA Invariance == Spec => []IInv
  BY InitInv, Inductive, PTL DEF Spec

-----------------------------------------------------------------------------
(* The safety properties *)

(* Every variable of the engine keeps its type (iperf_run_client, forceStop *)
(* and the workers), for any number of streams.                             *)
THEOREM TypeCorrect == Spec => []TypeOK
<1>1. IInv => TypeOK
  BY DEF IInv
<1> QED
  BY <1>1, Invariance, PTL

(* iperf_free_test finds a live worker only after a Stop, and only a sender *)
(* (the sweeps of iperf_run_client).                                        *)
THEOREM WorkersJoined == Spec => []OnlyStoppedSendersOutlive
<1>1. IInv => OnlyStoppedSendersOutlive
  BY DEF IInv, Workers, OnlyStoppedSendersOutlive
<1> QED
  BY <1>1, Invariance, PTL

(* Without Stop no worker thread outlives its stream, on any path out of    *)
(* iperf_run_client.                                                        *)
THEOREM NoWorkerLeftWithoutStop ==
    ASSUME ~MayStop PROVE Spec => []NoWorkerOutlivesTest
<1>1. IInv => NoWorkerOutlivesTest
  BY DEF IInv, Workers, Stopping, NoWorkerOutlivesTest
<1> QED
  BY <1>1, Invariance, PTL

(* After TEST_END no sender is left to send (the sweep before               *)
(* iperf_set_send_state).                                                   *)
THEOREM QuietAfterEnd == Spec => []SendersQuietAfterEnd
<1>1. IInv => SendersQuietAfterEnd
  BY DEF IInv, Workers, SendersQuietAfterEnd
<1> QED
  BY <1>1, Invariance, PTL

(* A test that ends has dropped its omitted part exactly once               *)
(* (client_omit_timer_proc against test_timer_proc and forceStop).          *)
THEOREM OmittedOnce == Spec => []OmitOnce
<1>1. IInv => OmitOnce
  BY DEF IInv, TypeOK, Order, Arming, Omission, OmitOnce
<1> QED
  BY <1>1, Invariance, PTL

(* The summary is printed once (iperf_client_end, SERVER_TERMINATE). *)
THEOREM SummarisedOnce == Spec => []SummaryOnce
<1>1. IInv => SummaryOnce
  BY DEF IInv, TypeOK, Summing, SummaryOnce
<1> QED
  BY <1>1, Invariance, PTL

(* Without Stop every listed stream socket is closed when iperf_run_client  *)
(* returns.                                                                 *)
THEOREM StreamsClosed == Spec => []SocketsClosed
<1>1. IInv => SocketsClosed
  BY DEF IInv, Closing, SocketsClosed
<1> QED
  BY <1>1, Invariance, PTL

-----------------------------------------------------------------------------
(* Refinement *)

LEMMA PhaseInit == Init => Phases!PInit
  BY DEF Init, Phases!PInit, Phase

LEMMA PhaseStep ==
    ASSUME IInv, [Next]_vars PROVE [Phases!PNext]_(Phases!pvars)
<1> USE DEF IInv, TypeOK, Sync, Order, Stopping, Arming, Phase, Phases!PNext,
      Phases!Mark, Phases!Arm, Phases!Advance, Phases!Finish, Phases!Succ,
      Phases!pvars, Go, optVars, threadVars, testVars, timerVars, streamVars,
      serverVars, stopVars, countVars
<1>1. CASE Moves
  <2>1. UNCHANGED <<ctrl, heard, armed, ended, done>>
    BY <1>1 DEF Moves, DialFails, SetUp, LoopTest, ConnectionLost,
       SelectReturns, HandleExchange, HandleNothing, PassTest, CheckDone
  <2> QED
    BY <2>1
<1>2. CASE Dial
  BY <1>2 DEF Dial
<1>3. ASSUME NEW m \in State, ReadMessage(m)
      PROVE  [Phases!PNext]_(Phases!pvars)
  BY <1>3 DEF ReadMessage
<1>4. ASSUME NEW n \in 0..Parallel, CreateStreams(n)
      PROVE  [Phases!PNext]_(Phases!pvars)
  BY <1>4 DEF CreateStreams
<1>5. ASSUME NEW n \in 0..Parallel, Spawn(n)
      PROVE  [Phases!PNext]_(Phases!pvars)
  BY <1>5 DEF Spawn
<1>6. CASE TestStart
  BY <1>6 DEF TestStart
<1>7. CASE DisplayResults
  BY <1>7 DEF DisplayResults, ClientEnd, Report
<1>8. CASE ServerGivesUp
  BY <1>8 DEF ServerGivesUp, Report
<1>9. ASSUME NEW testDue \in BOOLEAN, NEW omitDue \in BOOLEAN,
             RunTimers(testDue, omitDue)
      PROVE  [Phases!PNext]_(Phases!pvars)
  BY <1>9 DEF RunTimers
<1>10. CASE Sweep
  BY <1>10 DEF Sweep, Sweeps
<1>11. CASE Swept
  BY <1>11 DEF Swept
<1>12. CASE SendEnd
  BY <1>12 DEF SendEnd
<1>13. CASE Abort
  BY <1>13 DEF Abort, ClientEnd, Report
<1>14. CASE Free
  BY <1>14 DEF Free
<1>15. ASSUME NEW s \in Stream, WorkerNext(s)
      PROVE  [Phases!PNext]_(Phases!pvars)
  <2>1. UNCHANGED <<ctrl, heard, armed, ended, done>>
    BY <1>15 DEF WorkerNext, WorkerTest, WorkerIo
  <2> QED
    BY <2>1
<1>16. CASE StopNext
  <2>1. /\ UNCHANGED <<ctrl, heard, armed, ended>>
        /\ (~done /\ done' = TRUE) \/ UNCHANGED done
    BY <1>16 DEF StopNext, MarkDone, SendDone
  <2>2. Phase' = Phase
    BY <2>1
  <2> QED
    BY <2>1, <2>2
<1>17. CASE TestStartFails
  BY <1>17 DEF TestStartFails
<1>18. CASE UNCHANGED vars
  BY <1>18 DEF vars
<1> QED
  BY <1>1, <1>2, <1>3, <1>4, <1>5, <1>6, <1>7, <1>8, <1>9, <1>10, <1>11, <1>12,
     <1>13, <1>14, <1>15, <1>16, <1>17, <1>18
  DEF Next, LoopNext, Moves, AtRest

(* The streams, workers and timers of the engine do what RunLifecycle       *)
(* assumes of iperf_run_client: they implement ClientPhases.                *)
THEOREM EngineImplementsPhases == Spec => ImplementsPhases
  BY PhaseInit, PhaseStep, Invariance, PTL
  DEF Spec, ImplementsPhases, Phases!PSpec
=============================================================================
