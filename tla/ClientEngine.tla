---------------------------- MODULE ClientEngine ----------------------------
(***************************************************************************)
(* iperf_run_client from the inside, for one run: the select loop on the   *)
(* IO thread, the state messages of the server, the duration and omit      *)
(* timers, one worker thread per stream, forceStop on the Main thread, and *)
(* iperf_free_test at the end.  States are named as in iperf_api.h; "NEW"  *)
(* is the zero of a new test and "ERROR" stands for the two negative ones, *)
(* ACCESS_DENIED and SERVER_ERROR.                                         *)
(***************************************************************************)
EXTENDS Naturals

CONSTANTS
    Parallel,  \* --parallel: the number of streams
    Reverse,   \* the values of --reverse to consider
    Omit,      \* the values of (--omit > 0) to consider
    MayStop    \* may the user press Stop?

ASSUME ParallelAssumption == Parallel \in Nat \ {0}
ASSUME OptionsAssumption == Reverse \subseteq BOOLEAN /\ Omit \subseteq BOOLEAN
ASSUME StopAssumption == MayStop \in BOOLEAN

Stream == 1..Parallel
(* What the server announces next; it says nothing during TEST_RUNNING until *)
(* the client sends TEST_END.                                                *)
Announced == [NEW |-> "PARAM_EXCHANGE", PARAM_EXCHANGE |-> "CREATE_STREAMS",
              CREATE_STREAMS |-> "TEST_START", TEST_START |-> "TEST_RUNNING",
              TEST_RUNNING |-> "EXCHANGE_RESULTS",
              EXCHANGE_RESULTS |-> "DISPLAY_RESULTS"]
Heard == DOMAIN Announced \cup {"DISPLAY_RESULTS"}
State == Heard \cup {"TEST_END", "IPERF_DONE", "SERVER_TERMINATE", "ERROR"}
Pc == {"connect", "setup", "loop", "select", "handle", "pass", "spawn",
       "timers", "check", "senders", "end", "receivers", "fail", "abort",
       "returned", "freed"}
Worker == {"none", "test", "io", "exited"}
Socket == {"none", "open", "closed"}

VARIABLES
    reverse, omit,                \* options of the run
    pc, at, result,               \* the IO thread; at: position in a sweep
    state, done, omitting, startup, listed, ctrl,  \* struct iperf_test
    timer, omitTimer, armed,      \* on the list of timers?  TEST_START handled?
    spDone, thread, sock,         \* struct iperf_stream
    worker,                       \* the threads
    heard, ended,                 \* server's last announcement, TEST_END sent?
    stopPc,                       \* forceStop
    marked, hangup, resets, summaries  \* history

optVars == <<reverse, omit>>
threadVars == <<pc, at, result>>
testVars == <<state, done, omitting, startup, listed, ctrl>>
timerVars == <<timer, omitTimer, armed>>
streamVars == <<spDone, thread, sock, worker>>
serverVars == <<heard, ended>>
stopVars == <<stopPc, marked>>
countVars == <<resets, summaries>>
vars == <<optVars, threadVars, testVars, timerVars, streamVars, serverVars,
          stopVars, countVars, hangup>>

Init ==
    /\ reverse \in Reverse /\ omit \in Omit
    /\ pc = "connect" /\ at = 1 /\ result = "none"
    /\ state = "NEW" /\ done = FALSE /\ omitting = FALSE /\ startup = TRUE
    /\ listed = 0 /\ ctrl = "none"
    /\ timer = FALSE /\ omitTimer = FALSE /\ armed = FALSE
    /\ spDone = [s \in Stream |-> FALSE] /\ thread = [s \in Stream |-> FALSE]
    /\ sock = [s \in Stream |-> "none"] /\ worker = [s \in Stream |-> "none"]
    /\ heard = "NEW" /\ ended = FALSE
    /\ stopPc = "idle" /\ marked = FALSE /\ hangup = FALSE
    /\ resets = 0 /\ summaries = 0

-----------------------------------------------------------------------------
Go(from, to) == pc = from /\ pc' = to

Live(s) == worker[s] \in {"test", "io"}

(* iperf_reporter_callback prints the summary in two states only *)
Report(st) ==
    summaries' = IF st \in {"TEST_END", "DISPLAY_RESULTS"}
                   THEN summaries + 1 ELSE summaries

(* iperf_client_end in test->state st: stream sockets, summary, IPERF_DONE, *)
(* and the control socket, which stays open when IPERF_DONE cannot be sent. *)
ClientEnd(st) ==
    /\ sock' = [s \in Stream |-> IF s <= listed THEN "closed" ELSE sock[s]]
    /\ Report(st)
    /\ IF ctrl = "none" THEN state' = st /\ UNCHANGED <<ctrl, hangup>>
       ELSE IF st \in {"NEW", "ERROR"}
         THEN state' = st /\ ctrl' = "closed" /\ UNCHANGED hangup
         ELSE /\ state' = "IPERF_DONE"
              /\ ctrl' \in {"open", "closed"}
              /\ hangup' = TRUE

-----------------------------------------------------------------------------
(* iperf_connect *)

Dial ==
    /\ Go("connect", "setup")
    /\ ctrl' = "open"
    /\ UNCHANGED <<optVars, at, result, state, done, omitting, startup, listed,
                   timerVars, streamVars, serverVars, stopVars, countVars, hangup>>

DialFails ==
    /\ Go("connect", "fail")
    /\ UNCHANGED <<optVars, at, result, testVars, timerVars, streamVars,
                   serverVars, stopVars, countVars, hangup>>

(* socket options and the cookie *)
SetUp ==
    /\ Go("setup", "loop") \/ Go("setup", "fail")
    /\ UNCHANGED <<optVars, at, result, testVars, timerVars, streamVars,
                   serverVars, stopVars, countVars, hangup>>

-----------------------------------------------------------------------------
(* The select loop *)

LoopTest ==
    /\ Go("loop", IF state = "IPERF_DONE" THEN "receivers" ELSE "select")
    /\ UNCHANGED <<optVars, at, result, testVars, timerVars, streamVars,
                   serverVars, stopVars, countVars, hangup>>

(* The control socket is readable: one byte is read into test->state *)
ReadMessage(m) ==
    /\ Go("select", "handle")
    /\ \/ /\ heard \in DOMAIN Announced
          /\ heard = "TEST_RUNNING" => ended
          /\ m = Announced[heard]
          /\ heard' = m
       \/ m \in {"SERVER_TERMINATE", "ERROR"} /\ UNCHANGED heard
    /\ state' = m
    /\ UNCHANGED <<optVars, at, result, done, omitting, startup, listed, ctrl,
                   timerVars, streamVars, ended, stopVars, countVars, hangup>>

(* End of file or an error on the control socket, an error of select, or    *)
(* nothing received for too long                                            *)
ConnectionLost ==
    /\ Go("select", "fail")
    /\ UNCHANGED <<optVars, at, result, testVars, timerVars, streamVars,
                   serverVars, stopVars, countVars, hangup>>

(* select returns for a timer or a data socket *)
SelectReturns ==
    /\ Go("select", "pass")
    /\ UNCHANGED <<optVars, at, result, testVars, timerVars, streamVars,
                   serverVars, stopVars, countVars, hangup>>

(* switch (test->state): forceStop may have changed it since the read().    *)
(* Every exchange with the server may fail.                                 *)
HandleExchange ==
    /\ state \in {"PARAM_EXCHANGE", "EXCHANGE_RESULTS"}
    /\ Go("handle", "pass") \/ Go("handle", "fail")
    /\ UNCHANGED <<optVars, at, result, testVars, timerVars, streamVars,
                   serverVars, stopVars, countVars, hangup>>

HandleNothing ==
    /\ state \in {"TEST_RUNNING", "IPERF_DONE"}
    /\ Go("handle", "pass")
    /\ UNCHANGED <<optVars, at, result, testVars, timerVars, streamVars,
                   serverVars, stopVars, countVars, hangup>>

(* Mutant: the loop over the streams runs once too often. *)
CreateOneMore(n) ==
    /\ state = "CREATE_STREAMS"
    /\ Go("handle", IF n = Parallel THEN "pass" ELSE "fail")
    /\ listed' = n + 1
    /\ \E orphan \in {"none", "open"} :
         sock' = [s \in Stream |-> IF s <= n THEN "open"
                                   ELSE IF s = n + 1 THEN orphan ELSE "none"]
    /\ UNCHANGED <<optVars, at, result, state, done, omitting, startup, ctrl,
                   timerVars, spDone, thread, worker, serverVars, stopVars,
                   countVars, hangup>>

(* iperf_create_streams: n streams are made; the next one may fail in       *)
(* connect or, with its socket open, in iperf_new_stream.                   *)
CreateStreams(n) ==
    /\ state = "CREATE_STREAMS"
    /\ Go("handle", IF n = Parallel THEN "pass" ELSE "fail")
    /\ listed' = n
    /\ \E orphan \in {"none", "open"} :
         sock' = [s \in Stream |-> IF s <= n THEN "open"
                                   ELSE IF s = n + 1 THEN orphan ELSE "none"]
    /\ UNCHANGED <<optVars, at, result, state, done, omitting, startup, ctrl,
                   timerVars, spDone, thread, worker, serverVars, stopVars,
                   countVars, hangup>>

(* iperf_init_test, create_client_timers, create_client_omit_timer, for a   *)
(* --time that is not 0                                                     *)
TestStart ==
    /\ state = "TEST_START"
    /\ Go("handle", "pass")
    /\ done' = FALSE
    /\ timer' = TRUE /\ armed' = TRUE
    /\ omitTimer' = omit /\ omitting' = omit
    /\ UNCHANGED <<optVars, at, result, state, startup, listed, ctrl,
                   streamVars, serverVars, stopVars, countVars, hangup>>

(* A clock or an allocation fails before or after done = 0 *)
TestStartFails ==
    /\ state = "TEST_START"
    /\ Go("handle", "fail")
    /\ \/ UNCHANGED <<done, omitting, timerVars>>
       \/ /\ done' = FALSE /\ armed' = TRUE
          /\ timer' \in BOOLEAN
          /\ omitting' \in {FALSE, timer' /\ omit} /\ omitTimer' = FALSE
    /\ UNCHANGED <<optVars, at, result, state, startup, listed, ctrl,
                   streamVars, serverVars, stopVars, countVars, hangup>>

DisplayResults ==
    /\ state = "DISPLAY_RESULTS"
    /\ Go("handle", "pass")
    /\ ClientEnd(state)
    /\ UNCHANGED <<optVars, at, result, done, omitting, startup, listed,
                   timerVars, spDone, thread, worker, serverVars, stopVars,
                   resets>>

(* Mutant: oldstate is not put back. *)
ServerGivesUpDisplaying ==
    /\ state \in {"SERVER_TERMINATE", "ERROR"}
    /\ Go("handle", "fail")
    /\ Report(IF state = "ERROR" THEN state ELSE "DISPLAY_RESULTS")
    /\ state' = IF state = "ERROR" THEN state ELSE "DISPLAY_RESULTS"
    /\ UNCHANGED <<optVars, at, result, done, omitting, startup, listed, ctrl,
                   timerVars, streamVars, serverVars, stopVars, resets, hangup>>

(* SERVER_TERMINATE reports as in DISPLAY_RESULTS; all three give up *)
ServerGivesUp ==
    /\ state \in {"SERVER_TERMINATE", "ERROR"}
    /\ Go("handle", "fail")
    /\ Report(IF state = "ERROR" THEN state ELSE "DISPLAY_RESULTS")
    /\ UNCHANGED <<optVars, at, result, testVars, timerVars, streamVars,
                   serverVars, stopVars, resets, hangup>>

(* if (test->state == TEST_RUNNING) { if (startup) ... *)
PassTest ==
    /\ Go("pass", IF state # "TEST_RUNNING" THEN "loop"
                  ELSE IF startup THEN "spawn" ELSE "timers")
    /\ UNCHANGED <<optVars, at, result, testVars, timerVars, streamVars,
                   serverVars, stopVars, countVars, hangup>>

(* Mutant: thread_created is set after the loop that creates the threads. *)
SpawnFlagsLate(n) ==
    /\ n <= listed
    /\ Go("spawn", "fail") \/ (n = listed /\ Go("spawn", "timers"))
    /\ startup' = FALSE
    /\ thread' = [s \in Stream |-> n = listed /\ s <= n]
    /\ worker' = [s \in Stream |-> IF s <= n THEN "test" ELSE "none"]
    /\ UNCHANGED <<optVars, at, result, state, done, omitting, listed, ctrl,
                   timerVars, spDone, sock, serverVars, stopVars, countVars,
                   hangup>>

(* pthread_create for the streams in turn; the n + 1st, or after the last   *)
(* pthread_attr_destroy, may fail                                           *)
Spawn(n) ==
    /\ n <= listed
    /\ Go("spawn", "fail") \/ (n = listed /\ Go("spawn", "timers"))
    /\ startup' = FALSE
    /\ thread' = [s \in Stream |-> s <= n]
    /\ worker' = [s \in Stream |-> IF s <= n THEN "test" ELSE "none"]
    /\ UNCHANGED <<optVars, at, result, state, done, omitting, listed, ctrl,
                   timerVars, spDone, sock, serverVars, stopVars, countVars,
                   hangup>>

(* Mutant: the duration timer is ignored while the test is omitting. *)
TimerLostInOmit(testDue, omitDue) ==
    /\ testDue => timer
    /\ omitDue => omitTimer
    /\ Go("timers", "check")
    /\ timer' = (timer /\ ~testDue)
    /\ done' = (done \/ (testDue /\ ~omitting))
    /\ omitTimer' = (omitTimer /\ ~omitDue)
    /\ omitting' = (omitting /\ ~omitDue)
    /\ resets' = IF omitDue THEN resets + 1 ELSE resets
    /\ UNCHANGED <<optVars, at, result, state, startup, listed, ctrl, armed,
                   streamVars, serverVars, stopVars, summaries, hangup>>

(* tmr_run.  The two timers read the clock one after the other when they    *)
(* are made, so that either may be due first.                               *)
RunTimers(testDue, omitDue) ==
    /\ testDue => timer
    /\ omitDue => omitTimer
    /\ Go("timers", "check")
    /\ timer' = (timer /\ ~testDue)
    /\ done' = (done \/ testDue)
    /\ omitTimer' = (omitTimer /\ ~omitDue)
    /\ omitting' = (omitting /\ ~omitDue)
    /\ resets' = IF omitDue THEN resets + 1 ELSE resets
    /\ UNCHANGED <<optVars, at, result, state, startup, listed, ctrl, armed,
                   streamVars, serverVars, stopVars, summaries, hangup>>

(* Mutant: TEST_END is sent before the senders are joined. *)
CheckDoneNoJoin ==
    /\ Go("check", IF ~omitting /\ done THEN "end" ELSE "loop")
    /\ UNCHANGED <<optVars, at, result, testVars, timerVars, streamVars,
                   serverVars, stopVars, countVars, hangup>>

(* Mutant: the test may end while it is still omitting. *)
CheckDoneOmitting ==
    /\ Go("check", IF done THEN "senders" ELSE "loop")
    /\ UNCHANGED <<optVars, at, result, testVars, timerVars, streamVars,
                   serverVars, stopVars, countVars, hangup>>

(* Mutant: || for &&. *)
CheckDoneEither ==
    /\ Go("check", IF ~omitting \/ done THEN "senders" ELSE "loop")
    /\ UNCHANGED <<optVars, at, result, testVars, timerVars, streamVars,
                   serverVars, stopVars, countVars, hangup>>

(* Is the test done yet? *)
CheckDone ==
    /\ Go("check", IF ~omitting /\ done THEN "senders" ELSE "loop")
    /\ UNCHANGED <<optVars, at, result, testVars, timerVars, streamVars,
                   serverVars, stopVars, countVars, hangup>>

(* Which streams a sweep over test->streams cancels: the senders at the end *)
(* of a test, the receivers after the loop, and what is left on a failure.  *)
Sweeps(s) ==
    \/ pc = "senders" /\ ~reverse
    \/ pc = "receivers" /\ reverse
    \/ pc = "fail" /\ ~spDone[s]

(* sp->done = 1; pthread_cancel, which is SIGUSR1 and pthread_exit on       *)
(* Android; pthread_join; thread_created = 0.  That pthread_cancel and      *)
(* pthread_join could fail on a live thread is not modelled.                *)
Sweep ==
    /\ pc \in {"senders", "receivers", "fail"}
    /\ at <= listed
    /\ at' = at + 1
    /\ IF Sweeps(at)
         THEN /\ spDone' = [spDone EXCEPT ![at] = TRUE]
              /\ thread' = [thread EXCEPT ![at] = FALSE]
              /\ worker' = [worker EXCEPT ![at] =
                              IF thread[at] THEN "exited" ELSE @]
         ELSE UNCHANGED <<spDone, thread, worker>>
    /\ UNCHANGED <<optVars, pc, result, testVars, timerVars, sock, serverVars,
                   stopVars, countVars, hangup>>

Swept ==
    /\ at > listed
    /\ Go("senders", "end") \/ Go("receivers", "returned") \/ Go("fail", "abort")
    /\ at' = 1
    /\ result' = IF pc = "receivers" THEN "ok" ELSE result
    /\ UNCHANGED <<optVars, testVars, timerVars, streamVars, serverVars,
                   stopVars, countVars, hangup>>

(* done = 1, statistics, and TEST_END, which may fail to go out *)
SendEnd ==
    /\ Go("end", "loop") \/ Go("end", "fail")
    /\ done' = TRUE
    /\ state' = "TEST_END"
    /\ ended' = TRUE
    /\ UNCHANGED <<optVars, at, result, omitting, startup, listed, ctrl,
                   timerVars, streamVars, heard, stopVars, countVars, hangup>>

(* Mutant: nothing is cleaned up after a server error. *)
AbortKeepsStreams ==
    /\ Go("abort", "returned")
    /\ IF state = "ERROR" THEN UNCHANGED <<sock, summaries, state, ctrl, hangup>>
       ELSE ClientEnd(state)
    /\ result' = "error"
    /\ UNCHANGED <<optVars, at, done, omitting, startup, listed, timerVars,
                   spDone, thread, worker, serverVars, stopVars, resets>>

(* cleanup_and_fail after its sweep *)
Abort ==
    /\ Go("abort", "returned")
    /\ ClientEnd(state)
    /\ result' = "error"
    /\ UNCHANGED <<optVars, at, done, omitting, startup, listed, timerVars,
                   spDone, thread, worker, serverVars, stopVars, resets>>

(* runIperfLive calls iperf_free_test: streams, timers, the test *)
Free ==
    /\ Go("returned", "freed")
    /\ timer' = FALSE /\ omitTimer' = FALSE
    /\ UNCHANGED <<optVars, at, result, testVars, armed, streamVars, serverVars,
                   stopVars, countVars, hangup>>

-----------------------------------------------------------------------------
(* The worker thread of stream s: iperf_client_worker_run *)

WorkerTest(s) ==
    /\ worker[s] = "test"
    /\ worker' = [worker EXCEPT ![s] = IF done \/ spDone[s] THEN "exited" ELSE "io"]
    /\ UNCHANGED <<optVars, threadVars, testVars, timerVars, spDone, thread,
                   sock, serverVars, stopVars, countVars, hangup>>

(* iperf_send_mt or iperf_recv_mt, once *)
WorkerIo(s) ==
    /\ worker[s] = "io"
    /\ \E next \in {"test", "exited"} : worker' = [worker EXCEPT ![s] = next]
    /\ UNCHANGED <<optVars, threadVars, testVars, timerVars, spDone, thread,
                   sock, serverVars, stopVars, countVars, hangup>>

-----------------------------------------------------------------------------
(* forceStop on the Main thread, while the test exists (RunLifecycle has    *)
(* what it does to a test that is gone)                                     *)

MarkDone ==
    /\ MayStop
    /\ stopPc = "idle"
    /\ pc # "freed"
    /\ ~done
    /\ stopPc' = "send"
    /\ done' = TRUE /\ marked' = TRUE
    /\ UNCHANGED <<optVars, threadVars, state, omitting, startup, listed, ctrl,
                   timerVars, streamVars, serverVars, countVars, hangup>>

SendDone ==
    /\ stopPc = "send"
    /\ pc # "freed"
    /\ stopPc' = "over"
    /\ IF ctrl = "none" THEN UNCHANGED <<state, hangup>>
       ELSE state' = "IPERF_DONE" /\ hangup' = TRUE
    /\ UNCHANGED <<optVars, threadVars, done, omitting, startup, listed, ctrl,
                   timerVars, streamVars, serverVars, marked, countVars>>

-----------------------------------------------------------------------------
LoopNext ==
    \/ Dial \/ DialFails \/ SetUp
    \/ LoopTest \/ (\E m \in State : ReadMessage(m))
    \/ ConnectionLost \/ SelectReturns
    \/ HandleExchange \/ HandleNothing
    \/ \E n \in 0..Parallel : CreateStreams(n) \/ Spawn(n)
    \/ TestStart \/ TestStartFails \/ DisplayResults \/ ServerGivesUp
    \/ PassTest
    \/ \E testDue, omitDue \in BOOLEAN : RunTimers(testDue, omitDue)
    \/ CheckDone \/ Sweep \/ Swept \/ SendEnd \/ Abort \/ Free

WorkerNext(s) == WorkerTest(s) \/ WorkerIo(s)

StopNext == MarkDone \/ SendDone

(* The test is gone and nothing is left to do *)
AtRest == pc = "freed" /\ UNCHANGED vars

Next ==
    \/ LoopNext
    \/ \E s \in Stream : WorkerNext(s)
    \/ StopNext
    \/ AtRest

Spec == Init /\ [][Next]_vars

(***************************************************************************)
(* Fairness.  The IO thread runs and Main finishes a forceStop it began.   *)
(* Timers come due while the loop runs them, a server that has something   *)
(* to say says it, and one that was sent IPERF_DONE hangs up.  Nothing is  *)
(* asked of the workers: a socket may block one until it is cancelled.     *)
(***************************************************************************)
FairSpec ==
    /\ Spec
    /\ WF_vars(LoopNext)
    /\ WF_vars(SendDone)
    /\ SF_vars(\E omitDue \in BOOLEAN : RunTimers(TRUE, omitDue))
    /\ SF_vars(\E testDue \in BOOLEAN : RunTimers(testDue, TRUE))
    /\ SF_vars(~hangup /\ \E m \in Heard : ReadMessage(m))
    /\ SF_vars(hangup /\ ConnectionLost)

-----------------------------------------------------------------------------
(* Properties *)

TypeOK ==
    /\ reverse \in BOOLEAN /\ omit \in BOOLEAN
    /\ pc \in Pc /\ at \in 1..Parallel + 1 /\ result \in {"none", "ok", "error"}
    /\ state \in State
    /\ done \in BOOLEAN /\ omitting \in BOOLEAN /\ startup \in BOOLEAN
    /\ listed \in 0..Parallel /\ ctrl \in Socket
    /\ timer \in BOOLEAN /\ omitTimer \in BOOLEAN /\ armed \in BOOLEAN
    /\ spDone \in [Stream -> BOOLEAN] /\ thread \in [Stream -> BOOLEAN]
    /\ sock \in [Stream -> Socket] /\ worker \in [Stream -> Worker]
    /\ heard \in Heard /\ ended \in BOOLEAN
    /\ stopPc \in {"idle", "send", "over"}
    /\ marked \in BOOLEAN /\ hangup \in BOOLEAN
    /\ resets \in Nat /\ summaries \in Nat

(* No worker is left when iperf_free_test frees its stream under it, except *)
(* a sender after a Stop: nothing joins it on that way out of the loop.     *)
OnlyStoppedSendersOutlive ==
    pc = "freed" => \A s \in Stream : Live(s) => marked /\ ~reverse

(* No worker uses its stream, or the test, after both have been freed.      *)
NoWorkerOutlivesTest == pc = "freed" => \A s \in Stream : ~Live(s)

(* After TEST_END no sender sends another block, so that both ends count    *)
(* the same bytes.                                                          *)
SendersQuietAfterEnd == ended /\ ~reverse => \A s \in Stream : ~Live(s)

(* A test that ends has left its omitted part, and reset its statistics     *)
(* exactly once on the way, however its timers and a Stop interleave.       *)
OmitOnce == ended => resets = (IF omit THEN 1 ELSE 0) /\ ~omitting

(* The summary is printed at most once, and exactly once by a run that      *)
(* returns 0 and was not stopped.                                           *)
SummaryOnce ==
    /\ summaries <= 1
    /\ pc = "returned" /\ result = "ok" /\ ~marked => summaries = 1

(* Without Stop, every stream socket in the list is closed on every way out *)
(* of iperf_run_client.                                                     *)
SocketsClosed ==
    pc = "returned" /\ ~marked =>
        \A s \in Stream : s <= listed => sock[s] = "closed"

(* iperf_run_client returns and its test is freed, whatever the server, the *)
(* network, the timers and the user do.                                     *)
EngineReturns == <>(pc = "freed")

-----------------------------------------------------------------------------
(* Seen from outside *)

Phase ==
    IF ctrl = "none" THEN "start"
    ELSE IF heard = "TEST_START" /\ armed THEN "armed"
    ELSE IF heard = "TEST_RUNNING" /\ ~ended THEN "running"
    ELSE IF heard = "DISPLAY_RESULTS" THEN "done"
    ELSE IF ended THEN "ending" ELSE "setup"

Phases == INSTANCE ClientPhases WITH phase <- Phase, due <- done

(* Streams, workers, timers and server do what RunLifecycle assumes of      *)
(* iperf_run_client.                                                        *)
ImplementsPhases == Phases!PSpec
=============================================================================
