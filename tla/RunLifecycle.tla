---------------------------- MODULE RunLifecycle ----------------------------
(***************************************************************************)
(* The life of a test run, from the Run/Stop button to the native client   *)
(* and back: Iperf3RunViewModel and IperfTestManage on the Main thread, one *)
(* Dispatchers.IO thread per run inside runIperfLive (iperf_jni.c), the     *)
(* pthread that reads that run's output pipe, and the process-wide C        *)
(* variables they all share.  iperf_run_client is reduced to what the       *)
(* others can see of it: the control-connection phase, test->state,        *)
(* test->done and the lines it prints.                                     *)
(***************************************************************************)
EXTENDS Naturals

CONSTANTS
    MaxRuns,   \* bound: how many times the user may press Run
    MaxLines,  \* bound: lines waiting in one output pipe
    Inputs,    \* what the user may type in: "good", "bad" or "duration", see Launch
    Stoppable, \* the runs on which the user may press Stop
    Patient    \* does the user wait for a stopped run to end before a new Run?

ASSUME BoundsAssumption == MaxRuns \in Nat \ {0} /\ MaxLines \in Nat
ASSUME InputsAssumption == Inputs \subseteq {"good", "bad", "duration"}
ASSUME UserAssumption == Stoppable \subseteq 1..MaxRuns /\ Patient \in BOOLEAN

Run == 1..MaxRuns
NULL == 0
Pointer == 0..MaxRuns  \* a test or a thread, by the run that made it, or NULL

(* Where the IO thread of a run stands, in program order. *)
Unborn == {"none"}
NativePc == {"new", "pipe", "parse", "discard", "reader", "enter", "connect",
             "loop", "select", "tick", "after", "free", "forget", "close",
             "join", "final", "clear", "complete"}
ClientPc == {"connect", "loop", "select", "tick"}
IoPc == Unborn \cup {"dispatched"} \cup NativePc \cup {"done", "joined"}
MainPc == {"idle", "launch", "request", "check", "peek", "mark", "send", "gone"}
(* The control connection as both peers have carried it forward. *)
Proto == {"start", "setup", "armed", "running", "ending", "done"}
Progress == {"part", "full"}
Heap == {"none", "live", "freed"}
Reader == {"none", "running", "exited", "joined"}
FinalMsg == {"none", "completed", "stopped", "failed"}
Fill == 0..MaxLines
Outcome == {"ok", "error"}
(* Of the IO threads, and of forceStop *)
Faults == {"null", "freed", "closed", "rejoin", "stopNull", "stopFreed"}

VARIABLES
    isRunning, isFinished, returnCode, progress,   \* UiData
    isIperfRunning,                                \* IperfTestManage
    mainPc, stopPtr, launched,                     \* Main thread
    ioPc, args, failed, result, finalMsg, client, joinOn,  \* IO threads
    global_test, reader_thread, stop_requested, optindStale,  \* C globals
    heap, outfile, proto, forced, done,            \* struct iperf_test, per test
    buffered, closed, reader,                      \* pipe and reader, per run
    stopAsked, marked,                             \* history: Stop presses
    ub                                             \* history: undefined behaviour

uiVars == <<isRunning, isFinished, returnCode, progress>>
mainVars == <<mainPc, stopPtr, launched>>
ioVars == <<args, failed, result, finalMsg, client, joinOn>>
jniVars == <<global_test, reader_thread, stop_requested, optindStale>>
testVars == <<heap, outfile, proto, forced, done>>
pipeVars == <<buffered, closed, reader>>
histVars == <<stopAsked, marked, ub>>
vars == <<uiVars, isIperfRunning, mainVars, ioPc, ioVars, jniVars, testVars,
          pipeVars, histVars>>

Init ==
    /\ isRunning = FALSE /\ isFinished = FALSE
    /\ returnCode = "ok" /\ progress = "part"
    /\ isIperfRunning = FALSE
    /\ mainPc = "idle" /\ stopPtr = NULL /\ launched = 0
    /\ ioPc = [r \in Run |-> "none"]
    /\ args = [r \in Run |-> "good"]
    /\ failed = [r \in Run |-> FALSE]
    /\ result = [r \in Run |-> "ok"]
    /\ finalMsg = [r \in Run |-> "none"]
    /\ client = [r \in Run |-> NULL]
    /\ joinOn = [r \in Run |-> NULL]
    /\ global_test = NULL /\ reader_thread = NULL
    /\ stop_requested = FALSE /\ optindStale = FALSE
    /\ heap = [r \in Run |-> "none"]
    /\ outfile = [r \in Run |-> NULL]
    /\ proto = [r \in Run |-> "start"]
    /\ forced = [r \in Run |-> FALSE]
    /\ done = [r \in Run |-> FALSE]
    /\ buffered = [r \in Run |-> 0]
    /\ closed = [r \in Run |-> FALSE]
    /\ reader = [r \in Run |-> "none"]
    /\ stopAsked = {} /\ marked = {} /\ ub = {}

-----------------------------------------------------------------------------
(* Helpers *)

InFlight(r) == ioPc[r] \notin {"none", "joined"}
InNative(r) == ioPc[r] \in NativePc

Go(r, from, to) ==
    /\ ioPc[r] = from
    /\ ioPc' = [ioPc EXCEPT ![r] = to]

(* The value another thread reads in test->state. *)
TestState(t) == IF forced[t] THEN "done" ELSE proto[t]

(* Dereferencing a pointer to a test: a fault when the test was freed. *)
Touch(t) == ub' = IF heap[t] = "freed" THEN ub \cup {"freed"} ELSE ub

(* Mutant: rc is not set to -1. *)
OnErrorUnnoticed(r) ==
    /\ isIperfRunning' = FALSE
    /\ UNCHANGED failed
    /\ progress' = "full"

(* Mutant: the progress value is left where it was. *)
OnErrorMidway(r) ==
    /\ isIperfRunning' = FALSE
    /\ failed' = [failed EXCEPT ![r] = TRUE]
    /\ UNCHANGED progress

(* onError as startTest passes it: the run is over for Kotlin, rc = -1. *)
OnError(r) ==
    /\ isIperfRunning' = FALSE
    /\ failed' = [failed EXCEPT ![r] = TRUE]
    /\ progress' = "full"

-----------------------------------------------------------------------------
(* Main thread: launchOrCancel and what it calls.  Each handler is atomic   *)
(* for the other handlers; between two accesses to state shared with the    *)
(* IO and reader threads those threads may run.                             *)

(* Mutant: the button always launches. *)
AlwaysLaunch ==
    /\ mainPc = "idle"
    /\ launched < MaxRuns
    /\ Patient => \A r \in Run : ~InFlight(r)

LaunchAllowed ==
    /\ mainPc = "idle"
    /\ ~isRunning
    /\ launched < MaxRuns
    /\ Patient => \A r \in Run : ~InFlight(r)

(* Mutant: isFinished is left over from the last run. *)
LaunchOverOldResult(a) ==
    LET r == launched + 1 IN
    /\ LaunchAllowed
    /\ a \in Inputs
    /\ launched' = r
    /\ isRunning' = TRUE /\ UNCHANGED isFinished
    /\ returnCode' = "ok" /\ progress' = "part"
    /\ isIperfRunning' = TRUE
    /\ ioPc' = [ioPc EXCEPT ![r] = "dispatched"]
    /\ args' = [args EXCEPT ![r] = a]
    /\ mainPc' = "launch"
    /\ UNCHANGED <<stopPtr, failed, result, finalMsg, client, joinOn, jniVars,
                   testVars, pipeVars, histVars>>

(* launch(), runIperf3() and startTest() up to the dispatch of runJob: "bad" *)
(* arguments are refused inside the option loop of iperf_parse_arguments.    *)
Launch(a) ==
    LET r == launched + 1 IN
    /\ LaunchAllowed
    /\ a \in Inputs
    /\ launched' = r
    /\ isRunning' = TRUE /\ isFinished' = FALSE
    /\ returnCode' = "ok" /\ progress' = "part"
    /\ isIperfRunning' = TRUE
    /\ ioPc' = [ioPc EXCEPT ![r] = "dispatched"]
    /\ args' = [args EXCEPT ![r] = a]
    /\ mainPc' = "launch"
    /\ UNCHANGED <<stopPtr, failed, result, finalMsg, client, joinOn, jniVars,
                   testVars, pipeVars, histVars>>

(* A duration outside 1 s .. 12 h: startTest returns -1 before it suspends, *)
(* so launch() ends with the run already reported.                          *)
LaunchBadDuration ==
    LET r == launched + 1 IN
    /\ LaunchAllowed
    /\ "duration" \in Inputs
    /\ launched' = r
    /\ isRunning' = FALSE /\ isFinished' = TRUE
    /\ returnCode' = "error" /\ progress' = "full"
    /\ ioPc' = [ioPc EXCEPT ![r] = "joined"]
    /\ failed' = [failed EXCEPT ![r] = TRUE]
    /\ UNCHANGED <<isIperfRunning, mainPc, stopPtr, args, result, finalMsg,
                   client, joinOn, jniVars, testVars, pipeVars, histVars>>

(* startTest after CoroutineScope.launch: isIperfRunning = false, then join *)
Suspend ==
    /\ mainPc = "launch"
    /\ mainPc' = "idle"
    /\ isIperfRunning' = FALSE
    /\ UNCHANGED <<uiVars, stopPtr, launched, ioPc, ioVars, jniVars, testVars,
                   pipeVars, histVars>>

(* Mutant: runIperf3 drops the return code. *)
ResumeAlwaysOk(r) ==
    /\ mainPc = "idle"
    /\ Go(r, "done", "joined")
    /\ returnCode' = "ok"
    /\ isRunning' = FALSE /\ isFinished' = TRUE
    /\ UNCHANGED <<progress, isIperfRunning, mainVars, ioVars, jniVars,
                   testVars, pipeVars, histVars>>

(* Mutant: the Stop button stays. *)
ResumeStillRunning(r) ==
    /\ mainPc = "idle"
    /\ Go(r, "done", "joined")
    /\ returnCode' = IF failed[r] THEN "error" ELSE "ok"
    /\ isFinished' = TRUE
    /\ UNCHANGED <<isRunning, progress, isIperfRunning, mainVars, ioVars, jniVars,
                   testVars, pipeVars, histVars>>

(* runJob.join() returns: the rest of startTest and runIperf3 *)
Resume(r) ==
    /\ mainPc = "idle"
    /\ Go(r, "done", "joined")
    /\ returnCode' = IF failed[r] THEN "error" ELSE "ok"
    /\ isRunning' = FALSE /\ isFinished' = TRUE
    /\ UNCHANGED <<progress, isIperfRunning, mainVars, ioVars, jniVars,
                   testVars, pipeVars, histVars>>

(* cancel(): the UI is finished at once; IperfTestManage.cancelTest goes on *)
(* to forceStop only if it reads isIperfRunning = true.                     *)
Stop ==
    /\ launched \in Stoppable
    /\ mainPc = "idle"
    /\ isRunning
    /\ returnCode' = "error"
    /\ isRunning' = FALSE /\ isFinished' = TRUE
    /\ stopAsked' = stopAsked \cup {launched}
    /\ mainPc' = IF isIperfRunning THEN "request" ELSE "idle"
    /\ UNCHANGED <<progress, isIperfRunning, stopPtr, launched, ioPc, ioVars,
                   jniVars, testVars, pipeVars, marked, ub>>

(* forceStop, first half: stop_requested = true *)
RequestStop ==
    /\ mainPc = "request"
    /\ mainPc' = "check"
    /\ stop_requested' = TRUE
    /\ UNCHANGED <<uiVars, isIperfRunning, stopPtr, launched, ioPc, ioVars,
                   global_test, reader_thread, optindStale, testVars, pipeVars,
                   histVars>>

(* forceStop: if (global_test && ... *)
CheckTest ==
    /\ mainPc = "check"
    /\ mainPc' = IF global_test = NULL THEN "idle" ELSE "peek"
    /\ stopPtr' = global_test
    /\ UNCHANGED <<uiVars, isIperfRunning, launched, ioPc, ioVars, jniVars,
                   testVars, pipeVars, histVars>>

(* forceStop names global_test three more times.  It is read again each     *)
(* time, or a compiler keeps what it read last: no call comes in between.   *)
Reread == {stopPtr, global_test} \ {NULL}

StopTouch(t) ==
    ub' = IF heap[t] = "freed" THEN ub \cup {"stopFreed"} ELSE ub

(* ... !global_test->done): in freed memory anything may stand *)
PeekDone ==
    /\ mainPc = "peek"
    /\ \E t \in Reread :
         /\ StopTouch(t)
         /\ \/ /\ heap[t] = "freed" \/ done[t]
               /\ mainPc' = "idle" /\ stopPtr' = NULL
            \/ /\ heap[t] = "freed" \/ ~done[t]
               /\ mainPc' = "mark" /\ stopPtr' = t
    /\ UNCHANGED <<uiVars, isIperfRunning, launched, ioPc, ioVars, jniVars,
                   testVars, pipeVars, stopAsked, marked>>

(* forceStop: global_test->done = 1 *)
MarkDone ==
    /\ mainPc = "mark"
    /\ mainPc' = "send"
    /\ \E t \in Reread :
         /\ stopPtr' = t
         /\ done' = [done EXCEPT ![t] = TRUE]
         /\ marked' = marked \cup {t}
         /\ StopTouch(t)
    /\ UNCHANGED <<uiVars, isIperfRunning, launched, ioPc, ioVars, jniVars,
                   heap, outfile, proto, forced, pipeVars, stopAsked>>

(* forceStop: iperf_set_send_state(global_test, IPERF_DONE), which does     *)
(* nothing while ctrl_sck < 0, that is before iperf_connect has succeeded.  *)
SendDone ==
    /\ mainPc = "send"
    /\ mainPc' = "idle"
    /\ stopPtr' = NULL
    /\ \E t \in Reread :
         /\ forced' = [forced EXCEPT ![t] = @ \/ proto[t] # "start"]
         /\ StopTouch(t)
    /\ UNCHANGED <<uiVars, isIperfRunning, launched, ioPc, ioVars, jniVars,
                   heap, outfile, proto, done, pipeVars, stopAsked, marked>>

(* The IO thread has set global_test = NULL since forceStop tested it:      *)
(* SIGSEGV, the process is gone.  The other threads still step in the       *)
(* model, which adds behaviours and hides none; nothing is said of them.    *)
StopOnNull ==
    /\ mainPc \in {"peek", "mark", "send"}
    /\ global_test = NULL
    /\ mainPc' = "gone"
    /\ ub' = ub \cup {"stopNull"}
    /\ UNCHANGED <<uiVars, isIperfRunning, stopPtr, launched, ioPc, ioVars,
                   jniVars, testVars, pipeVars, stopAsked, marked>>

-----------------------------------------------------------------------------
(* IO thread of run r: runIperfLive *)

(* runJob starts: isIperfRunning = true, then runIperfLive *)
StartJob(r) ==
    /\ Go(r, "dispatched", "new")
    /\ isIperfRunning' = TRUE
    /\ UNCHANGED <<uiVars, mainVars, ioVars, jniVars, testVars, pipeVars,
                   histVars>>

(* iperf_new_test and iperf_defaults *)
NewTest(r) ==
    /\ Go(r, "new", "pipe")
    /\ global_test' = r
    /\ heap' = [heap EXCEPT ![r] = "live"]
    /\ UNCHANGED <<uiVars, isIperfRunning, mainVars, ioVars, reader_thread,
                   stop_requested, optindStale, outfile, proto, forced, done,
                   pipeVars, histVars>>

(* Mutant: no return after onError. *)
NewTestFailsThrough(r) ==
    /\ Go(r, "new", "pipe")
    /\ global_test' = NULL
    /\ OnError(r)
    /\ UNCHANGED <<isRunning, isFinished, returnCode, mainVars, args, result,
                   finalMsg, client, joinOn, reader_thread, stop_requested,
                   optindStale, testVars, pipeVars, histVars>>

(* iperf_new_test returns NULL: onError, and return without onComplete *)
NewTestFails(r) ==
    /\ Go(r, "new", "done")
    /\ global_test' = NULL
    /\ OnError(r)
    /\ UNCHANGED <<isRunning, isFinished, returnCode, mainVars, args, result,
                   finalMsg, client, joinOn, reader_thread, stop_requested,
                   optindStale, testVars, pipeVars, histVars>>

(* pipe, fdopen, global_test->outfile = fp *)
MakePipe(r) ==
    /\ global_test # NULL
    /\ Go(r, "pipe", "parse")
    /\ outfile' = [outfile EXCEPT ![global_test] = r]
    /\ Touch(global_test)
    /\ UNCHANGED <<uiVars, isIperfRunning, mainVars, ioVars, jniVars, heap,
                   proto, forced, done, pipeVars, stopAsked, marked>>

PipeFails(r) ==
    /\ Go(r, "pipe", "discard")
    /\ OnError(r)
    /\ UNCHANGED <<isRunning, isFinished, returnCode, mainVars, args, result,
                   finalMsg, client, joinOn, jniVars, testVars, pipeVars,
                   histVars>>

(* iperf_parse_arguments resets optind only after the option loop: refused  *)
(* inside the loop it leaves optind behind, and the next call starts there, *)
(* misses --client and is refused (IENOROLE) after the reset; arguments that *)
(* are bad again may or may not lie behind the stale index.  fclose(fp).     *)
Accept(r) ==
    /\ global_test # NULL
    /\ args[r] = "good" /\ ~optindStale
    /\ Go(r, "parse", "reader")
    /\ Touch(global_test)
    /\ UNCHANGED <<uiVars, isIperfRunning, mainVars, ioVars, jniVars, testVars,
                   pipeVars, stopAsked, marked>>

Reject(r) ==
    /\ global_test # NULL
    /\ args[r] = "bad" \/ optindStale
    /\ optindStale' \in IF args[r] = "good" THEN {FALSE}
                        ELSE IF optindStale THEN BOOLEAN ELSE {TRUE}
    /\ Go(r, "parse", "discard")
    /\ closed' = [closed EXCEPT ![r] = TRUE]
    /\ OnError(r)
    /\ Touch(global_test)
    /\ UNCHANGED <<isRunning, isFinished, returnCode, mainVars, args, result,
                   finalMsg, client, joinOn, global_test, reader_thread,
                   stop_requested, testVars, buffered, reader, stopAsked, marked>>

(* Mutant: no return after iperf_free_test. *)
DiscardThrough(r) ==
    /\ global_test # NULL
    /\ Go(r, "discard", "reader")
    /\ heap' = [heap EXCEPT ![global_test] = "freed"]
    /\ Touch(global_test)
    /\ UNCHANGED <<uiVars, isIperfRunning, mainVars, ioVars, jniVars, outfile,
                   proto, forced, done, pipeVars, stopAsked, marked>>

(* Mutant: iperf_free_test is forgotten on the early return. *)
DiscardLeaks(r) ==
    /\ global_test # NULL
    /\ Go(r, "discard", "done")
    /\ Touch(global_test)
    /\ UNCHANGED <<uiVars, isIperfRunning, mainVars, ioVars, jniVars, heap, outfile,
                   proto, forced, done, pipeVars, stopAsked, marked>>

(* iperf_free_test and return: global_test keeps the freed address,         *)
(* stop_requested keeps its value, onComplete is not called.                *)
Discard(r) ==
    /\ global_test # NULL
    /\ Go(r, "discard", "done")
    /\ heap' = [heap EXCEPT ![global_test] = "freed"]
    /\ Touch(global_test)
    /\ UNCHANGED <<uiVars, isIperfRunning, mainVars, ioVars, jniVars, outfile,
                   proto, forced, done, pipeVars, stopAsked, marked>>

(* tempDir, pthread_create(&reader_thread), onOutput("Initiating ...") *)
StartReader(r) ==
    /\ global_test # NULL
    /\ Go(r, "reader", "enter")
    /\ Touch(global_test)
    /\ reader' = [reader EXCEPT ![r] = "running"]
    /\ reader_thread' = r
    /\ progress' \in Progress
    /\ UNCHANGED <<isRunning, isFinished, returnCode, isIperfRunning, mainVars,
                   ioVars, global_test, stop_requested, optindStale, testVars,
                   buffered, closed, stopAsked, marked>>

(* A NULL global_test dereferenced above: SIGSEGV, the process is gone and  *)
(* nothing is claimed of what follows.                                      *)
NullDereference(r) ==
    /\ "null" \notin ub
    /\ ioPc[r] \in {"pipe", "parse", "discard", "reader"}
    /\ global_test = NULL
    /\ ub' = ub \cup {"null"}
    /\ UNCHANGED <<uiVars, isIperfRunning, mainVars, ioPc, ioVars, jniVars,
                   testVars, pipeVars, stopAsked, marked>>

(* iperf_run_client(global_test): a NULL argument makes it return -1 *)
EnterClient(r) ==
    /\ Go(r, "enter", IF global_test = NULL THEN "after" ELSE "connect")
    /\ client' = [client EXCEPT ![r] = global_test]
    /\ result' = [result EXCEPT ![r] = IF global_test = NULL THEN "error" ELSE @]
    /\ UNCHANGED <<uiVars, isIperfRunning, mainVars, args, failed, finalMsg,
                   joinOn, jniVars, testVars, pipeVars, histVars>>

-----------------------------------------------------------------------------
(* iperf_run_client, seen from outside; t is the test it was given *)

Connect(r) ==
    LET t == client[r] IN
    /\ Go(r, "connect", "loop")
    /\ proto' = [proto EXCEPT ![t] = IF @ = "start" THEN "setup" ELSE @]
    /\ Touch(t)
    /\ UNCHANGED <<uiVars, isIperfRunning, mainVars, ioVars, jniVars, heap,
                   outfile, forced, done, pipeVars, stopAsked, marked>>

(* Refused, timed out, or the control connection lost: cleanup_and_fail *)
ClientFails(r) ==
    /\ \/ Go(r, "connect", "after")
       \/ Go(r, "select", "after")
    /\ result' = [result EXCEPT ![r] = "error"]
    /\ Touch(client[r])
    /\ UNCHANGED <<uiVars, isIperfRunning, mainVars, args, failed, finalMsg,
                   client, joinOn, jniVars, testVars, pipeVars, stopAsked,
                   marked>>

(* Mutant: the loop tests what the server said, not test->state. *)
LoopTestServer(r) ==
    LET t == client[r] IN
    /\ Go(r, "loop", IF proto[t] = "done" THEN "after" ELSE "select")
    /\ Touch(t)
    /\ UNCHANGED <<uiVars, isIperfRunning, mainVars, ioVars, jniVars, testVars,
                   pipeVars, stopAsked, marked>>

(* while (test->state != IPERF_DONE) *)
LoopTest(r) ==
    LET t == client[r] IN
    /\ Go(r, "loop", IF TestState(t) = "done" THEN "after" ELSE "select")
    /\ Touch(t)
    /\ UNCHANGED <<uiVars, isIperfRunning, mainVars, ioVars, jniVars, testVars,
                   pipeVars, stopAsked, marked>>

(* The state the server announces after each state it has reached.  In      *)
(* "running" it is the client that moves on, with TEST_END.                 *)
Announced == [setup |-> "armed", armed |-> "running", ending |-> "done"]

(* Mutant: every message of the server resets done. *)
ServerMessageForgets(r) ==
    LET t == client[r] IN
    /\ ioPc[r] = "select"
    /\ proto[t] \in DOMAIN Announced
    /\ Go(r, "select", "tick")
    /\ proto' = [proto EXCEPT ![t] = Announced[@]]
    /\ forced' = [forced EXCEPT ![t] = FALSE]
    /\ done' = [done EXCEPT ![t] = FALSE]
    /\ Touch(t)
    /\ UNCHANGED <<uiVars, isIperfRunning, mainVars, ioVars, jniVars, heap,
                   outfile, pipeVars, stopAsked, marked>>

(* iperf_handle_message_client: read() stores the server's message straight *)
(* into test->state; TEST_START creates the timers and sets done = 0;       *)
(* EXCHANGE_RESULTS and DISPLAY_RESULTS end in IPERF_DONE.                  *)
ServerMessage(r) ==
    LET t == client[r] IN
    /\ ioPc[r] = "select"
    /\ proto[t] \in DOMAIN Announced
    /\ Go(r, "select", "tick")
    /\ proto' = [proto EXCEPT ![t] = Announced[@]]
    /\ forced' = [forced EXCEPT ![t] = FALSE]
    /\ done' = [done EXCEPT ![t] = IF proto[t] = "setup" THEN FALSE ELSE @]
    /\ Touch(t)
    /\ UNCHANGED <<uiVars, isIperfRunning, mainVars, ioVars, jniVars, heap,
                   outfile, pipeVars, stopAsked, marked>>

(* select returns for a timer or a data socket *)
SelectReturns(r) ==
    /\ Go(r, "select", "tick")
    /\ UNCHANGED <<uiVars, isIperfRunning, mainVars, ioVars, jniVars, testVars,
                   pipeVars, histVars>>

(* tmr_run fires test_timer_proc: the duration (and the omit time) is over *)
TimerFires(r) ==
    LET t == client[r] IN
    /\ ioPc[r] = "tick"
    /\ TestState(t) = "running"
    /\ ~done[t]
    /\ done' = [done EXCEPT ![t] = TRUE]
    /\ Touch(t)
    /\ UNCHANGED <<uiVars, isIperfRunning, mainVars, ioPc, ioVars, jniVars,
                   heap, outfile, proto, forced, pipeVars, stopAsked, marked>>

(* The rest of one loop pass: n lines are reported; a running test that is  *)
(* done sends TEST_END.                                                     *)
Tick(r, n) ==
    LET t == client[r]
        o == outfile[t]
        over == TestState(t) = "running" /\ done[t]
    IN
    /\ Go(r, "tick", "loop")
    /\ IF n > 0 /\ o # NULL
         THEN /\ buffered[o] + n <= MaxLines
              /\ buffered' = [buffered EXCEPT ![o] = @ + n]
              /\ ub' = ub \cup (IF closed[o] THEN {"closed"} ELSE {})
                          \cup (IF heap[t] = "freed" THEN {"freed"} ELSE {})
         ELSE Touch(t) /\ UNCHANGED buffered
    /\ proto' = [proto EXCEPT ![t] = IF over THEN "ending" ELSE @]
    /\ UNCHANGED <<uiVars, isIperfRunning, mainVars, ioVars, jniVars, heap,
                   outfile, forced, done, closed, reader, stopAsked, marked>>

-----------------------------------------------------------------------------
(* runIperfLive after iperf_run_client *)

(* if (result < 0 && global_test) onError(...) *)
AfterClient(r) ==
    /\ Go(r, "after", "free")
    /\ IF result[r] = "error" /\ global_test # NULL
         THEN OnError(r)
         ELSE UNCHANGED <<isIperfRunning, failed, progress>>
    /\ UNCHANGED <<isRunning, isFinished, returnCode, mainVars, args, result,
                   finalMsg, client, joinOn, jniVars, testVars, pipeVars,
                   histVars>>

(* if (global_test) { iperf_free_test(global_test); ... *)
FreeTest(r) ==
    /\ Go(r, "free", IF global_test = NULL THEN "close" ELSE "forget")
    /\ IF global_test = NULL
         THEN UNCHANGED <<heap, ub>>
         ELSE /\ Touch(global_test)
              /\ heap' = [heap EXCEPT ![global_test] = "freed"]
    /\ UNCHANGED <<uiVars, isIperfRunning, mainVars, ioVars, jniVars, outfile,
                   proto, forced, done, pipeVars, stopAsked, marked>>

(* ... global_test = NULL; } *)
ForgetTest(r) ==
    /\ Go(r, "forget", "close")
    /\ global_test' = NULL
    /\ UNCHANGED <<uiVars, isIperfRunning, mainVars, ioVars, reader_thread,
                   stop_requested, optindStale, testVars, pipeVars, histVars>>

(* fclose(fp): end of file for the reader; then pthread_join(reader_thread) *)
ClosePipe(r) ==
    /\ Go(r, "close", "join")
    /\ closed' = [closed EXCEPT ![r] = TRUE]
    /\ joinOn' = [joinOn EXCEPT ![r] = reader_thread]
    /\ UNCHANGED <<uiVars, isIperfRunning, mainVars, args, failed, result,
                   finalMsg, client, jniVars, testVars, buffered, reader,
                   histVars>>

(* Mutant: the reader is detached, not joined. *)
DetachReader(r) ==
    LET w == joinOn[r] IN
    /\ Go(r, "join", "final")
    /\ IF w = NULL
         THEN UNCHANGED <<reader, ub>>
         ELSE /\ reader' = [reader EXCEPT ![w] = "joined"]
              /\ ub' = ub \cup (IF reader[w] = "joined" THEN {"rejoin"} ELSE {})
    /\ UNCHANGED <<uiVars, isIperfRunning, mainVars, ioVars, jniVars, testVars,
                   buffered, closed, stopAsked, marked>>

(* pthread_join returns: the thread has ended, or the id names none *)
JoinReader(r) ==
    LET w == joinOn[r] IN
    /\ Go(r, "join", "final")
    /\ IF w = NULL
         THEN UNCHANGED <<reader, ub>>
         ELSE /\ reader[w] \in {"exited", "joined"}
              /\ reader' = [reader EXCEPT ![w] = "joined"]
              /\ ub' = ub \cup (IF reader[w] = "joined" THEN {"rejoin"} ELSE {})
    /\ UNCHANGED <<uiVars, isIperfRunning, mainVars, ioVars, jniVars, testVars,
                   buffered, closed, stopAsked, marked>>

(* onOutput(finalMsg).  The second fclose(fp) that follows finds a closed   *)
(* FILE, on which bionic returns EBADF.                                     *)
FinalMessage(r) ==
    /\ Go(r, "final", "clear")
    /\ finalMsg' = [finalMsg EXCEPT ![r] =
                      IF stop_requested THEN "stopped"
                      ELSE IF result[r] = "error" THEN "failed"
                      ELSE "completed"]
    /\ progress' \in Progress
    /\ UNCHANGED <<isRunning, isFinished, returnCode, isIperfRunning, mainVars,
                   args, failed, result, client, joinOn, jniVars, testVars,
                   pipeVars, histVars>>

(* stop_requested = false; reader_thread = 0 *)
ClearStop(r) ==
    /\ Go(r, "clear", "complete")
    /\ stop_requested' = FALSE
    /\ reader_thread' = NULL
    /\ UNCHANGED <<uiVars, isIperfRunning, mainVars, ioVars, global_test,
                   optindStale, testVars, pipeVars, histVars>>

(* onComplete as startTest passes it; runJob ends *)
Complete(r) ==
    /\ Go(r, "complete", "done")
    /\ isIperfRunning' = FALSE
    /\ progress' = "full"
    /\ UNCHANGED <<isRunning, isFinished, returnCode, mainVars, ioVars, jniVars,
                   testVars, pipeVars, histVars>>

-----------------------------------------------------------------------------
(* Reader thread of run r: readerThreadFunc *)

(* Mutant: the NULL that fgets returns is not tested. *)
ReadPastEnd(r) ==
    /\ reader[r] = "running"
    /\ buffered' = [buffered EXCEPT ![r] = @ - 1]
    /\ progress' \in Progress
    /\ UNCHANGED <<isRunning, isFinished, returnCode, isIperfRunning, mainVars,
                   ioPc, ioVars, jniVars, testVars, closed, reader, histVars>>

(* fgets and onOutput: processLine, and perhaps a new progress value *)
ReadLine(r) ==
    /\ reader[r] = "running"
    /\ buffered[r] > 0
    /\ buffered' = [buffered EXCEPT ![r] = @ - 1]
    /\ progress' \in Progress
    /\ UNCHANGED <<isRunning, isFinished, returnCode, isIperfRunning, mainVars,
                   ioPc, ioVars, jniVars, testVars, closed, reader, histVars>>

(* fgets returns NULL at end of file *)
ReaderExits(r) ==
    /\ reader[r] = "running"
    /\ buffered[r] = 0
    /\ closed[r]
    /\ reader' = [reader EXCEPT ![r] = "exited"]
    /\ UNCHANGED <<uiVars, isIperfRunning, mainVars, ioPc, ioVars, jniVars,
                   testVars, buffered, closed, histVars>>

-----------------------------------------------------------------------------
MainNext ==
    \/ \E a \in {"good", "bad"} : Launch(a)
    \/ LaunchBadDuration
    \/ Suspend
    \/ \E r \in Run : Resume(r)
    \/ Stop
    \/ RequestStop
    \/ CheckTest \/ PeekDone \/ MarkDone \/ SendDone \/ StopOnNull

IoNext(r) ==
    \/ StartJob(r) \/ NewTest(r) \/ NewTestFails(r)
    \/ MakePipe(r) \/ PipeFails(r)
    \/ Accept(r) \/ Reject(r) \/ Discard(r)
    \/ StartReader(r) \/ NullDereference(r) \/ EnterClient(r)
    \/ Connect(r) \/ ClientFails(r) \/ LoopTest(r)
    \/ ServerMessage(r) \/ SelectReturns(r) \/ TimerFires(r)
    \/ \E n \in 0..1 : Tick(r, n)
    \/ AfterClient(r) \/ FreeTest(r) \/ ForgetTest(r) \/ ClosePipe(r)
    \/ JoinReader(r) \/ FinalMessage(r) \/ ClearStop(r) \/ Complete(r)

ReaderNext(r) == ReadLine(r) \/ ReaderExits(r)

(* Every Run press used and everything at rest: the app just waits; or the  *)
(* process is gone.                                                         *)
AtRest ==
    /\ \/ /\ mainPc = "idle" /\ launched = MaxRuns
          /\ \A r \in Run : ~InFlight(r) /\ reader[r] # "running"
       \/ mainPc = "gone"
    /\ UNCHANGED vars

Next ==
    \/ MainNext
    \/ \E r \in Run : IoNext(r) \/ ReaderNext(r)
    \/ AtRest

Spec == Init /\ [][Next]_vars

(***************************************************************************)
(* Fairness.  The Main looper, the IO threads and the reader threads are    *)
(* scheduled (weak fairness of whatever each can do).  The select loop      *)
(* passes through "select" and "tick" again and again, so what depends on   *)
(* time or on the server needs strong fairness: the duration timer fires,   *)
(* and a server that owes a state message sends it or drops the connection. *)
(* Nothing obliges the user to press a button.                              *)
(***************************************************************************)
MainStep ==
    \/ Suspend \/ RequestStop
    \/ CheckTest \/ PeekDone \/ MarkDone \/ SendDone \/ StopOnNull
    \/ \E r \in Run : Resume(r)

Fairness ==
    /\ WF_vars(MainStep)
    /\ \A r \in Run :
         /\ WF_vars(IoNext(r))
         /\ WF_vars(ReaderNext(r))
         /\ SF_vars(TimerFires(r))
         /\ SF_vars(ServerMessage(r))

FairSpec == Spec /\ Fairness

-----------------------------------------------------------------------------
(* Properties *)

(* Runs follow one another, either because the user never presses Stop or   *)
(* because the user waits for a stopped run to end.                         *)
Serial == Stoppable = {} \/ Patient

TypeOK ==
    /\ isRunning \in BOOLEAN /\ isFinished \in BOOLEAN
    /\ returnCode \in Outcome /\ progress \in Progress
    /\ isIperfRunning \in BOOLEAN
    /\ mainPc \in MainPc
    /\ stopPtr \in Pointer
    /\ launched \in Pointer
    /\ ioPc \in [Run -> IoPc]
    /\ args \in [Run -> {"good", "bad"}]
    /\ failed \in [Run -> BOOLEAN]
    /\ result \in [Run -> Outcome]
    /\ finalMsg \in [Run -> FinalMsg]
    /\ client \in [Run -> Pointer]
    /\ joinOn \in [Run -> Pointer]
    /\ global_test \in Pointer /\ reader_thread \in Pointer
    /\ stop_requested \in BOOLEAN /\ optindStale \in BOOLEAN
    /\ heap \in [Run -> Heap]
    /\ outfile \in [Run -> Pointer]
    /\ proto \in [Run -> Proto]
    /\ forced \in [Run -> BOOLEAN]
    /\ done \in [Run -> BOOLEAN]
    /\ buffered \in [Run -> Fill]
    /\ closed \in [Run -> BOOLEAN]
    /\ reader \in [Run -> Reader]
    /\ stopAsked \subseteq Pointer /\ marked \subseteq Pointer
    /\ ub \subseteq Faults

(* The Stop button is shown only while the last run launched has not been  *)
(* reported yet, whatever the user does (Iperf3RunViewModel.launch, cancel, *)
(* the end of runIperf3).                                                   *)
StopButtonMeansWork == isRunning => launched \in Run /\ InFlight(launched)

(* The Run/Stop button is the only thing that keeps two runs from sharing   *)
(* the C globals: at most one run, the last launched, is in flight.         *)
OneRunInFlight == \A r \in Run : InFlight(r) => r = launched

(* Without Stop the button tells the truth: it says Stop exactly while a    *)
(* run is in flight, and a run is reported finished only when the native    *)
(* code has returned.                                                       *)
ButtonTellsTruth ==
    /\ isRunning <=> \E r \in Run : InFlight(r)
    /\ isFinished => ~ \E r \in Run : InNative(r)

(* No thread reads or writes a freed or NULL test, prints to a closed pipe  *)
(* or joins a thread twice (runIperfLive, forceStop).                       *)
NoFault == ub = {}

(* When one run at a time uses the globals, runIperfLive never faults: what *)
(* is left is a forceStop that comes too late.  It may use a freed test, or *)
(* a NULL in place of the test that it saw and that has been freed since.   *)
OnlyStaleStop ==
    /\ ub \subseteq {"stopFreed", "stopNull"}
    /\ mainPc = "gone" => heap[stopPtr] = "freed"

(* Every line a run printed has gone through onOutput, and its reader has   *)
(* been joined, before the final message and onComplete.                    *)
OutputComplete ==
    \A r \in Run :
        /\ ioPc[r] \in {"final", "clear", "complete", "done", "joined"}
        /\ reader[r] # "none"
        => reader[r] = "joined" /\ buffered[r] = 0

(* The test of a run that has ended has been freed, on every path out of    *)
(* runIperfLive: refused arguments, failed connection, stop, normal end.    *)
NothingLeaked ==
    \A r \in Run : ioPc[r] \in {"done", "joined"} => heap[r] # "live"

(* The native verdict and the Kotlin one are formed on two threads from two *)
(* variables: a run not announced as stopped is reported as an error        *)
(* exactly when the final message does not say it completed.                *)
OutcomeAgrees ==
    \A r \in Run :
        ioPc[r] \in {"clear", "complete"} /\ finalMsg[r] # "stopped"
        => (failed[r] <=> finalMsg[r] = "failed")

(* When nothing is in flight any more the last progress value is 1.0,       *)
(* although the reader, the IO thread and Main all write it.                *)
ProgressSettles ==
    isFinished /\ (\A r \in Run : ~InFlight(r)) => progress = "full"

(* What a user reads last about a run: "stopped by user" only if the user   *)
(* pressed Stop during that run.                                            *)
FinalMessageTruthful ==
    \A r \in Run : finalMsg[r] = "stopped" => r \in stopAsked

(* A stop that reached the test before its TEST_RUNNING keeps it from ever  *)
(* entering TEST_RUNNING.                                                   *)
StopSticks ==
    [][\A t \in Run : t \in marked /\ proto[t] # "running" => proto'[t] # "running"]_vars

(* Valid arguments are accepted, whatever the previous run's were.          *)
ValidArgsAccepted ==
    [][\A r \in Run :
         ioPc[r] = "parse" /\ ioPc'[r] # "parse" /\ args[r] = "good"
         => ioPc'[r] = "reader"]_vars

(* Stop during a run in native code reaches forceStop.                      *)
StopReaches ==
    [][isRunning /\ ~isRunning' /\ mainPc = "idle" /\ InNative(launched)
       => mainPc' = "request"]_vars

(* Every run that starts is reported to the UI in the end: no join, select  *)
(* or pipe holds it for ever, stopped or not, unless a Stop that came too   *)
(* late has ended the process.                                              *)
RunsEnd == \A r \in Run : InFlight(r) ~> ioPc[r] = "joined" \/ mainPc = "gone"

-----------------------------------------------------------------------------
(* The contract of a run, for a user who never presses Stop *)

Work ==
    IF launched = 0 THEN "idle"
    ELSE IF ioPc[launched] = "dispatched" THEN "queued"
    ELSE IF InNative(launched) THEN "native"
    ELSE IF ioPc[launched] = "done" THEN "ended" ELSE "idle"

Contract == INSTANCE RunContract WITH
    button <- IF isRunning THEN "Stop" ELSE "Run",
    work <- Work,
    verdict <- IF Work # "ended" THEN "none"
               ELSE IF failed[launched] THEN "error" ELSE "ok",
    outcome <- IF isFinished THEN returnCode ELSE "none"

(* The view model, the manager, the JNI bridge, the reader thread and the C *)
(* globals together do what RunContract says.                               *)
ImplementsContract == Contract!CSpec

-----------------------------------------------------------------------------
(* What iperf_run_client may do with the test of run r, see ClientEngine *)
Phases(r) == INSTANCE ClientPhases WITH phase <- proto[r], due <- done[r]

(* Every test, under every interleaving with forceStop, goes through the    *)
(* phases that the client engine in detail is shown to keep to as well.     *)
TestsFollowPhases ==
    /\ \A r \in Run : Phases(r)!PInit
    /\ [][\A r \in Run : Phases(r)!PStep]_vars
=============================================================================
