------------------------ MODULE RunLifecycleProofs ------------------------
(***************************************************************************)
(* Theorems about RunLifecycle, for any number of runs, any pipe capacity  *)
(* and any inputs.                                                         *)
(***************************************************************************)
EXTENDS RunLifecycle, TLAPS

(* The values the actions store; what matters of the sets is only that they *)
(* contain them.                                                            *)
LEMMA Values ==
    /\ "none" \in IoPc /\ "dispatched" \in IoPc /\ "done" \in IoPc
    /\ "joined" \in IoPc /\ "new" \in IoPc /\ "pipe" \in IoPc
    /\ "parse" \in IoPc /\ "discard" \in IoPc /\ "reader" \in IoPc
    /\ "enter" \in IoPc /\ "connect" \in IoPc /\ "loop" \in IoPc
    /\ "select" \in IoPc /\ "tick" \in IoPc /\ "after" \in IoPc
    /\ "free" \in IoPc /\ "forget" \in IoPc /\ "close" \in IoPc
    /\ "join" \in IoPc /\ "final" \in IoPc /\ "clear" \in IoPc
    /\ "complete" \in IoPc
    /\ "idle" \in MainPc /\ "launch" \in MainPc /\ "request" \in MainPc
    /\ "check" \in MainPc /\ "peek" \in MainPc /\ "mark" \in MainPc
    /\ "send" \in MainPc /\ "gone" \in MainPc
    /\ "start" \in Proto /\ "setup" \in Proto /\ "armed" \in Proto
    /\ "running" \in Proto /\ "ending" \in Proto /\ "done" \in Proto
    /\ "null" \in Faults /\ "freed" \in Faults /\ "closed" \in Faults
    /\ "rejoin" \in Faults /\ "stopNull" \in Faults /\ "stopFreed" \in Faults
    /\ "part" \in Progress /\ "full" \in Progress
    /\ "none" \in Heap /\ "live" \in Heap /\ "freed" \in Heap
    /\ "none" \in Reader /\ "running" \in Reader /\ "exited" \in Reader
    /\ "joined" \in Reader
    /\ "none" \in FinalMsg /\ "completed" \in FinalMsg /\ "stopped" \in FinalMsg
    /\ "failed" \in FinalMsg
    /\ "ok" \in Outcome /\ "error" \in Outcome
  BY DEF IoPc, Unborn, NativePc, MainPc, Proto, Faults, Progress, Heap, Reader,
     FinalMsg, Outcome

LEMMA Pointers ==
    /\ NULL \in Pointer /\ 0 \in Pointer
    /\ \A r \in Run : r \in Pointer /\ r # NULL
    /\ 0 \in Fill
    /\ \A p \in Pointer : p # NULL => p \in Run
  BY BoundsAssumption DEF NULL, Pointer, Run, Fill

LEMMA NextRun == ASSUME launched \in Pointer, LaunchAllowed
                 PROVE  launched + 1 \in Run /\ launched + 1 \in Pointer
  BY BoundsAssumption DEF Pointer, Run, LaunchAllowed

LEMMA Announcements == \A p \in DOMAIN Announced : Announced[p] \in Proto
  BY Values DEF Announced

LEMMA TypeInit == Init => TypeOK
<1> SUFFICES ASSUME Init PROVE TypeOK
  OBVIOUS
<1> USE Values, Pointers DEF Init
<1>1. /\ ioPc \in [Run -> IoPc] /\ finalMsg \in [Run -> FinalMsg]
      /\ args \in [Run -> {"good", "bad"}] /\ failed \in [Run -> BOOLEAN]
      /\ result \in [Run -> Outcome]
  OBVIOUS
<1>2. /\ client \in [Run -> Pointer] /\ joinOn \in [Run -> Pointer]
      /\ outfile \in [Run -> Pointer] /\ buffered \in [Run -> Fill]
  OBVIOUS
<1>3. /\ heap \in [Run -> Heap] /\ proto \in [Run -> Proto]
      /\ reader \in [Run -> Reader]
  OBVIOUS
<1>4. /\ forced \in [Run -> BOOLEAN] /\ done \in [Run -> BOOLEAN]
      /\ closed \in [Run -> BOOLEAN]
  OBVIOUS
<1> QED
  BY <1>1, <1>2, <1>3, <1>4 DEF TypeOK

LEMMA TypeNext == TypeOK /\ [Next]_vars => TypeOK'
<1> SUFFICES ASSUME TypeOK, [Next]_vars PROVE TypeOK'
  OBVIOUS
<1> USE Values, Pointers DEF TypeOK
<1>1. ASSUME NEW a \in {"good", "bad"}, Launch(a) PROVE TypeOK'
  <2>1. launched + 1 \in Run /\ launched + 1 \in Pointer
    BY <1>1, NextRun DEF Launch
  <2> QED
    BY <1>1, <2>1 DEF Launch, jniVars, testVars, pipeVars, histVars
<1>2. CASE LaunchBadDuration
  <2>1. launched + 1 \in Run /\ launched + 1 \in Pointer
    BY <1>2, NextRun DEF LaunchBadDuration
  <2> QED
    BY <1>2, <2>1 DEF LaunchBadDuration, jniVars, testVars, pipeVars, histVars
<1>3. CASE Suspend
  BY <1>3 DEF Suspend, uiVars, ioVars, jniVars, testVars, pipeVars, histVars
<1>4. ASSUME NEW r \in Run, Resume(r) PROVE TypeOK'
  BY <1>4 DEF Resume, Go, mainVars, ioVars, jniVars, testVars, pipeVars, histVars
<1>5. CASE Stop
  BY <1>5, UserAssumption DEF Run, Stop, ioVars, jniVars, testVars, pipeVars
<1>6. CASE RequestStop
  BY <1>6 DEF RequestStop, uiVars, ioVars, testVars, pipeVars, histVars
<1>7. CASE CheckTest
  BY <1>7 DEF CheckTest, uiVars, ioVars, jniVars, testVars, pipeVars, histVars
<1>8. CASE MarkDone
  BY <1>8 DEF MarkDone, Reread, StopTouch, uiVars, ioVars, jniVars, pipeVars
<1>9. CASE SendDone
  BY <1>9 DEF SendDone, Reread, StopTouch, uiVars, ioVars, jniVars, pipeVars
<1>40. CASE PeekDone
  BY <1>40 DEF PeekDone, Reread, StopTouch, uiVars, ioVars, jniVars, testVars, pipeVars
<1>41. CASE StopOnNull
  BY <1>41 DEF StopOnNull, uiVars, ioVars, jniVars, testVars, pipeVars
<1>10. ASSUME NEW r \in Run, StartJob(r) PROVE TypeOK'
  BY <1>10 DEF StartJob, Go, uiVars, mainVars, ioVars, jniVars, testVars, pipeVars, histVars
<1>11. ASSUME NEW r \in Run, NewTest(r) PROVE TypeOK'
  BY <1>11 DEF NewTest, Go, uiVars, mainVars, ioVars, pipeVars, histVars
<1>12. ASSUME NEW r \in Run, NewTestFails(r) PROVE TypeOK'
  BY <1>12 DEF NewTestFails, Go, OnError, mainVars, testVars, pipeVars, histVars
<1>13. ASSUME NEW r \in Run, MakePipe(r) PROVE TypeOK'
  BY <1>13 DEF MakePipe, Go, Touch, uiVars, mainVars, ioVars, jniVars, pipeVars
<1>14. ASSUME NEW r \in Run, PipeFails(r) PROVE TypeOK'
  BY <1>14 DEF PipeFails, Go, OnError, mainVars, jniVars, testVars, pipeVars, histVars
<1>15. ASSUME NEW r \in Run, Accept(r) PROVE TypeOK'
  BY <1>15 DEF Accept, Go, Touch, uiVars, mainVars, ioVars, jniVars, testVars, pipeVars
<1>16. ASSUME NEW r \in Run, Reject(r) PROVE TypeOK'
  BY <1>16 DEF Reject, Go, Touch, OnError, mainVars, testVars, pipeVars
<1>17. ASSUME NEW r \in Run, Discard(r) PROVE TypeOK'
  BY <1>17 DEF Discard, Go, Touch, uiVars, mainVars, ioVars, jniVars, pipeVars
<1>18. ASSUME NEW r \in Run, StartReader(r) PROVE TypeOK'
  BY <1>18 DEF StartReader, Go, Touch, mainVars, ioVars, testVars
<1>19. ASSUME NEW r \in Run, NullDereference(r) PROVE TypeOK'
  BY <1>19 DEF NullDereference, uiVars, mainVars, ioVars, jniVars, testVars, pipeVars
<1>20. ASSUME NEW r \in Run, EnterClient(r) PROVE TypeOK'
  BY <1>20 DEF EnterClient, Go, uiVars, mainVars, jniVars, testVars, pipeVars, histVars
<1>21. ASSUME NEW r \in Run, Connect(r) PROVE TypeOK'
  BY <1>21 DEF Connect, Go, Touch, uiVars, mainVars, ioVars, jniVars, pipeVars
<1>22. ASSUME NEW r \in Run, ClientFails(r) PROVE TypeOK'
  BY <1>22 DEF ClientFails, Go, Touch, uiVars, mainVars, jniVars, testVars, pipeVars
<1>23. ASSUME NEW r \in Run, LoopTest(r) PROVE TypeOK'
  BY <1>23 DEF LoopTest, Go, Touch, uiVars, mainVars, ioVars, jniVars, testVars, pipeVars
<1>24. ASSUME NEW r \in Run, ServerMessage(r) PROVE TypeOK'
  <2>1. proto' \in [Run -> Proto]
    BY <1>24, Announcements DEF ServerMessage
  <2> QED
    BY <1>24, <2>1 DEF ServerMessage, Go, Touch, uiVars, mainVars, ioVars, jniVars, pipeVars
<1>25. ASSUME NEW r \in Run, SelectReturns(r) PROVE TypeOK'
  BY <1>25 DEF SelectReturns, Go, uiVars, mainVars, ioVars, jniVars, testVars, pipeVars, histVars
<1>26. ASSUME NEW r \in Run, TimerFires(r) PROVE TypeOK'
  BY <1>26 DEF TimerFires, Touch, uiVars, mainVars, ioVars, jniVars, pipeVars
<1>27. ASSUME NEW r \in Run, NEW n \in 0..1, Tick(r, n) PROVE TypeOK'
  <2>1. buffered' \in [Run -> Fill]
    BY <1>27, BoundsAssumption DEF Tick, Fill
  <2>2. ub' \subseteq Faults
    BY <1>27 DEF Tick, Touch
  <2> QED
    BY <1>27, <2>1, <2>2 DEF Tick, Go, uiVars, mainVars, ioVars, jniVars
<1>28. ASSUME NEW r \in Run, AfterClient(r) PROVE TypeOK'
  BY <1>28 DEF AfterClient, Go, OnError, mainVars, jniVars, testVars, pipeVars, histVars
<1>29. ASSUME NEW r \in Run, FreeTest(r) PROVE TypeOK'
  BY <1>29 DEF FreeTest, Go, Touch, uiVars, mainVars, ioVars, jniVars, pipeVars
<1>30. ASSUME NEW r \in Run, ForgetTest(r) PROVE TypeOK'
  BY <1>30 DEF ForgetTest, Go, uiVars, mainVars, ioVars, testVars, pipeVars, histVars
<1>31. ASSUME NEW r \in Run, ClosePipe(r) PROVE TypeOK'
  BY <1>31 DEF ClosePipe, Go, uiVars, mainVars, jniVars, testVars, histVars
<1>32. ASSUME NEW r \in Run, JoinReader(r) PROVE TypeOK'
  BY <1>32 DEF JoinReader, Go, uiVars, mainVars, ioVars, jniVars, testVars
<1>33. ASSUME NEW r \in Run, FinalMessage(r) PROVE TypeOK'
  BY <1>33 DEF FinalMessage, Go, mainVars, jniVars, testVars, pipeVars, histVars
<1>34. ASSUME NEW r \in Run, ClearStop(r) PROVE TypeOK'
  BY <1>34 DEF ClearStop, Go, uiVars, mainVars, ioVars, testVars, pipeVars, histVars
<1>35. ASSUME NEW r \in Run, Complete(r) PROVE TypeOK'
  BY <1>35 DEF Complete, Go, mainVars, ioVars, jniVars, testVars, pipeVars, histVars
<1>36. ASSUME NEW r \in Run, ReadLine(r) PROVE TypeOK'
  <2>1. buffered' \in [Run -> Fill]
    BY <1>36, BoundsAssumption DEF ReadLine, Fill
  <2> QED
    BY <1>36, <2>1 DEF ReadLine, mainVars, ioVars, jniVars, testVars, histVars
<1>37. ASSUME NEW r \in Run, ReaderExits(r) PROVE TypeOK'
  BY <1>37 DEF ReaderExits, uiVars, mainVars, ioVars, jniVars, testVars, histVars
<1>38. CASE AtRest
  BY <1>38 DEF AtRest, vars, uiVars, mainVars, ioVars, jniVars, testVars, pipeVars, histVars
<1>39. CASE UNCHANGED vars
  BY <1>39 DEF vars, uiVars, mainVars, ioVars, jniVars, testVars, pipeVars, histVars
<1> QED
  BY <1>1, <1>2, <1>3, <1>4, <1>5, <1>6, <1>7, <1>8, <1>9, <1>10, <1>11, <1>12, <1>13, <1>14, <1>15, <1>16, <1>17, <1>18, <1>19, <1>20, <1>21, <1>22, <1>23, <1>24, <1>25, <1>26, <1>27, <1>28, <1>29, <1>30, <1>31, <1>32, <1>33, <1>34, <1>35, <1>36, <1>37, <1>38, <1>39, <1>40, <1>41 DEF Next, MainNext, IoNext, ReaderNext

(* Every variable keeps its type, in every run of the app. *)
THEOREM TypeCorrect == Spec => []TypeOK
<1>1. Init => TypeOK
  BY TypeInit
<1>2. TypeOK /\ [Next]_vars => TypeOK'
  BY TypeNext
<1> QED
  BY <1>1, <1>2, PTL DEF Spec

-----------------------------------------------------------------------------
(* Why the C globals are safe when runs do not overlap: the inductive       *)
(* invariant behind OneRunInFlight, OutputComplete, NothingLeaked,          *)
(* OutcomeAgrees and OnlyStaleStop.                                         *)

BeforeTest == {"none", "dispatched", "new"}
HasTest == {"pipe", "parse", "discard", "reader", "enter", "connect", "loop",
            "select", "tick", "after", "free"}
TestGone == {"close", "join", "final", "clear", "complete"}
Ended == {"done", "joined"}
BeforeReader == BeforeTest \cup {"pipe", "parse", "discard", "reader"}
WithReader == {"enter", "connect", "loop", "select", "tick", "after", "free",
               "forget", "close"}
Drained == {"final", "clear", "complete"}

(* Runs come one after another, and without Stop the button covers each *)
Alone ==
    /\ \A r \in Run : ioPc[r] = "none" <=> r > launched
    /\ \A r \in Run : InFlight(r) => r = launched
    /\ Stoppable = {} => /\ mainPc \in {"idle", "launch"}
                         /\ \A r \in Run : InFlight(r) => isRunning

(* The run in flight owns global_test and the test behind it *)
OwnsTest(r) ==
    /\ ioPc[r] \in BeforeTest => heap[r] = "none"
    /\ ioPc[r] \in HasTest => global_test = r /\ heap[r] = "live"
    /\ ioPc[r] = "forget" => global_test = r /\ heap[r] = "freed"
    /\ ioPc[r] \in TestGone => global_test = NULL /\ heap[r] = "freed"
    /\ ioPc[r] \in Ended => heap[r] # "live"
    /\ ioPc[r] \in ClientPc => client[r] = r

(* ... its pipe and its reader ... *)
OwnsReader(r) ==
    /\ outfile[r] \in {NULL, r}
    /\ ioPc[r] \in BeforeReader => reader[r] = "none"
    /\ ioPc[r] \in WithReader => reader[r] = "running" /\ reader_thread = r
    /\ ioPc[r] = "join" => reader[r] \in {"running", "exited"} /\ joinOn[r] = r
    /\ ioPc[r] \in Drained => reader[r] = "joined"
    /\ ioPc[r] \in Ended => reader[r] \in {"none", "joined"}
    /\ closed[r] => ioPc[r] \in {"discard", "join"} \cup Drained \cup Ended
    /\ reader[r] # "running" => buffered[r] = 0

(* ... and its verdict *)
OwnsVerdict(r) ==
    /\ ioPc[r] \in BeforeReader \cup ClientPc \cup {"enter", "after"}
         => failed[r] = (ioPc[r] = "discard")
    /\ ioPc[r] \in {"free", "forget"} \cup TestGone
         => (failed[r] <=> result[r] = "error")
    /\ ioPc[r] \in {"clear", "complete"} /\ finalMsg[r] # "stopped"
         => (finalMsg[r] = "failed" <=> result[r] = "error")

(* Forgotten pointers are left to forceStop *)
FaultsOnlyByStop ==
    ub \subseteq IF Stoppable = {} THEN {} ELSE {"stopFreed", "stopNull"}

(* What forceStop keeps of global_test is the test of the run, or one that   *)
(* has been freed since.                                                    *)
InStop == {"peek", "mark", "send", "gone"}
StopAims ==
    /\ global_test # NULL => heap[global_test] # "none"
    /\ mainPc \in InStop =>
         /\ stopPtr # NULL /\ heap[stopPtr] # "none"
         /\ heap[stopPtr] = "live" => global_test = stopPtr
    /\ mainPc = "gone" => heap[stopPtr] = "freed"

SerialInv ==
    /\ Alone
    /\ \A r \in Run : OwnsTest(r) /\ OwnsReader(r) /\ OwnsVerdict(r)
    /\ FaultsOnlyByStop
    /\ StopAims

(* An IO thread moves its own program counter only, and leaves to Main what *)
(* Main decides.                                                            *)
Frame(r) ==
    /\ InFlight(r) /\ InFlight(r)'
    /\ \A q \in Run : q # r => ioPc'[q] = ioPc[q]
    /\ UNCHANGED <<launched, mainPc, isRunning, isFinished, returnCode>>

LEMMA IoFrame == ASSUME TypeOK, NEW r \in Run, IoNext(r)
                 PROVE  Frame(r)
<1> USE DEF TypeOK, Frame, InFlight
<1>1. CASE StartJob(r)
  BY <1>1 DEF StartJob, Go, uiVars, mainVars
<1>2. CASE NewTest(r)
  BY <1>2 DEF NewTest, Go, uiVars, mainVars
<1>3. CASE NewTestFails(r)
  BY <1>3 DEF NewTestFails, Go, mainVars
<1>4. CASE MakePipe(r)
  BY <1>4 DEF MakePipe, Go, uiVars, mainVars
<1>5. CASE PipeFails(r)
  BY <1>5 DEF PipeFails, Go, mainVars
<1>6. CASE Accept(r)
  BY <1>6 DEF Accept, Go, uiVars, mainVars
<1>7. CASE Reject(r)
  BY <1>7 DEF Reject, Go, mainVars
<1>8. CASE Discard(r)
  BY <1>8 DEF Discard, Go, uiVars, mainVars
<1>9. CASE StartReader(r)
  BY <1>9 DEF StartReader, Go, mainVars
<1>10. CASE NullDereference(r)
  BY <1>10 DEF NullDereference, uiVars, mainVars
<1>11. CASE EnterClient(r)
  BY <1>11 DEF EnterClient, Go, uiVars, mainVars
<1>12. CASE Connect(r)
  BY <1>12 DEF Connect, Go, uiVars, mainVars
<1>13. CASE ClientFails(r)
  BY <1>13 DEF ClientFails, Go, uiVars, mainVars
<1>14. CASE LoopTest(r)
  BY <1>14 DEF LoopTest, Go, uiVars, mainVars
<1>15. CASE ServerMessage(r)
  BY <1>15 DEF ServerMessage, Go, uiVars, mainVars
<1>16. CASE SelectReturns(r)
  BY <1>16 DEF SelectReturns, Go, uiVars, mainVars
<1>17. CASE TimerFires(r)
  BY <1>17 DEF TimerFires, uiVars, mainVars
<1>18. ASSUME NEW n \in 0..1, Tick(r, n) PROVE Frame(r)
  BY <1>18 DEF Tick, Go, uiVars, mainVars
<1>19. CASE AfterClient(r)
  BY <1>19 DEF AfterClient, Go, mainVars
<1>20. CASE FreeTest(r)
  BY <1>20 DEF FreeTest, Go, uiVars, mainVars
<1>21. CASE ForgetTest(r)
  BY <1>21 DEF ForgetTest, Go, uiVars, mainVars
<1>22. CASE ClosePipe(r)
  BY <1>22 DEF ClosePipe, Go, uiVars, mainVars
<1>23. CASE JoinReader(r)
  BY <1>23 DEF JoinReader, Go, uiVars, mainVars
<1>24. CASE FinalMessage(r)
  BY <1>24 DEF FinalMessage, Go, mainVars
<1>25. CASE ClearStop(r)
  BY <1>25 DEF ClearStop, Go, uiVars, mainVars
<1>26. CASE Complete(r)
  BY <1>26 DEF Complete, Go, mainVars
<1> QED
  BY <1>1, <1>2, <1>3, <1>4, <1>5, <1>6, <1>7, <1>8, <1>9, <1>10, <1>11,
     <1>12, <1>13, <1>14, <1>15, <1>16, <1>17, <1>18, <1>19, <1>20, <1>21,
     <1>22, <1>23, <1>24, <1>25, <1>26 DEF IoNext

(* No Run press is taken while a run is in flight. *)
LEMMA AllEnded == ASSUME Serial, Alone, LaunchAllowed
                  PROVE  \A q \in Run : ~InFlight(q)
  BY DEF Serial, Alone, LaunchAllowed

LEMMA AloneNext == ASSUME TypeOK, Serial, Alone, [Next]_vars
                   PROVE  Alone'
<1> USE DEF Alone, InFlight, TypeOK
<1>1. ASSUME NEW a \in {"good", "bad"}, Launch(a) PROVE Alone'
  <2>1. \A q \in Run : ioPc[q] \in {"none", "joined"}
    BY <1>1, AllEnded DEF Launch
  <2>2. launched + 1 \in Run
    BY <1>1, NextRun DEF Launch
  <2>3. \A q \in Run : q > launched + 1 <=> q > launched /\ q # launched + 1
    BY DEF Run, Pointer
  <2> QED
    BY <1>1, <2>1, <2>2, <2>3 DEF Launch, LaunchAllowed
<1>2. CASE LaunchBadDuration
  <2>1. \A q \in Run : ioPc[q] \in {"none", "joined"}
    BY <1>2, AllEnded DEF LaunchBadDuration
  <2>2. launched + 1 \in Run
    BY <1>2, NextRun DEF LaunchBadDuration
  <2>3. \A q \in Run : q > launched + 1 <=> q > launched /\ q # launched + 1
    BY DEF Run, Pointer
  <2> QED
    BY <1>2, <2>1, <2>2, <2>3 DEF LaunchBadDuration, LaunchAllowed
<1>3. CASE Suspend
  BY <1>3 DEF Suspend, uiVars
<1>4. ASSUME NEW r \in Run, Resume(r) PROVE Alone'
  BY <1>4 DEF Resume, Go, mainVars
<1>5. CASE Stop
  BY <1>5 DEF Stop
<1>6. CASE RequestStop
  BY <1>6 DEF RequestStop, uiVars
<1>7. CASE CheckTest
  BY <1>7 DEF CheckTest, uiVars
<1>8. CASE MarkDone
  BY <1>8 DEF MarkDone, uiVars
<1>9. CASE SendDone
  BY <1>9 DEF SendDone, uiVars
<1>13. CASE PeekDone
  BY <1>13 DEF PeekDone, uiVars
<1>14. CASE StopOnNull
  BY <1>14 DEF StopOnNull, uiVars
<1>10. ASSUME NEW r \in Run, IoNext(r) PROVE Alone'
  BY <1>10, IoFrame DEF Frame
<1>11. ASSUME NEW r \in Run, ReaderNext(r) PROVE Alone'
  BY <1>11 DEF ReaderNext, ReadLine, ReaderExits, uiVars, mainVars
<1>12. CASE UNCHANGED vars
  BY <1>12 DEF vars, uiVars, mainVars
<1> QED
  BY <1>1, <1>2, <1>3, <1>4, <1>5, <1>6, <1>7, <1>8, <1>9, <1>10, <1>11, <1>12,
     <1>13, <1>14 DEF Next, MainNext, AtRest

LEMMA Bystanders == ASSUME TypeOK, Alone, NEW r \in Run, InFlight(r)
                    PROVE  \A q \in Run : q # r => ioPc[q] \in {"none", "joined"}
  BY DEF Alone, InFlight

(* The run in flight keeps global_test and its test to itself. *)
LEMMA TestNext ==
    ASSUME TypeOK, Serial, Alone, 
           \A q \in Run : OwnsTest(q), [Next]_vars
    PROVE  \A q \in Run : OwnsTest(q)'
<1> USE Bystanders DEF TypeOK, InFlight, OwnsTest, BeforeTest, HasTest, TestGone, Ended, ClientPc
<1>1. ASSUME NEW a \in {"good", "bad"}, Launch(a) PROVE \A q \in Run : OwnsTest(q)'
  <2>1. \A q \in Run : ioPc[q] \in {"none", "joined"}
    BY <1>1, AllEnded DEF Launch
  <2>2. launched + 1 \in Run /\ ioPc[launched + 1] = "none"
    BY <1>1, NextRun DEF Launch, Alone, Run, Pointer
  <2> QED
    BY <1>1, <2>1, <2>2 DEF Launch, jniVars, testVars
<1>2. CASE LaunchBadDuration
  <2>1. \A q \in Run : ioPc[q] \in {"none", "joined"}
    BY <1>2, AllEnded DEF LaunchBadDuration
  <2>2. launched + 1 \in Run /\ ioPc[launched + 1] = "none"
    BY <1>2, NextRun DEF LaunchBadDuration, Alone, Run, Pointer
  <2> QED
    BY <1>2, <2>1, <2>2 DEF LaunchBadDuration, jniVars, testVars
<1>3. CASE Suspend
  BY <1>3 DEF Suspend, ioVars, jniVars, testVars
<1>4. ASSUME NEW r \in Run, Resume(r) PROVE \A q \in Run : OwnsTest(q)'
  BY <1>4 DEF Resume, Go, ioVars, jniVars, testVars
<1>5. CASE Stop
  BY <1>5 DEF Stop, ioVars, jniVars, testVars
<1>6. CASE RequestStop
  BY <1>6 DEF RequestStop, ioVars, testVars
<1>7. CASE CheckTest
  BY <1>7 DEF CheckTest, ioVars, jniVars, testVars
<1>8. CASE MarkDone
  BY <1>8 DEF MarkDone, ioVars, jniVars
<1>9. CASE SendDone
  BY <1>9 DEF SendDone, ioVars, jniVars
<1>40. CASE PeekDone
  BY <1>40 DEF PeekDone, ioVars, jniVars, testVars
<1>41. CASE StopOnNull
  BY <1>41 DEF StopOnNull, ioVars, jniVars, testVars
<1>10. ASSUME NEW r \in Run, StartJob(r) PROVE \A q \in Run : OwnsTest(q)'
  BY <1>10 DEF StartJob, Go, ioVars, jniVars, testVars
<1>11. ASSUME NEW r \in Run, NewTest(r) PROVE \A q \in Run : OwnsTest(q)'
  BY <1>11 DEF NewTest, Go, ioVars
<1>12. ASSUME NEW r \in Run, NewTestFails(r) PROVE \A q \in Run : OwnsTest(q)'
  BY <1>12 DEF NewTestFails, Go, testVars
<1>13. ASSUME NEW r \in Run, MakePipe(r) PROVE \A q \in Run : OwnsTest(q)'
  BY <1>13 DEF MakePipe, Go, ioVars, jniVars
<1>14. ASSUME NEW r \in Run, PipeFails(r) PROVE \A q \in Run : OwnsTest(q)'
  BY <1>14 DEF PipeFails, Go, jniVars, testVars
<1>15. ASSUME NEW r \in Run, Accept(r) PROVE \A q \in Run : OwnsTest(q)'
  BY <1>15 DEF Accept, Go, ioVars, jniVars, testVars
<1>16. ASSUME NEW r \in Run, Reject(r) PROVE \A q \in Run : OwnsTest(q)'
  BY <1>16 DEF Reject, Go, testVars
<1>17. ASSUME NEW r \in Run, Discard(r) PROVE \A q \in Run : OwnsTest(q)'
  BY <1>17 DEF Discard, Go, ioVars, jniVars
<1>18. ASSUME NEW r \in Run, StartReader(r) PROVE \A q \in Run : OwnsTest(q)'
  BY <1>18 DEF StartReader, Go, ioVars, testVars
<1>19. ASSUME NEW r \in Run, NullDereference(r) PROVE \A q \in Run : OwnsTest(q)'
  BY <1>19 DEF NullDereference, ioVars, jniVars, testVars
<1>20. ASSUME NEW r \in Run, EnterClient(r) PROVE \A q \in Run : OwnsTest(q)'
  BY <1>20 DEF EnterClient, Go, jniVars, testVars
<1>21. ASSUME NEW r \in Run, Connect(r) PROVE \A q \in Run : OwnsTest(q)'
  BY <1>21 DEF Connect, Go, ioVars, jniVars
<1>22. ASSUME NEW r \in Run, ClientFails(r) PROVE \A q \in Run : OwnsTest(q)'
  BY <1>22 DEF ClientFails, Go, jniVars, testVars
<1>23. ASSUME NEW r \in Run, LoopTest(r) PROVE \A q \in Run : OwnsTest(q)'
  BY <1>23 DEF LoopTest, Go, ioVars, jniVars, testVars
<1>24. ASSUME NEW r \in Run, ServerMessage(r) PROVE \A q \in Run : OwnsTest(q)'
  BY <1>24 DEF ServerMessage, Go, ioVars, jniVars
<1>25. ASSUME NEW r \in Run, SelectReturns(r) PROVE \A q \in Run : OwnsTest(q)'
  BY <1>25 DEF SelectReturns, Go, ioVars, jniVars, testVars
<1>26. ASSUME NEW r \in Run, TimerFires(r) PROVE \A q \in Run : OwnsTest(q)'
  BY <1>26 DEF TimerFires, ioVars, jniVars
<1>27. ASSUME NEW r \in Run, NEW n \in 0..1, Tick(r, n) PROVE \A q \in Run : OwnsTest(q)'
  BY <1>27 DEF Tick, Go, ioVars, jniVars
<1>28. ASSUME NEW r \in Run, AfterClient(r) PROVE \A q \in Run : OwnsTest(q)'
  BY <1>28 DEF AfterClient, Go, jniVars, testVars
<1>29. ASSUME NEW r \in Run, FreeTest(r) PROVE \A q \in Run : OwnsTest(q)'
  <2>1. global_test = r /\ global_test # NULL /\ heap[r] = "live"
    BY <1>29, Pointers DEF FreeTest, Go
  <2>2. Go(r, "free", "forget") /\ heap' = [heap EXCEPT ![r] = "freed"]
    BY <1>29, <2>1 DEF FreeTest
  <2> QED
    BY <1>29, <2>1, <2>2 DEF FreeTest, Go, ioVars, jniVars
<1>30. ASSUME NEW r \in Run, ForgetTest(r) PROVE \A q \in Run : OwnsTest(q)'
  BY <1>30 DEF ForgetTest, Go, ioVars, testVars
<1>31. ASSUME NEW r \in Run, ClosePipe(r) PROVE \A q \in Run : OwnsTest(q)'
  BY <1>31 DEF ClosePipe, Go, jniVars, testVars
<1>32. ASSUME NEW r \in Run, JoinReader(r) PROVE \A q \in Run : OwnsTest(q)'
  BY <1>32 DEF JoinReader, Go, ioVars, jniVars, testVars
<1>33. ASSUME NEW r \in Run, FinalMessage(r) PROVE \A q \in Run : OwnsTest(q)'
  BY <1>33 DEF FinalMessage, Go, jniVars, testVars
<1>34. ASSUME NEW r \in Run, ClearStop(r) PROVE \A q \in Run : OwnsTest(q)'
  BY <1>34 DEF ClearStop, Go, ioVars, testVars
<1>35. ASSUME NEW r \in Run, Complete(r) PROVE \A q \in Run : OwnsTest(q)'
  BY <1>35 DEF Complete, Go, ioVars, jniVars, testVars
<1>36. ASSUME NEW r \in Run, ReadLine(r) PROVE \A q \in Run : OwnsTest(q)'
  BY <1>36 DEF ReadLine, ioVars, jniVars, testVars
<1>37. ASSUME NEW r \in Run, ReaderExits(r) PROVE \A q \in Run : OwnsTest(q)'
  BY <1>37 DEF ReaderExits, ioVars, jniVars, testVars
<1>38. CASE AtRest
  BY <1>38 DEF AtRest, vars, ioVars, jniVars, testVars
<1>39. CASE UNCHANGED vars
  BY <1>39 DEF vars, ioVars, jniVars, testVars
<1> QED
  BY <1>1, <1>2, <1>3, <1>4, <1>5, <1>6, <1>7, <1>8, <1>9, <1>10, <1>11,
     <1>12, <1>13, <1>14, <1>15, <1>16, <1>17, <1>18, <1>19, <1>20, <1>21,
     <1>22, <1>23, <1>24, <1>25, <1>26, <1>27, <1>28, <1>29, <1>30, <1>31,
     <1>32, <1>33, <1>34, <1>35, <1>36, <1>37, <1>38, <1>39, <1>40, <1>41 DEF Next,
     MainNext, IoNext, ReaderNext

(* Its pipe and its reader are its own, too. *)
LEMMA ReaderNextInv ==
    ASSUME TypeOK, Serial, Alone, 
           \A q \in Run : OwnsTest(q) /\ OwnsReader(q), [Next]_vars
    PROVE  \A q \in Run : OwnsReader(q)'
<1> USE Bystanders, Pointers DEF TypeOK, InFlight, OwnsReader, OwnsTest, BeforeTest, HasTest, ClientPc,
           BeforeReader, WithReader, Drained, Ended
<1>1. ASSUME NEW a \in {"good", "bad"}, Launch(a) PROVE \A q \in Run : OwnsReader(q)'
  <2>1. \A q \in Run : ioPc[q] \in {"none", "joined"}
    BY <1>1, AllEnded DEF Launch
  <2>2. launched + 1 \in Run /\ ioPc[launched + 1] = "none"
    BY <1>1, NextRun DEF Launch, Alone, Run, Pointer
  <2> QED
    BY <1>1, <2>1, <2>2 DEF Launch, jniVars, testVars, pipeVars
<1>2. CASE LaunchBadDuration
  <2>1. \A q \in Run : ioPc[q] \in {"none", "joined"}
    BY <1>2, AllEnded DEF LaunchBadDuration
  <2>2. launched + 1 \in Run /\ ioPc[launched + 1] = "none"
    BY <1>2, NextRun DEF LaunchBadDuration, Alone, Run, Pointer
  <2> QED
    BY <1>2, <2>1, <2>2 DEF LaunchBadDuration, jniVars, testVars, pipeVars
<1>3. CASE Suspend
  BY <1>3 DEF Suspend, ioVars, jniVars, testVars, pipeVars
<1>4. ASSUME NEW r \in Run, Resume(r) PROVE \A q \in Run : OwnsReader(q)'
  BY <1>4 DEF Resume, Go, ioVars, jniVars, testVars, pipeVars
<1>5. CASE Stop
  BY <1>5 DEF Stop, ioVars, jniVars, testVars, pipeVars
<1>6. CASE RequestStop
  BY <1>6 DEF RequestStop, ioVars, testVars, pipeVars
<1>7. CASE CheckTest
  BY <1>7 DEF CheckTest, ioVars, jniVars, testVars, pipeVars
<1>8. CASE MarkDone
  BY <1>8 DEF MarkDone, ioVars, jniVars, pipeVars
<1>9. CASE SendDone
  BY <1>9 DEF SendDone, ioVars, jniVars, pipeVars
<1>40. CASE PeekDone
  BY <1>40 DEF PeekDone, ioVars, jniVars, testVars, pipeVars
<1>41. CASE StopOnNull
  BY <1>41 DEF StopOnNull, ioVars, jniVars, testVars, pipeVars
<1>10. ASSUME NEW r \in Run, StartJob(r) PROVE \A q \in Run : OwnsReader(q)'
  BY <1>10 DEF StartJob, Go, ioVars, jniVars, testVars, pipeVars
<1>11. ASSUME NEW r \in Run, NewTest(r) PROVE \A q \in Run : OwnsReader(q)'
  BY <1>11 DEF NewTest, Go, ioVars, pipeVars
<1>12. ASSUME NEW r \in Run, NewTestFails(r) PROVE \A q \in Run : OwnsReader(q)'
  BY <1>12 DEF NewTestFails, Go, testVars, pipeVars
<1>13. ASSUME NEW r \in Run, MakePipe(r) PROVE \A q \in Run : OwnsReader(q)'
  BY <1>13 DEF MakePipe, Go, ioVars, jniVars, pipeVars
<1>14. ASSUME NEW r \in Run, PipeFails(r) PROVE \A q \in Run : OwnsReader(q)'
  BY <1>14 DEF PipeFails, Go, jniVars, testVars, pipeVars
<1>15. ASSUME NEW r \in Run, Accept(r) PROVE \A q \in Run : OwnsReader(q)'
  BY <1>15 DEF Accept, Go, ioVars, jniVars, testVars, pipeVars
<1>16. ASSUME NEW r \in Run, Reject(r) PROVE \A q \in Run : OwnsReader(q)'
  BY <1>16 DEF Reject, Go, testVars, pipeVars
<1>17. ASSUME NEW r \in Run, Discard(r) PROVE \A q \in Run : OwnsReader(q)'
  BY <1>17 DEF Discard, Go, ioVars, jniVars, pipeVars
<1>18. ASSUME NEW r \in Run, StartReader(r) PROVE \A q \in Run : OwnsReader(q)'
  BY <1>18 DEF StartReader, Go, ioVars, testVars
<1>19. ASSUME NEW r \in Run, NullDereference(r) PROVE \A q \in Run : OwnsReader(q)'
  BY <1>19 DEF NullDereference, ioVars, jniVars, testVars, pipeVars
<1>20. ASSUME NEW r \in Run, EnterClient(r) PROVE \A q \in Run : OwnsReader(q)'
  BY <1>20 DEF EnterClient, Go, jniVars, testVars, pipeVars
<1>21. ASSUME NEW r \in Run, Connect(r) PROVE \A q \in Run : OwnsReader(q)'
  BY <1>21 DEF Connect, Go, ioVars, jniVars, pipeVars
<1>22. ASSUME NEW r \in Run, ClientFails(r) PROVE \A q \in Run : OwnsReader(q)'
  BY <1>22 DEF ClientFails, Go, jniVars, testVars, pipeVars
<1>23. ASSUME NEW r \in Run, LoopTest(r) PROVE \A q \in Run : OwnsReader(q)'
  BY <1>23 DEF LoopTest, Go, ioVars, jniVars, testVars, pipeVars
<1>24. ASSUME NEW r \in Run, ServerMessage(r) PROVE \A q \in Run : OwnsReader(q)'
  BY <1>24 DEF ServerMessage, Go, ioVars, jniVars, pipeVars
<1>25. ASSUME NEW r \in Run, SelectReturns(r) PROVE \A q \in Run : OwnsReader(q)'
  BY <1>25 DEF SelectReturns, Go, ioVars, jniVars, testVars, pipeVars
<1>26. ASSUME NEW r \in Run, TimerFires(r) PROVE \A q \in Run : OwnsReader(q)'
  BY <1>26 DEF TimerFires, ioVars, jniVars, pipeVars
<1>27. ASSUME NEW r \in Run, NEW n \in 0..1, Tick(r, n) PROVE \A q \in Run : OwnsReader(q)'
  BY <1>27 DEF Tick, Go, ioVars, jniVars
<1>28. ASSUME NEW r \in Run, AfterClient(r) PROVE \A q \in Run : OwnsReader(q)'
  BY <1>28 DEF AfterClient, Go, jniVars, testVars, pipeVars
<1>29. ASSUME NEW r \in Run, FreeTest(r) PROVE \A q \in Run : OwnsReader(q)'
  BY <1>29 DEF FreeTest, Go, ioVars, jniVars, pipeVars
<1>30. ASSUME NEW r \in Run, ForgetTest(r) PROVE \A q \in Run : OwnsReader(q)'
  BY <1>30 DEF ForgetTest, Go, ioVars, testVars, pipeVars
<1>31. ASSUME NEW r \in Run, ClosePipe(r) PROVE \A q \in Run : OwnsReader(q)'
  BY <1>31 DEF ClosePipe, Go, jniVars, testVars
<1>32. ASSUME NEW r \in Run, JoinReader(r) PROVE \A q \in Run : OwnsReader(q)'
  BY <1>32 DEF JoinReader, Go, ioVars, jniVars, testVars
<1>33. ASSUME NEW r \in Run, FinalMessage(r) PROVE \A q \in Run : OwnsReader(q)'
  BY <1>33 DEF FinalMessage, Go, jniVars, testVars, pipeVars
<1>34. ASSUME NEW r \in Run, ClearStop(r) PROVE \A q \in Run : OwnsReader(q)'
  BY <1>34 DEF ClearStop, Go, ioVars, testVars, pipeVars
<1>35. ASSUME NEW r \in Run, Complete(r) PROVE \A q \in Run : OwnsReader(q)'
  BY <1>35 DEF Complete, Go, ioVars, jniVars, testVars, pipeVars
<1>36. ASSUME NEW r \in Run, ReadLine(r) PROVE \A q \in Run : OwnsReader(q)'
  BY <1>36 DEF ReadLine, ioVars, jniVars, testVars
<1>37. ASSUME NEW r \in Run, ReaderExits(r) PROVE \A q \in Run : OwnsReader(q)'
  BY <1>37 DEF ReaderExits, ioVars, jniVars, testVars
<1>38. CASE AtRest
  BY <1>38 DEF AtRest, vars, ioVars, jniVars, testVars, pipeVars
<1>39. CASE UNCHANGED vars
  BY <1>39 DEF vars, ioVars, jniVars, testVars, pipeVars
<1> QED
  BY <1>1, <1>2, <1>3, <1>4, <1>5, <1>6, <1>7, <1>8, <1>9, <1>10, <1>11,
     <1>12, <1>13, <1>14, <1>15, <1>16, <1>17, <1>18, <1>19, <1>20, <1>21,
     <1>22, <1>23, <1>24, <1>25, <1>26, <1>27, <1>28, <1>29, <1>30, <1>31,
     <1>32, <1>33, <1>34, <1>35, <1>36, <1>37, <1>38, <1>39, <1>40, <1>41 DEF Next,
     MainNext, IoNext, ReaderNext

(* onError before the client has run, on the way to an early return *)
LEMMA Refused ==
    ASSUME TypeOK, \A q \in Run : OwnsVerdict(q), NEW r \in Run,
           NEW to \in {"discard", "done"}, ioPc' = [ioPc EXCEPT ![r] = to],
           failed' = [failed EXCEPT ![r] = TRUE], UNCHANGED <<result, finalMsg>>
    PROVE  \A q \in Run : OwnsVerdict(q)'
<1>1. ASSUME NEW q \in Run, q # r PROVE OwnsVerdict(q)'
  <2>1. /\ ioPc'[q] = ioPc[q] /\ failed'[q] = failed[q]
        /\ result'[q] = result[q] /\ finalMsg'[q] = finalMsg[q]
    BY <1>1 DEF TypeOK
  <2>2. OwnsVerdict(q)
    OBVIOUS
  <2> QED
    BY <2>1, <2>2 DEF OwnsVerdict
<1>2. ioPc'[r] = to /\ failed'[r] = TRUE
  BY DEF TypeOK
<1>3. OwnsVerdict(r)'
  BY <1>2 DEF OwnsVerdict, BeforeReader, BeforeTest, ClientPc, TestGone
<1> QED
  BY <1>1, <1>3

(* What onError told Kotlin and what runIperfLive returns agree. *)
LEMMA VerdictNext ==
    ASSUME TypeOK, Serial, Alone, 
           \A q \in Run : OwnsTest(q) /\ OwnsVerdict(q), [Next]_vars
    PROVE  \A q \in Run : OwnsVerdict(q)'
<1> USE Bystanders, Pointers DEF TypeOK, InFlight, OwnsVerdict, OwnsTest, BeforeTest, BeforeReader, HasTest,
           TestGone, ClientPc, Outcome
<1>1. ASSUME NEW a \in {"good", "bad"}, Launch(a) PROVE \A q \in Run : OwnsVerdict(q)'
  <2>1. \A q \in Run : ioPc[q] \in {"none", "joined"}
    BY <1>1, AllEnded DEF Launch
  <2>2. launched + 1 \in Run /\ ioPc[launched + 1] = "none"
    BY <1>1, NextRun DEF Launch, Alone, Run, Pointer
  <2> QED
    BY <1>1, <2>1, <2>2 DEF Launch
<1>2. CASE LaunchBadDuration
  <2>1. \A q \in Run : ioPc[q] \in {"none", "joined"}
    BY <1>2, AllEnded DEF LaunchBadDuration
  <2>2. launched + 1 \in Run /\ ioPc[launched + 1] = "none"
    BY <1>2, NextRun DEF LaunchBadDuration, Alone, Run, Pointer
  <2> QED
    BY <1>2, <2>1, <2>2 DEF LaunchBadDuration
<1>3. CASE Suspend
  BY <1>3 DEF Suspend, ioVars
<1>4. ASSUME NEW r \in Run, Resume(r) PROVE \A q \in Run : OwnsVerdict(q)'
  BY <1>4 DEF Resume, Go, ioVars
<1>5. CASE Stop
  BY <1>5 DEF Stop, ioVars
<1>6. CASE RequestStop
  BY <1>6 DEF RequestStop, ioVars
<1>7. CASE CheckTest
  BY <1>7 DEF CheckTest, ioVars
<1>8. CASE MarkDone
  BY <1>8 DEF MarkDone, ioVars
<1>9. CASE SendDone
  BY <1>9 DEF SendDone, ioVars
<1>40. CASE PeekDone
  BY <1>40 DEF PeekDone, ioVars
<1>41. CASE StopOnNull
  BY <1>41 DEF StopOnNull, ioVars
<1>10. ASSUME NEW r \in Run, StartJob(r) PROVE \A q \in Run : OwnsVerdict(q)'
  BY <1>10 DEF StartJob, Go, ioVars
<1>11. ASSUME NEW r \in Run, NewTest(r) PROVE \A q \in Run : OwnsVerdict(q)'
  BY <1>11 DEF NewTest, Go, ioVars
<1>12. ASSUME NEW r \in Run, NewTestFails(r) PROVE \A q \in Run : OwnsVerdict(q)'
  <2>1. ioPc' = [ioPc EXCEPT ![r] = "done"]
    BY <1>12 DEF NewTestFails, Go
  <2>2. failed' = [failed EXCEPT ![r] = TRUE] /\ UNCHANGED <<result, finalMsg>>
    BY <1>12 DEF NewTestFails, OnError
  <2> QED
    BY <2>1, <2>2, Refused
<1>13. ASSUME NEW r \in Run, MakePipe(r) PROVE \A q \in Run : OwnsVerdict(q)'
  BY <1>13 DEF MakePipe, Go, ioVars
<1>14. ASSUME NEW r \in Run, PipeFails(r) PROVE \A q \in Run : OwnsVerdict(q)'
  <2>1. ioPc' = [ioPc EXCEPT ![r] = "discard"]
    BY <1>14 DEF PipeFails, Go
  <2>2. failed' = [failed EXCEPT ![r] = TRUE] /\ UNCHANGED <<result, finalMsg>>
    BY <1>14 DEF PipeFails, OnError
  <2> QED
    BY <2>1, <2>2, Refused
<1>15. ASSUME NEW r \in Run, Accept(r) PROVE \A q \in Run : OwnsVerdict(q)'
  BY <1>15 DEF Accept, Go, ioVars
<1>16. ASSUME NEW r \in Run, Reject(r) PROVE \A q \in Run : OwnsVerdict(q)'
  <2>1. ioPc' = [ioPc EXCEPT ![r] = "discard"]
    BY <1>16 DEF Reject, Go
  <2>2. failed' = [failed EXCEPT ![r] = TRUE] /\ UNCHANGED <<result, finalMsg>>
    BY <1>16 DEF Reject, OnError
  <2> QED
    BY <2>1, <2>2, Refused
<1>17. ASSUME NEW r \in Run, Discard(r) PROVE \A q \in Run : OwnsVerdict(q)'
  BY <1>17 DEF Discard, Go, ioVars
<1>18. ASSUME NEW r \in Run, StartReader(r) PROVE \A q \in Run : OwnsVerdict(q)'
  BY <1>18 DEF StartReader, Go, ioVars
<1>19. ASSUME NEW r \in Run, NullDereference(r) PROVE \A q \in Run : OwnsVerdict(q)'
  BY <1>19 DEF NullDereference, ioVars
<1>20. ASSUME NEW r \in Run, EnterClient(r) PROVE \A q \in Run : OwnsVerdict(q)'
  BY <1>20 DEF EnterClient, Go
<1>21. ASSUME NEW r \in Run, Connect(r) PROVE \A q \in Run : OwnsVerdict(q)'
  BY <1>21 DEF Connect, Go, ioVars
<1>22. ASSUME NEW r \in Run, ClientFails(r) PROVE \A q \in Run : OwnsVerdict(q)'
  BY <1>22 DEF ClientFails, Go
<1>23. ASSUME NEW r \in Run, LoopTest(r) PROVE \A q \in Run : OwnsVerdict(q)'
  BY <1>23 DEF LoopTest, Go, ioVars
<1>24. ASSUME NEW r \in Run, ServerMessage(r) PROVE \A q \in Run : OwnsVerdict(q)'
  BY <1>24 DEF ServerMessage, Go, ioVars
<1>25. ASSUME NEW r \in Run, SelectReturns(r) PROVE \A q \in Run : OwnsVerdict(q)'
  BY <1>25 DEF SelectReturns, Go, ioVars
<1>26. ASSUME NEW r \in Run, TimerFires(r) PROVE \A q \in Run : OwnsVerdict(q)'
  BY <1>26 DEF TimerFires, ioVars
<1>27. ASSUME NEW r \in Run, NEW n \in 0..1, Tick(r, n) PROVE \A q \in Run : OwnsVerdict(q)'
  BY <1>27 DEF Tick, Go, ioVars
<1>28. ASSUME NEW r \in Run, AfterClient(r) PROVE \A q \in Run : OwnsVerdict(q)'
  BY <1>28 DEF AfterClient, Go, OnError
<1>29. ASSUME NEW r \in Run, FreeTest(r) PROVE \A q \in Run : OwnsVerdict(q)'
  BY <1>29 DEF FreeTest, Go, ioVars
<1>30. ASSUME NEW r \in Run, ForgetTest(r) PROVE \A q \in Run : OwnsVerdict(q)'
  BY <1>30 DEF ForgetTest, Go, ioVars
<1>31. ASSUME NEW r \in Run, ClosePipe(r) PROVE \A q \in Run : OwnsVerdict(q)'
  BY <1>31 DEF ClosePipe, Go
<1>32. ASSUME NEW r \in Run, JoinReader(r) PROVE \A q \in Run : OwnsVerdict(q)'
  BY <1>32 DEF JoinReader, Go, ioVars
<1>33. ASSUME NEW r \in Run, FinalMessage(r) PROVE \A q \in Run : OwnsVerdict(q)'
  BY <1>33 DEF FinalMessage, Go
<1>34. ASSUME NEW r \in Run, ClearStop(r) PROVE \A q \in Run : OwnsVerdict(q)'
  BY <1>34 DEF ClearStop, Go, ioVars
<1>35. ASSUME NEW r \in Run, Complete(r) PROVE \A q \in Run : OwnsVerdict(q)'
  BY <1>35 DEF Complete, Go, ioVars
<1>36. ASSUME NEW r \in Run, ReadLine(r) PROVE \A q \in Run : OwnsVerdict(q)'
  BY <1>36 DEF ReadLine, ioVars
<1>37. ASSUME NEW r \in Run, ReaderExits(r) PROVE \A q \in Run : OwnsVerdict(q)'
  BY <1>37 DEF ReaderExits, ioVars
<1>38. CASE AtRest
  BY <1>38 DEF AtRest, vars, ioVars
<1>39. CASE UNCHANGED vars
  BY <1>39 DEF vars, ioVars
<1> QED
  BY <1>1, <1>2, <1>3, <1>4, <1>5, <1>6, <1>7, <1>8, <1>9, <1>10, <1>11,
     <1>12, <1>13, <1>14, <1>15, <1>16, <1>17, <1>18, <1>19, <1>20, <1>21,
     <1>22, <1>23, <1>24, <1>25, <1>26, <1>27, <1>28, <1>29, <1>30, <1>31,
     <1>32, <1>33, <1>34, <1>35, <1>36, <1>37, <1>38, <1>39, <1>40, <1>41 DEF Next,
     MainNext, IoNext, ReaderNext

(* No action adds a fault, except those of forceStop. *)
LEMMA FaultNext ==
    ASSUME TypeOK, Serial, Alone, \A q \in Run : OwnsTest(q) /\ OwnsReader(q),
           FaultsOnlyByStop, [Next]_vars
    PROVE  FaultsOnlyByStop'
<1> USE Pointers DEF TypeOK, OwnsTest, OwnsReader, HasTest, ClientPc, FaultsOnlyByStop
<1>1. ASSUME NEW a \in {"good", "bad"}, Launch(a) PROVE FaultsOnlyByStop'
  BY <1>1 DEF Launch, jniVars, testVars, histVars
<1>2. CASE LaunchBadDuration
  BY <1>2 DEF LaunchBadDuration, jniVars, testVars, histVars
<1>3. CASE Suspend
  BY <1>3 DEF Suspend, jniVars, testVars, histVars
<1>4. ASSUME NEW r \in Run, Resume(r) PROVE FaultsOnlyByStop'
  BY <1>4 DEF Resume, Go, jniVars, testVars, histVars
<1>5. CASE Stop
  BY <1>5 DEF Stop, jniVars, testVars
<1>6. CASE RequestStop
  BY <1>6 DEF RequestStop, testVars, histVars
<1>7. CASE CheckTest
  BY <1>7 DEF CheckTest, jniVars, testVars, histVars
<1>8. CASE MarkDone
  BY <1>8 DEF Alone, MarkDone, Reread, StopTouch, jniVars
<1>9. CASE SendDone
  BY <1>9 DEF Alone, SendDone, Reread, StopTouch, jniVars
<1>40. CASE PeekDone
  BY <1>40 DEF Alone, PeekDone, Reread, StopTouch, jniVars, testVars
<1>41. CASE StopOnNull
  BY <1>41 DEF Alone, StopOnNull, jniVars, testVars
<1>10. ASSUME NEW r \in Run, StartJob(r) PROVE FaultsOnlyByStop'
  BY <1>10 DEF StartJob, Go, jniVars, testVars, histVars
<1>11. ASSUME NEW r \in Run, NewTest(r) PROVE FaultsOnlyByStop'
  BY <1>11 DEF NewTest, Go, histVars
<1>12. ASSUME NEW r \in Run, NewTestFails(r) PROVE FaultsOnlyByStop'
  BY <1>12 DEF NewTestFails, Go, testVars, histVars
<1>13. ASSUME NEW r \in Run, MakePipe(r) PROVE FaultsOnlyByStop'
  BY <1>13 DEF MakePipe, Go, Touch, jniVars
<1>14. ASSUME NEW r \in Run, PipeFails(r) PROVE FaultsOnlyByStop'
  BY <1>14 DEF PipeFails, Go, jniVars, testVars, histVars
<1>15. ASSUME NEW r \in Run, Accept(r) PROVE FaultsOnlyByStop'
  BY <1>15 DEF Accept, Go, Touch, jniVars, testVars
<1>16. ASSUME NEW r \in Run, Reject(r) PROVE FaultsOnlyByStop'
  BY <1>16 DEF Reject, Go, Touch, testVars
<1>17. ASSUME NEW r \in Run, Discard(r) PROVE FaultsOnlyByStop'
  BY <1>17 DEF Discard, Go, Touch, jniVars
<1>18. ASSUME NEW r \in Run, StartReader(r) PROVE FaultsOnlyByStop'
  BY <1>18 DEF StartReader, Go, Touch, testVars
<1>19. ASSUME NEW r \in Run, NullDereference(r) PROVE FaultsOnlyByStop'
  BY <1>19 DEF NullDereference, jniVars, testVars
<1>20. ASSUME NEW r \in Run, EnterClient(r) PROVE FaultsOnlyByStop'
  BY <1>20 DEF EnterClient, Go, jniVars, testVars, histVars
<1>21. ASSUME NEW r \in Run, Connect(r) PROVE FaultsOnlyByStop'
  BY <1>21 DEF Connect, Go, Touch, jniVars
<1>22. ASSUME NEW r \in Run, ClientFails(r) PROVE FaultsOnlyByStop'
  BY <1>22 DEF ClientFails, Go, Touch, jniVars, testVars
<1>23. ASSUME NEW r \in Run, LoopTest(r) PROVE FaultsOnlyByStop'
  BY <1>23 DEF LoopTest, Go, Touch, jniVars, testVars
<1>24. ASSUME NEW r \in Run, ServerMessage(r) PROVE FaultsOnlyByStop'
  BY <1>24 DEF ServerMessage, Go, Touch, jniVars
<1>25. ASSUME NEW r \in Run, SelectReturns(r) PROVE FaultsOnlyByStop'
  BY <1>25 DEF SelectReturns, Go, jniVars, testVars, histVars
<1>26. ASSUME NEW r \in Run, TimerFires(r) PROVE FaultsOnlyByStop'
  BY <1>26 DEF TimerFires, Touch, jniVars
<1>27. ASSUME NEW r \in Run, NEW n \in 0..1, Tick(r, n) PROVE FaultsOnlyByStop'
  <2>1. client[r] = r /\ heap[r] = "live" /\ outfile[r] \in {NULL, r}
    BY <1>27 DEF Tick, Go
  <2>2. ~closed[r]
    BY <1>27 DEF Tick, Go, Drained, Ended
  <2>3. ub' = ub
    <3>1. CASE n > 0 /\ outfile[r] # NULL
      <4>1. outfile[r] = r
        BY <2>1, <3>1
      <4>2. closed[outfile[client[r]]] = FALSE /\ heap[client[r]] # "freed"
        BY <2>1, <2>2, <4>1
      <4>3. n > 0 /\ outfile[client[r]] # NULL
        BY <2>1, <3>1
      <4>4. ub' = ub \cup (IF closed[outfile[client[r]]] THEN {"closed"} ELSE {})
                    \cup (IF heap[client[r]] = "freed" THEN {"freed"} ELSE {})
        BY <1>27, <4>3 DEF Tick
      <4> QED
        BY <4>2, <4>4
    <3>2. CASE ~(n > 0 /\ outfile[r] # NULL)
      BY <1>27, <2>1, <3>2 DEF Tick, Touch
    <3> QED
      BY <3>1, <3>2
  <2> QED
    BY <2>3
<1>28. ASSUME NEW r \in Run, AfterClient(r) PROVE FaultsOnlyByStop'
  BY <1>28 DEF AfterClient, Go, jniVars, testVars, histVars
<1>29. ASSUME NEW r \in Run, FreeTest(r) PROVE FaultsOnlyByStop'
  BY <1>29 DEF FreeTest, Go, Touch, jniVars
<1>30. ASSUME NEW r \in Run, ForgetTest(r) PROVE FaultsOnlyByStop'
  BY <1>30 DEF ForgetTest, Go, testVars, histVars
<1>31. ASSUME NEW r \in Run, ClosePipe(r) PROVE FaultsOnlyByStop'
  BY <1>31 DEF ClosePipe, Go, jniVars, testVars, histVars
<1>32. ASSUME NEW r \in Run, JoinReader(r) PROVE FaultsOnlyByStop'
  BY <1>32 DEF JoinReader, Go, jniVars, testVars
<1>33. ASSUME NEW r \in Run, FinalMessage(r) PROVE FaultsOnlyByStop'
  BY <1>33 DEF FinalMessage, Go, jniVars, testVars, histVars
<1>34. ASSUME NEW r \in Run, ClearStop(r) PROVE FaultsOnlyByStop'
  BY <1>34 DEF ClearStop, Go, testVars, histVars
<1>35. ASSUME NEW r \in Run, Complete(r) PROVE FaultsOnlyByStop'
  BY <1>35 DEF Complete, Go, jniVars, testVars, histVars
<1>36. ASSUME NEW r \in Run, ReadLine(r) PROVE FaultsOnlyByStop'
  BY <1>36 DEF ReadLine, jniVars, testVars, histVars
<1>37. ASSUME NEW r \in Run, ReaderExits(r) PROVE FaultsOnlyByStop'
  BY <1>37 DEF ReaderExits, jniVars, testVars, histVars
<1>38. CASE AtRest
  BY <1>38 DEF AtRest, vars, jniVars, testVars, histVars
<1>39. CASE UNCHANGED vars
  BY <1>39 DEF vars, histVars
<1> QED
  BY <1>1, <1>2, <1>3, <1>4, <1>5, <1>6, <1>7, <1>8, <1>9, <1>10, <1>11,
     <1>12, <1>13, <1>14, <1>15, <1>16, <1>17, <1>18, <1>19, <1>20, <1>21,
     <1>22, <1>23, <1>24, <1>25, <1>26, <1>27, <1>28, <1>29, <1>30, <1>31,
     <1>32, <1>33, <1>34, <1>35, <1>36, <1>37, <1>38, <1>39, <1>40, <1>41 DEF Next,
     MainNext, IoNext, ReaderNext

(* A test becomes live, and global_test changes, in the run in flight only. *)
LEMMA AimsNext ==
    ASSUME TypeOK, Serial, Alone, \A q \in Run : OwnsTest(q), StopAims, [Next]_vars
    PROVE  StopAims'
<1> USE Pointers DEF TypeOK, StopAims, InStop
<1>1. ASSUME NEW r \in Run, heap[r] = "live"
      PROVE  InFlight(r) /\ ioPc[r] \in HasTest /\ r = launched
  BY <1>1 DEF OwnsTest, BeforeTest, HasTest, TestGone, Ended, IoPc, Unborn, NativePc,
              Alone, InFlight
<1>2. CASE UNCHANGED <<global_test, heap, mainPc, stopPtr>>
  BY <1>2
<1>3. ASSUME NEW a \in {"good", "bad"}, Launch(a) PROVE StopAims'
  BY <1>3 DEF Launch, jniVars, testVars
<1>4. CASE LaunchBadDuration \/ Suspend \/ Stop
  BY <1>4 DEF LaunchBadDuration, Suspend, Stop, jniVars, testVars
<1>5. CASE RequestStop \/ CheckTest
  BY <1>5 DEF RequestStop, CheckTest, jniVars, testVars
<1>6. CASE PeekDone
  BY <1>6 DEF PeekDone, Reread, jniVars, testVars
<1>7. CASE MarkDone \/ SendDone
  BY <1>7 DEF MarkDone, SendDone, Reread, jniVars
<1>8. CASE StopOnNull
  <2>1. heap[stopPtr] \in {"live", "freed"}
    BY <1>8 DEF StopOnNull, Heap
  <2> QED
    BY <1>8, <2>1 DEF StopOnNull, jniVars, testVars
<1>9. ASSUME NEW r \in Run, IoNext(r) PROVE StopAims'
  <2>1. CASE NewTest(r)
    <3>1. heap[r] = "none" /\ \A q \in Run : heap[q] # "live"
      BY <1>1, <2>1 DEF NewTest, Go, OwnsTest, BeforeTest, HasTest, Alone, InFlight
    <3> QED
      BY <2>1, <3>1 DEF NewTest, mainVars
  <2>2. CASE NewTestFails(r)
    <3>1. \A q \in Run : heap[q] # "live"
      BY <1>1, <2>2 DEF NewTestFails, Go, OwnsTest, BeforeTest, HasTest, Alone, InFlight
    <3> QED
      BY <2>2, <3>1 DEF NewTestFails, mainVars, testVars
  <2>3. CASE Discard(r)
    BY <2>3 DEF Discard, Go, OwnsTest, HasTest, mainVars, jniVars
  <2>4. CASE FreeTest(r)
    BY <2>4 DEF FreeTest, mainVars, jniVars
  <2>5. CASE ForgetTest(r)
    <3>1. \A q \in Run : heap[q] # "live"
      BY <1>1, <2>5 DEF ForgetTest, Go, HasTest, Alone, InFlight
    <3> QED
      BY <2>5, <3>1 DEF ForgetTest, mainVars, testVars
  <2>6. CASE \/ StartJob(r) \/ MakePipe(r) \/ PipeFails(r) \/ Accept(r) \/ Reject(r)
             \/ StartReader(r) \/ NullDereference(r) \/ EnterClient(r) \/ Connect(r)
    BY <1>2, <2>6 DEF StartJob, MakePipe, PipeFails, Accept, Reject, StartReader,
         NullDereference, EnterClient, Connect, mainVars, jniVars, testVars
  <2>7. CASE \/ ClientFails(r) \/ LoopTest(r) \/ ServerMessage(r) \/ SelectReturns(r)
             \/ TimerFires(r) \/ \E n \in 0..1 : Tick(r, n)
    BY <1>2, <2>7 DEF ClientFails, LoopTest, ServerMessage, SelectReturns, TimerFires,
         Tick, mainVars, jniVars, testVars
  <2>8. CASE \/ AfterClient(r) \/ ClosePipe(r) \/ JoinReader(r) \/ FinalMessage(r)
             \/ ClearStop(r) \/ Complete(r)
    BY <1>2, <2>8 DEF AfterClient, ClosePipe, JoinReader, FinalMessage, ClearStop,
         Complete, mainVars, jniVars, testVars
  <2> QED
    BY <1>9, <2>1, <2>2, <2>3, <2>4, <2>5, <2>6, <2>7, <2>8 DEF IoNext
<1>10. CASE \E r \in Run : Resume(r) \/ ReaderNext(r)
  BY <1>2, <1>10 DEF Resume, ReaderNext, ReadLine, ReaderExits, mainVars, jniVars, testVars
<1>11. CASE UNCHANGED vars
  BY <1>2, <1>11 DEF vars, mainVars, jniVars, testVars
<1> QED
  BY <1>3, <1>4, <1>5, <1>6, <1>7, <1>8, <1>9, <1>10, <1>11 DEF Next, MainNext, AtRest

LEMMA SerialInit == Init => SerialInv
<1> SUFFICES ASSUME Init PROVE SerialInv
  OBVIOUS
<1>1. Alone
  BY DEF Init, Alone, InFlight, Run
<1>2. ASSUME NEW r \in Run PROVE OwnsTest(r) /\ OwnsReader(r) /\ OwnsVerdict(r)
  BY DEF Init, OwnsTest, OwnsReader, OwnsVerdict, HasTest, TestGone, Ended, ClientPc,
         WithReader, Drained, BeforeTest, BeforeReader
<1>3. FaultsOnlyByStop /\ StopAims
  BY DEF Init, FaultsOnlyByStop, StopAims, InStop
<1> QED
  BY <1>1, <1>2, <1>3 DEF SerialInv

LEMMA SerialNext == ASSUME Serial, TypeOK, SerialInv, [Next]_vars
                    PROVE  SerialInv'
<1> USE DEF SerialInv
<1>1. Alone'
  BY AloneNext
<1>2. \A r \in Run : OwnsTest(r)'
  BY TestNext
<1>3. \A r \in Run : OwnsReader(r)'
  BY ReaderNextInv
<1>4. \A r \in Run : OwnsVerdict(r)'
  BY VerdictNext
<1>5. FaultsOnlyByStop'
  BY FaultNext
<1>6. StopAims'
  BY AimsNext
<1> QED
  BY <1>1, <1>2, <1>3, <1>4, <1>5, <1>6

LEMMA SerialInvariant == ASSUME Serial PROVE Spec => []SerialInv
<1>1. Init => SerialInv
  BY SerialInit
<1>2. TypeOK /\ SerialInv /\ [Next]_vars => SerialInv'
  BY SerialNext
<1> QED
  BY <1>1, <1>2, TypeCorrect, PTL DEF Spec

-----------------------------------------------------------------------------
(* What follows, when runs follow one another *)

(* The Run/Stop button alone serialises the use of the C globals. *)
THEOREM Serialised == ASSUME Serial PROVE Spec => []OneRunInFlight
<1>1. SerialInv => OneRunInFlight
  BY DEF SerialInv, Alone, OneRunInFlight
<1> QED
  BY <1>1, SerialInvariant, PTL

(* No line of output is lost or late. *)
THEOREM OutputDelivered == ASSUME Serial PROVE Spec => []OutputComplete
<1>1. SerialInv => OutputComplete
  BY DEF SerialInv, OwnsReader, OutputComplete, Drained, Ended
<1> QED
  BY <1>1, SerialInvariant, PTL

(* Every way out of runIperfLive frees the test. *)
THEOREM TestsFreed == ASSUME Serial PROVE Spec => []NothingLeaked
<1>1. SerialInv => NothingLeaked
  BY DEF SerialInv, OwnsTest, NothingLeaked, Ended
<1> QED
  BY <1>1, SerialInvariant, PTL

(* The C verdict and the Kotlin one agree. *)
THEOREM VerdictsAgree == ASSUME Serial PROVE Spec => []OutcomeAgrees
<1>1. SerialInv => OutcomeAgrees
  BY DEF SerialInv, OwnsVerdict, OutcomeAgrees, TestGone
<1> QED
  BY <1>1, SerialInvariant, PTL

(* A patient user can provoke faults of forceStop only: it uses a test that *)
(* has been freed, or ends the process on a NULL in place of such a test.   *)
THEOREM FaultsAreStaleStops == ASSUME Serial PROVE Spec => []OnlyStaleStop
<1>1. SerialInv => OnlyStaleStop
  BY DEF SerialInv, FaultsOnlyByStop, StopAims, OnlyStaleStop
<1> QED
  BY <1>1, SerialInvariant, PTL

(* A user who never presses Stop provokes none. *)
THEOREM MemorySafeWithoutStop == ASSUME Stoppable = {} PROVE Spec => []NoFault
<1>1. Serial
  BY DEF Serial
<1>2. SerialInv => NoFault
  BY DEF SerialInv, FaultsOnlyByStop, NoFault
<1> QED
  BY <1>1, <1>2, SerialInvariant, PTL

-----------------------------------------------------------------------------
(* What holds whatever the user does *)

ButtonInv == StopButtonMeansWork /\ ~(isRunning /\ isFinished)

LEMMA ButtonNext == ASSUME TypeOK, ButtonInv, [Next]_vars PROVE ButtonInv'
<1> USE DEF ButtonInv, StopButtonMeansWork, InFlight, TypeOK
<1>1. ASSUME NEW a \in {"good", "bad"}, Launch(a) PROVE ButtonInv'
  BY <1>1, NextRun DEF Launch
<1>2. CASE LaunchBadDuration
  BY <1>2, NextRun DEF LaunchBadDuration
<1>3. CASE Suspend
  BY <1>3 DEF Suspend, uiVars
<1>4. ASSUME NEW r \in Run, Resume(r) PROVE ButtonInv'
  BY <1>4 DEF Resume, Go, mainVars
<1>5. CASE Stop
  BY <1>5 DEF Stop
<1>6. CASE RequestStop
  BY <1>6 DEF RequestStop, uiVars
<1>7. CASE CheckTest
  BY <1>7 DEF CheckTest, uiVars
<1>8. CASE MarkDone
  BY <1>8 DEF MarkDone, uiVars
<1>9. CASE SendDone
  BY <1>9 DEF SendDone, uiVars
<1>13. CASE PeekDone
  BY <1>13 DEF PeekDone, uiVars
<1>14. CASE StopOnNull
  BY <1>14 DEF StopOnNull, uiVars
<1>10. ASSUME NEW r \in Run, IoNext(r) PROVE ButtonInv'
  BY <1>10, IoFrame DEF Frame
<1>11. ASSUME NEW r \in Run, ReaderNext(r) PROVE ButtonInv'
  BY <1>11 DEF ReaderNext, ReadLine, ReaderExits, uiVars, mainVars
<1>12. CASE UNCHANGED vars
  BY <1>12 DEF vars, uiVars, mainVars
<1> QED
  BY <1>1, <1>2, <1>3, <1>4, <1>5, <1>6, <1>7, <1>8, <1>9, <1>10, <1>11,
     <1>12, <1>13, <1>14 DEF Next, MainNext, AtRest

LEMMA ButtonInvariant == Spec => []ButtonInv
<1>1. Init => ButtonInv
  BY DEF Init, ButtonInv, StopButtonMeansWork
<1>2. TypeOK /\ ButtonInv /\ [Next]_vars => ButtonInv'
  BY ButtonNext
<1> QED
  BY <1>1, <1>2, TypeCorrect, PTL DEF Spec

(* The UI never shows a run that is not there, overlapping runs included. *)
THEOREM StopButtonHonest == Spec => []StopButtonMeansWork
<1>1. ButtonInv => StopButtonMeansWork
  BY DEF ButtonInv
<1> QED
  BY <1>1, ButtonInvariant, PTL

(* Without Stop, the button and isFinished follow the native run exactly. *)
THEOREM ButtonFollowsRun == ASSUME Stoppable = {} PROVE Spec => []ButtonTellsTruth
<1>1. Serial
  BY DEF Serial
<1>2. SerialInv /\ ButtonInv => ButtonTellsTruth
  BY DEF SerialInv, Alone, ButtonInv, StopButtonMeansWork, ButtonTellsTruth, InNative,
         InFlight, NativePc
<1> QED
  BY <1>1, <1>2, SerialInvariant, ButtonInvariant, PTL

-----------------------------------------------------------------------------
(* The tests of all runs keep to the phases of ClientPhases: most actions    *)
(* leave state and done of every test alone.                                *)

Kept == UNCHANGED <<proto, done>>

LEMMA KeptPhases == ASSUME Kept PROVE \A r \in Run : Phases(r)!PStep
BY DEF Kept, Phases!PStep, Phases!pvars

LEMMA PhasesBegin == Init => \A r \in Run : Phases(r)!PInit
BY DEF Init, Phases!PInit

LEMMA MainPhases == ASSUME TypeOK, MainNext PROVE \A r \in Run : Phases(r)!PStep
<1>1. CASE MarkDone
  BY <1>1 DEF MarkDone, TypeOK, Phases!PStep, Phases!PNext, Phases!Mark, Phases!pvars
<1>2. CASE ~MarkDone
  <2>1. Kept
    BY <1>2 DEF Kept, MainNext, Launch, LaunchBadDuration, Suspend, Resume, Stop,
                RequestStop, CheckTest, PeekDone, SendDone, StopOnNull, testVars
  <2> QED
    BY <2>1, KeptPhases
<1> QED
  BY <1>1, <1>2

LEMMA AnnouncedStates ==
    /\ DOMAIN Announced = {"setup", "armed", "ending"}
    /\ Announced["setup"] = "armed" /\ Announced["armed"] = "running"
    /\ Announced["ending"] = "done"
BY DEF Announced

LEMMA IoPhases == ASSUME TypeOK, NEW r \in Run, IoNext(r)
                  PROVE  \A q \in Run : Phases(q)!PStep
<1> USE DEF TypeOK
<1>1. CASE Connect(r)
  BY <1>1 DEF Connect, Phases!PStep, Phases!PNext, Phases!Advance, Phases!Succ,
              Phases!pvars
<1>2. CASE ServerMessage(r)
  <2> SUFFICES ASSUME NEW q \in Run PROVE Phases(q)!PStep
    OBVIOUS
  <2>1. CASE q # client[r]
    BY <1>2, <2>1 DEF ServerMessage, Phases!PStep, Phases!pvars
  <2>2. CASE q = client[r]
    <3>1. /\ proto[q] \in {"setup", "armed", "ending"}
          /\ proto[q] = "setup" => proto'[q] = "armed" /\ done'[q] = FALSE
          /\ proto[q] = "armed" => proto'[q] = "running" /\ done'[q] = done[q]
          /\ proto[q] = "ending" => proto'[q] = "done" /\ done'[q] = done[q]
      BY <1>2, <2>2, AnnouncedStates DEF ServerMessage
    <3>2. proto[q] = "setup" => Phases(q)!Arm
      BY <3>1 DEF Phases!Arm
    <3>3. proto[q] # "setup" => Phases(q)!Advance
      BY <3>1 DEF Phases!Advance, Phases!Succ
    <3> QED
      BY <3>2, <3>3 DEF Phases!PStep, Phases!PNext
  <2> QED
    BY <2>1, <2>2
<1>3. CASE TimerFires(r)
  BY <1>3 DEF TimerFires, Phases!PStep, Phases!PNext, Phases!Mark, Phases!pvars
<1>4. ASSUME NEW n \in 0..1, Tick(r, n) PROVE \A q \in Run : Phases(q)!PStep
  BY <1>4 DEF Tick, TestState, Phases!PStep, Phases!PNext, Phases!Finish,
              Phases!pvars
<1>5. CASE StartJob(r) \/ NewTest(r) \/ NewTestFails(r) \/ MakePipe(r) \/ PipeFails(r)
           \/ Accept(r) \/ Reject(r) \/ Discard(r)
  <2>1. Kept
    BY <1>5 DEF Kept, StartJob, NewTest, NewTestFails, MakePipe, PipeFails, Accept,
                Reject, Discard, testVars
  <2> QED
    BY <2>1, KeptPhases
<1>6. CASE StartReader(r) \/ NullDereference(r) \/ EnterClient(r) \/ ClientFails(r)
           \/ LoopTest(r) \/ SelectReturns(r) \/ AfterClient(r) \/ FreeTest(r)
  <2>1. Kept
    BY <1>6 DEF Kept, StartReader, NullDereference, EnterClient, ClientFails,
                LoopTest, SelectReturns, AfterClient, FreeTest, testVars
  <2> QED
    BY <2>1, KeptPhases
<1>7. CASE ForgetTest(r) \/ ClosePipe(r) \/ JoinReader(r) \/ FinalMessage(r)
           \/ ClearStop(r) \/ Complete(r)
  <2>1. Kept
    BY <1>7 DEF Kept, ForgetTest, ClosePipe, JoinReader, FinalMessage, ClearStop,
                Complete, testVars
  <2> QED
    BY <2>1, KeptPhases
<1> QED
  BY <1>1, <1>2, <1>3, <1>4, <1>5, <1>6, <1>7 DEF IoNext

(* Every test goes through the phases ClientPhases names and in no other    *)
(* order, and is ended only when it is due: with overlapping runs and with  *)
(* a forceStop between any two steps too.                                   *)
THEOREM PhasesKept == Spec => TestsFollowPhases
<1> DEFINE Steps == \A r \in Run : Phases(r)!PStep
<1>1. TypeOK /\ [Next]_vars => [Steps]_vars
  <2> SUFFICES ASSUME TypeOK, Next PROVE Steps
    OBVIOUS
  <2>1. CASE MainNext
    BY <2>1, MainPhases
  <2>2. ASSUME NEW r \in Run, IoNext(r) PROVE Steps
    BY <2>2, IoPhases
  <2>3. ASSUME NEW r \in Run, ReaderNext(r) PROVE Steps
    BY <2>3, KeptPhases DEF Kept, ReaderNext, ReadLine, ReaderExits, testVars
  <2>4. CASE AtRest
    BY <2>4, KeptPhases DEF Kept, AtRest, vars, testVars
  <2> QED
    BY <2>1, <2>2, <2>3, <2>4 DEF Next
<1> QED
  BY <1>1, PhasesBegin, TypeCorrect, PTL DEF Spec, TestsFollowPhases

-----------------------------------------------------------------------------
(* The last progress value *)

(* A run that is over, or is bound to be, has written 1.0, and its reader    *)
(* writes no more.                                                          *)
Settling == {"discard"} \cup Ended

SettledInv ==
    /\ isFinished => launched \in Run
    /\ launched \in Run /\ ioPc[launched] \in Settling => progress = "full"

(* How an IO thread moves on, and what it leaves in progress *)
LEMMA IoSettles == ASSUME TypeOK, NEW r \in Run, IoNext(r), ioPc'[r] \in Settling
                   PROVE  \/ progress' = "full"
                          \/ ioPc[r] \in Settling /\ progress' = progress
<1> USE DEF TypeOK, Settling, Ended
<1>1. CASE StartJob(r) \/ NewTest(r) \/ NewTestFails(r) \/ MakePipe(r) \/ PipeFails(r)
           \/ Accept(r) \/ Reject(r) \/ Discard(r)
  BY <1>1 DEF StartJob, NewTest, NewTestFails, MakePipe, PipeFails, Accept,
              Reject, Discard, Go, OnError, uiVars
<1>2. CASE StartReader(r) \/ NullDereference(r) \/ EnterClient(r) \/ Connect(r)
           \/ ClientFails(r) \/ LoopTest(r) \/ ServerMessage(r)
  BY <1>2 DEF StartReader, NullDereference, EnterClient, Connect, ClientFails,
              LoopTest, ServerMessage, Go, uiVars
<1>3. CASE SelectReturns(r) \/ TimerFires(r) \/ \E n \in 0..1 : Tick(r, n)
  BY <1>3 DEF SelectReturns, TimerFires, Tick, Go, uiVars
<1>4. CASE AfterClient(r) \/ FreeTest(r) \/ ForgetTest(r) \/ ClosePipe(r)
           \/ JoinReader(r) \/ FinalMessage(r) \/ ClearStop(r) \/ Complete(r)
  BY <1>4 DEF AfterClient, FreeTest, ForgetTest, ClosePipe, JoinReader,
              FinalMessage, ClearStop, Complete, Go, uiVars
<1> QED
  BY <1>1, <1>2, <1>3, <1>4 DEF IoNext

LEMMA SettledNext == ASSUME TypeOK, SerialInv, SettledInv, [Next]_vars
                     PROVE  SettledInv'
<1> USE DEF SettledInv
<1>1. ASSUME NEW a \in {"good", "bad"}, Launch(a) PROVE SettledInv'
  BY <1>1, NextRun DEF Launch, TypeOK, Settling, Ended
<1>2. CASE LaunchBadDuration
  BY <1>2, NextRun DEF LaunchBadDuration, TypeOK
<1>3. ASSUME NEW r \in Run, Resume(r) PROVE SettledInv'
  <2>1. r = launched /\ progress = "full"
    BY <1>3 DEF Resume, Go, SerialInv, Alone, InFlight, Settling, Ended
  <2> QED
    BY <1>3, <2>1 DEF Resume, mainVars
<1>4. CASE Stop
  BY <1>4, UserAssumption DEF Stop, Run
<1>5. CASE \/ Suspend \/ RequestStop
           \/ CheckTest \/ PeekDone \/ MarkDone \/ SendDone \/ StopOnNull
  BY <1>5 DEF Suspend, RequestStop, CheckTest, PeekDone, MarkDone, SendDone,
              StopOnNull, uiVars
<1>6. ASSUME NEW r \in Run, IoNext(r) PROVE SettledInv'
  <2>1. r = launched /\ UNCHANGED <<launched, isFinished>>
    BY <1>6, IoFrame DEF Frame, SerialInv, Alone
  <2> QED
    BY <1>6, <2>1, IoSettles
<1>7. ASSUME NEW r \in Run, ReaderNext(r) PROVE SettledInv'
  <2>1. UNCHANGED <<launched, ioPc, isFinished>>
    BY <1>7 DEF ReaderNext, ReadLine, ReaderExits, mainVars, uiVars
  <2>2. CASE launched \in Run /\ ioPc[launched] \in Settling
    <3>1. reader[r] # "running"
      BY <2>2 DEF SerialInv, Alone, InFlight, OwnsReader, Settling, Ended, BeforeReader, BeforeTest
    <3> QED
      BY <1>7, <3>1 DEF ReaderNext, ReadLine, ReaderExits
  <2> QED
    BY <2>1, <2>2
<1>8. CASE UNCHANGED vars
  BY <1>8 DEF vars, uiVars, mainVars
<1> QED
  BY <1>1, <1>2, <1>3, <1>4, <1>5, <1>6, <1>7, <1>8 DEF Next, MainNext, AtRest

(* The reader thread, the IO thread and Main all write the progress, and    *)
(* the last value is 1.0.                                                   *)
THEOREM ProgressEndsFull == ASSUME Serial PROVE Spec => []ProgressSettles
<1>1. Init => SettledInv
  BY DEF Init, SettledInv, Run
<1>2. TypeOK /\ SerialInv /\ SettledInv /\ [Next]_vars => SettledInv'
  BY SettledNext
<1>3. SerialInv /\ SettledInv => ProgressSettles
  BY DEF SerialInv, Alone, SettledInv, Settling, Ended, ProgressSettles, InFlight, Run
<1> QED
  BY <1>1, <1>2, <1>3, TypeCorrect, SerialInvariant, PTL DEF Spec

-----------------------------------------------------------------------------
(* The refinement of RunContract *)

(* One press of Run has one IO thread, which comes into the native code     *)
(* once and leaves it once.                                                 *)
LEMMA IoMoves == ASSUME TypeOK, NEW r \in Run, IoNext(r)
                 PROVE  \/ ioPc[r] = "dispatched" /\ ioPc'[r] \in NativePc
                        \/ ioPc[r] \in NativePc /\ ioPc'[r] \in NativePc \cup {"done"}
<1> USE DEF TypeOK, NativePc
<1>1. CASE StartJob(r) \/ NewTest(r) \/ NewTestFails(r) \/ MakePipe(r) \/ PipeFails(r)
           \/ Accept(r) \/ Reject(r) \/ Discard(r)
  BY <1>1 DEF StartJob, NewTest, NewTestFails, MakePipe, PipeFails, Accept,
              Reject, Discard, Go
<1>2. CASE StartReader(r) \/ NullDereference(r) \/ EnterClient(r) \/ Connect(r)
           \/ ClientFails(r) \/ LoopTest(r) \/ ServerMessage(r)
  BY <1>2 DEF StartReader, NullDereference, EnterClient, Connect, ClientFails,
              LoopTest, ServerMessage, Go
<1>3. CASE SelectReturns(r) \/ TimerFires(r) \/ \E n \in 0..1 : Tick(r, n)
  BY <1>3 DEF SelectReturns, TimerFires, Tick, Go
<1>4. CASE AfterClient(r) \/ FreeTest(r) \/ ForgetTest(r) \/ ClosePipe(r)
           \/ JoinReader(r) \/ FinalMessage(r) \/ ClearStop(r) \/ Complete(r)
  BY <1>4 DEF AfterClient, FreeTest, ForgetTest, ClosePipe, JoinReader,
              FinalMessage, ClearStop, Complete, Go
<1> QED
  BY <1>1, <1>2, <1>3, <1>4 DEF IoNext

LEMMA ContractBegins == Init => Contract!CInit
BY DEF Init, Contract!CInit, Work

LEMMA WorkValues == ASSUME TypeOK, launched \in Run
                    PROVE  /\ ioPc[launched] = "dispatched" <=> Work = "queued"
                           /\ ioPc[launched] \in NativePc <=> Work = "native"
                           /\ ioPc[launched] = "done" <=> Work = "ended"
                           /\ ioPc[launched] \in {"none", "joined"} <=> Work = "idle"
BY Pointers DEF TypeOK, Work, InNative, NativePc, IoPc, Unborn, NULL

ContractStep == [Contract!CNext]_(Contract!cvars)

(* Every step of a run nobody stops is a step of the contract, or of none   *)
(* that the contract can see.                                               *)
LEMMA ContractNext ==
    ASSUME Stoppable = {}, TypeOK, Alone, ButtonTellsTruth, [Next]_vars
    PROVE  ContractStep
<1> USE DEF ContractStep, Contract!CNext, Contract!cvars
<1>1. ASSUME NEW a \in {"good", "bad"}, Launch(a) PROVE ContractStep
  <2>1. launched + 1 \in Run BY <1>1, NextRun DEF TypeOK, Launch
  <2>2. ~isRunning /\ Work = "idle"
    BY <1>1, WorkValues, Pointers
       DEF Launch, LaunchAllowed, ButtonTellsTruth, InFlight, TypeOK, Work, NULL
  <2>3. isRunning' /\ ~isFinished' /\ Work' = "queued"
    BY <1>1, <2>1, Pointers DEF Launch, Work, TypeOK, NULL
  <2> QED
    BY <2>2, <2>3 DEF Contract!Press
<1>2. CASE LaunchBadDuration
  <2>1. launched + 1 \in Run BY <1>2, NextRun DEF TypeOK, LaunchBadDuration
  <2>2. ~isRunning /\ Work = "idle"
    BY <1>2, WorkValues, Pointers
       DEF LaunchBadDuration, LaunchAllowed, ButtonTellsTruth, InFlight, TypeOK, Work, NULL
  <2>3. ~isRunning' /\ isFinished' /\ returnCode' = "error" /\ Work' = "idle"
    BY <1>2, <2>1, Pointers DEF LaunchBadDuration, Work, InNative, NativePc, TypeOK, NULL
  <2> QED
    BY <2>2, <2>3 DEF Contract!PressRefused
<1>3. ASSUME NEW r \in Run, Resume(r) PROVE ContractStep
  <2>1. r = launched /\ Work = "ended"
    BY <1>3, WorkValues DEF Resume, Go, Alone, InFlight
  <2>2. Work' = "idle" /\ ~isRunning' /\ isFinished'
        /\ returnCode' = IF failed[launched] THEN "error" ELSE "ok"
    BY <1>3, <2>1 DEF Resume, Go, mainVars, Work, InNative, NativePc, TypeOK
  <2> QED
    BY <2>1, <2>2 DEF Contract!Report
<1>4. CASE Stop
  BY <1>4 DEF Stop
<1>5. CASE \/ Suspend \/ RequestStop
           \/ CheckTest \/ PeekDone \/ MarkDone \/ SendDone \/ StopOnNull
  <2>1. UNCHANGED <<uiVars, launched, ioPc, failed>>
    BY <1>5 DEF Suspend, RequestStop, CheckTest, PeekDone, MarkDone, SendDone,
                StopOnNull, ioVars
  <2> QED
    BY <2>1 DEF uiVars, Work, InNative
<1>6. ASSUME NEW r \in Run, IoNext(r) PROVE ContractStep
  <2>1. r = launched /\ UNCHANGED <<launched, isRunning, isFinished, returnCode>>
    BY <1>6, IoFrame DEF Frame, Alone
  <2>2. CASE ioPc[r] = "dispatched" /\ ioPc'[r] \in NativePc
    <3>1. Work = "queued" /\ Work' = "native"
      BY <2>1, <2>2, Pointers DEF Work, InNative, NativePc, NULL
    <3> QED
      BY <2>1, <3>1 DEF Contract!Begin
  <2>3. CASE ioPc[r] \in NativePc /\ ioPc'[r] \in NativePc
    <3>1. Work = "native" /\ Work' = "native"
      BY <2>1, <2>3, Pointers DEF Work, InNative, NativePc, NULL
    <3> QED
      BY <2>1, <3>1
  <2>4. CASE ioPc[r] \in NativePc /\ ioPc'[r] = "done"
    <3>1. Work = "native" /\ Work' = "ended"
      BY <2>1, <2>4, Pointers DEF Work, InNative, NativePc, NULL
    <3> QED
      BY <2>1, <3>1 DEF Contract!End, Contract!Verdict
  <2> QED
    BY <1>6, <2>2, <2>3, <2>4, IoMoves
<1>7. ASSUME NEW r \in Run, ReaderNext(r) PROVE ContractStep
  <2>1. UNCHANGED <<isRunning, isFinished, returnCode, launched, ioPc, failed>>
    BY <1>7 DEF ReaderNext, ReadLine, ReaderExits, uiVars, mainVars, ioVars
  <2> QED
    BY <2>1 DEF Work, InNative
<1>8. CASE UNCHANGED vars
  <2>1. UNCHANGED <<isRunning, isFinished, returnCode, launched, ioPc, failed>>
    BY <1>8 DEF vars, uiVars, mainVars, ioVars
  <2> QED
    BY <2>1 DEF Work, InNative
<1> QED
  BY <1>1, <1>2, <1>3, <1>4, <1>5, <1>6, <1>7, <1>8 DEF Next, MainNext, AtRest

(* Step by step the view model, the manager, the JNI bridge and the C       *)
(* globals do what RunContract says.  That they do not stop halfway is      *)
(* liveness.                                                                *)
THEOREM KeepsContract == ASSUME Stoppable = {}
                         PROVE  Spec => Contract!CInit /\ [][Contract!CNext]_(Contract!cvars)
<1>1. TypeOK /\ SerialInv /\ ButtonTellsTruth /\ [Next]_vars
        => [Contract!CNext]_(Contract!cvars)
  BY ContractNext DEF SerialInv, ContractStep
<1>2. Serial
  BY DEF Serial
<1> QED
  BY <1>1, <1>2, ContractBegins, TypeCorrect, SerialInvariant, ButtonFollowsRun, PTL DEF Spec
=============================================================================
