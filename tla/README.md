# Iperf3NetworkTester: verification project

TLA+ models, TLC configurations and TLAPS proofs for the Android app in
`Code/Iperf3NetworkTester` of this repository: a Compose UI that runs the iperf3
client (a modified copy of iperf 3.19 in C) inside its own process, through JNI,
against an iperf3 server: the same copy of iperf, whose server half lies in the same
directory.

Paths below are short forms: `VM` is `viewmodel/Iperf3RunViewModel.kt`, `TM` is
`runner/IperfTestManage.kt`, `OM` is `utils/Iperf3OutputMonitor.kt`, `JNI` is
`cpp/iperf/iperf_jni.c`, and `CL`, `SRV` and `API` are `iperf_client_api.c`,
`iperf_server_api.c` and `iperf_api.c` under `cpp/iperf/iperf-3.19/`.

## 1. The system

### Components

| Component | State it keeps | Operations | Correct when |
|---|---|---|---|
| Run control, `VM` | `UiData` in a StateFlow: `isRunning`, `isFinished`, `returnCode`, `progress`, texts | `launchOrCancel`, `launch`, `cancel`, `runIperf3`, `updateProgress` | the button and the outcome on screen follow the run |
| Run manager, `TM` | `isIperfRunning`, `rc` of a run | `startTest`, `cancelTest`, callbacks `onOutput`, `onError`, `onComplete` | a stop reaches the run it is for; every run is reported |
| JNI bridge, `JNI` | `global_test`, `reader_thread`, `stop_requested`, one pipe per run | `runIperfLive` (IO thread), `readerThreadFunc` (pthread), `forceStop` (Main thread) | no line is lost, nothing is leaked or used after it is freed |
| Client engine, `CL` and parts of `API` | `struct iperf_test` and its streams: `state`, `done`, `omitting`, sockets, threads | `iperf_run_client`, message handlers, timers, workers, `iperf_client_end` | workers end before their streams; the protocol order is kept; it returns |
| iperf server, `SRV` | one `struct iperf_test` reused from test to test, the listening socket, its streams and threads | `iperf_run_server`, `iperf_accept`, message handlers, timers, `cleanup_server`, `iperf_reset_test` | a stranger does no harm to a test; it comes back for the next client with nothing left of the last |
| Timers, `timer.c` | a sorted process-wide list | create, reset, cancel, run, time-out | fires in order, survives callbacks that change the list |
| Argument parsing, `API` | `optind` (process-wide), the test's settings | `iperf_parse_arguments` | the same arguments give the same verdict |
| Control protocol, `API`, `cjson.c` | the control connection | state bytes, parameters and results as JSON | both ends agree on the phase |
| Output monitor, `OM` | current line result, history, median data | `processLine`, `reset`, `setParallel` | a run's statistics come from that run's lines |
| Form state, `VM`, `view/HostInputRow.kt`, `model/Iperf3Parameters.kt` | what the user typed, and defaults | update functions, rewriting at launch, cancel, completion | the user's input survives a run |
| Stream protocols, `iperf_tcp.c`, `iperf_udp.c`, `net.c` | sockets, UDP packet counters | connect, accept, listen, send, receive | packets are counted once; a failure leaves no socket open |
| Reports, `API` | interval results, retransmit flags, the server's output | `iperf_stats_callback`, `iperf_reporter_callback`, `iperf_print_results` | both hosts say the same about the same streams |
| Units, `units.c`, `utils/UnitConverter.kt` | none | conversions | the two agree, no overflow |
| Views, platform helpers, code not compiled into the app | none of interest | | |

### How they interact

The user's clicks run on the Main thread. `launch` calls `startTest`, which starts
a coroutine on `Dispatchers.IO` and suspends until it ends. The coroutine calls
`runIperfLive`, which makes a test and a pipe, points the test's output at the
pipe, starts a reader pthread that passes each line back to Kotlin, and runs the
iperf client. The client loops over `select` and starts one worker thread per
stream. `cancel` marks the UI finished at once and, if `isIperfRunning` is still
true, calls `forceStop` on the Main thread, which writes into the test that the IO
thread is using. The client and the server share two kinds of TCP connections: one control connection
with a cookie, single state bytes and JSON behind a length, and one connection per
stream. Each host runs its own copy of the timers over the same seconds.

Nothing is locked: `global_test`, `test->done`, `test->state`,
`stop_requested`, `isIperfRunning` and `returnCode` are all shared plain variables.

### What is hard

* Two threads write `test->state`: the IO thread reads a byte of the server into
  it, Main stores `IPERF_DONE` (`CL:313`, `API:1929`).
* `forceStop` tests a pointer and uses it later; the IO thread frees it meanwhile.
* A stop may come before the connection, during `TEST_START`, during the joins at
  the end of the test, or when the run is already over.
* `cancel` shows the Run button while the stopped run is still in native code, so a
  second run may share every C global with the first.
* Each early return and each failure path has its own partial cleanup.
* Order of the end of a run: close the pipe, drain it, join the reader, then report.
* End of a test: two timers, a stop, the joins, `TEST_END`, the results, one summary.
* The server has one listening socket for everything: the next client, a stranger, and
  the stream connections of the test, some of them too late.
* The server keeps one `struct iperf_test` for all its tests and resets it by hand.
* A worker counts a block in two places one after the other, while the control thread
  reads and clears one of them, closes an interval, or ends the omitted time.
* A timer callback resets and cancels other timers while `tmr_run` walks the list.
* Some seventy failure branches of the socket code undo by hand what was done before.
* The meaning of an option may depend on those read before it.
* The form is written by the user, by `launch`, by `cancel` and by the thread of a run
  that ends.

They are under `hazards` in `PROJECT.json`, at their lines, with the properties that
watch them.

## 2. Modules

| Module | Models | Role |
|---|---|---|
| `RunContract` | what one press of Run promises | abstract specification |
| `ClientPhases` | what `iperf_run_client` does to the connection phase and to `done` | abstract specification |
| `RunLifecycle` | `VM`, `TM`, `JNI` and the outside of `CL`, any number of runs | implements `RunContract`, uses the client as `ClientPhases` |
| `ClientEngine` | the inside of `CL` for one run | implements `ClientPhases` |
| `Session` | `CL` and `SRV` over control connections, several clients, one server | the protocol of two parties |
| `Timers` | `timer.c` | operators on a queue of timers |
| `Transfer` | one stream on both hosts: workers, timers, intervals, results | composes `Timers` for each host with the end of the test |
| `Udp` | packet numbers, losses and disorder of `iperf_udp.c` | |
| `Sockets` | `net.c`, `iperf_tcp.c`, `iperf_udp.c`, `iperf_new_stream`: calls and undoing | |
| `Report` | `iperf_print_results` and the intervals' last lines on both hosts | |
| `Options` | `iperf_parse_arguments` | |
| `Form` | the entry fields of `VM` over several runs | |
| `Monitor` | `OM` and the callback of `TM` that feeds it | |
| `MCRunLifecycle`, `MCSession`, `MCTransfer`, `MCParts` | | instances for TLC |
| `RunLifecycleProofs`, `ClientEngineProofs`, `UdpProofs`, `OptionsProofs`, `SessionProofs`, `SessionProtocolProofs`, `TransferProofs`, `PartsProofs` | | theorems |

`ClientPhases` is where the two detailed modules meet. `RunLifecycle` is about many
runs sharing globals and needs only a coarse client; `ClientEngine` is about
streams, workers and timers of one client. Each is shown to keep to the same
six phases and the same rules for `done`.

### RunLifecycle and the code

One variable per shared variable of the code, one program counter per thread.

* Main: `mainPc`. `Launch`, `LaunchBadDuration`, `Suspend`, `Resume` and `Stop` are
  the stretches of `launchOrCancel`, `startTest` and `cancel` between suspension
  points; `RequestStop`, `CheckTest`, `PeekDone`, `MarkDone` and `SendDone` are
  `forceStop`, cut where it reads or writes what another thread shares. It names
  `global_test` four times (`JNI:121` to `JNI:123`), and nothing makes the compiler keep
  the pointer or read it again: each step works on what was read last or on what the
  variable holds by then (`Reread`). When the variable is NULL by then (`JNI:226`), the
  process may die of it (`StopOnNull`).
* IO thread of run `r`: `ioPc[r]` goes through `runIperfLive` in program order:
  `new`, `pipe`, `parse` (or `discard`), `reader`, `enter`, the client (`connect`,
  `loop`, `select`, `tick`), `after`, `free`, `forget`, `close`, `join`, `final`,
  `clear`, `complete`, then `done` and, when Main has resumed, `joined`.
* Reader of run `r`: `ReadLine`, `ReaderExits`.
* C globals are indices of runs: `global_test = r` is the test that run `r` made,
  `NULL` is 0. A stale pointer is therefore visible as one whose `heap` is `freed`.
* `ub` collects undefined behaviour: use of a freed test or of a NULL test, by an IO
  thread (`freed`, `null`) or by `forceStop` (`stopFreed`, `stopNull`), use of a
  closed `FILE`, a second join of a reader. It is the state of a history variable
  and never a guard; what a fault would do next is not modelled beyond the values
  the memory last held.
* Lines are counted, not spelled: `buffered[r]` lines wait in the pipe.

### ClientEngine and the code

One run. The IO thread's `pc` follows `iperf_connect` (`connect`, `setup`), one pass
of the loop (`loop`, `select`, `handle`, `pass`, `spawn`, `timers`, `check`), the end
of the test (`senders`, `end`), the way out (`receivers`, or `fail` and `abort` for
`cleanup_and_fail`), and `iperf_free_test` (`returned`, `freed`). The sweeps over the
streams take one step per stream, because workers run meanwhile. `ReadMessage`
stores the server's byte in `state` and the switch on `state` is a later step, since
`forceStop` may write in between. `heard` is what the server said last, `state` is
what the client holds: the difference is the race. A worker is `test` (about to
evaluate its loop condition), `io` (in a send or receive) or `exited`; on Android
`pthread_cancel` is a signal whose handler calls `pthread_exit`, so cancel and join
are one step.

Left to nondeterminism: which system call fails, how many streams or threads are
made before one fails, whether `IPERF_DONE` can be sent, which timer is due first.

### Session and the code

`Session` has every client's `iperf_run_client` from outside (`cl[c].pc`: what it reads
or writes next) and the server's `iperf_run_server` with the loop of `main.c` around it
(`srv.pc`). `c2s` and `s2c` are the bytes on the control connections, `backlog` the
connections that the listening socket holds. What makes it more than a sequence of
messages is what the code does with a byte stream and a single listening socket:

* JSON is two writes, and `forceStop` may put its state byte before, between or after
  them. `Framed` and `Garbled` say what `JSON_read` makes of it; `HasCookie` and "cut"
  the same for a cookie.
* `Accept`, `Deny`, `AcceptStream` and `AcceptStranger` are the four things that may
  happen to a connection, by the state of the server; a stream connection of a client
  that is gone is taken for the control connection of a new one (`Proper` is false), and
  the server reads a cookie from it.
* `AcceptFails`: `accept` fails, or the head of the queue has been reset and its cookie
  cannot be read. `iperf_accept` and `iperf_tcp_accept` (`iperf_tcp.c:131` and `:152`)
  return -1 and `iperf_run_server` gives up the test, whoever made that connection.
* `Relisten`: some parameters make the server close its listening socket and open
  another, which resets the connections in the queue.
* `srv.held` are the options the test struct holds: `Taken` is `get_parameters`, which
  sets what the client sent and leaves the rest, `ResetTest` what `iperf_reset_test`
  puts back.
* Faults, at most `MaxFaults` in a behaviour: a Stop, a signal, a client that vanishes, a
  party that is too slow for a time-out, a connection that fails while it is accepted, a
  listening socket or a stream that cannot be made, the server killed, the server's host
  gone without a word (`ServerVanishes`: what it has sent arrives, what it is sent nobody
  takes, and no connection is closed).
* The client's own limits are `TimesOut`: ten seconds for the results (`net.c:388`), the
  receive time-out while it receives (`CL:658`). `GivesUp` is TCP giving up on a host
  that does not answer; it may happen and need not.

The inside of a running test is left to `ClientEngine` and `Transfer`.

### Timers and Transfer and the code

`Timers` is `timer.c` as operators on `[order, due]`. `Transfer` gives each host a queue
and lets `tmr_run` walk it (`walk[h]`: the timer whose callback is next, and the time
with which the walk began), because callbacks reset and cancel others meanwhile and the
code keeps the successor it read before the callback. A worker is cut where it matters:
after the data has moved, after the total is counted, after the interval is. So is
`iperf_stats_callback` (`ReadPart`, then the interval is closed and cleared). Then comes
the end of the test as the two hosts go through it, with the server's grace time of the
code as `Grace`. A clock tick is one unit of `--time`, `--interval` and `--omit`; control
threads may lag behind it by `MaxLate`, messages by any time.

### The smaller modules and the code

* `Udp`: the receiver's two counters in `Ahead` and `Behind`; `udpSeen` and
  `udpArrivals` are histories that the code does not have. Numbers are taken modulo
  `udpWidth`, 2^32 or 2^64 in the code.
* `Sockets`: a function is a `Script`, a sequence of calls. Each call says what it
  acquires and releases and what the branch behind it releases when the call fails. The
  actions only walk the script.
* `Report`: `iperf_print_results` runs over the streams in passes (`current_mode`),
  with other loops inside for TCP, UDP, text and JSON. Of a number only its origin is
  kept.
* `Options`: `ReadOption` takes any option that is left, so that a behaviour is an order
  of the command line.
* `Form`: texts are a name and the parts after its colons. `CompleteReads` and
  `CompleteWrites` are the completion callback on the thread of a run.
* `Monitor`: `Read` is the callback for one line, `ProcessLine` followed by `Look`, which
  shows a line when its number is above the last or when there is a new message, and sets
  the last number to this one either way. `LinesOf` chains `Read` over the lines that iperf
  prints for a second or a summary, one per stream and their sum. Messages come as lines
  of text (`Message`), with the connection and from the native answer to a cancel
  (`CancelLine`, which the run's callback does not see). Rates are counted in half bits,
  because the maximum starts at `Double.MIN_VALUE`, above 0 and below any other rate
  (`Least`); averages are rounded to that unit.

Most modules carry, next to an action
or an operator, a few operators whose comment starts with "Mutant": the definition as a
plausible bug would have it. No specification uses them; `PROJECT.json` pairs each
property with one that must violate it.

## 3. Runs

| Run | Instance | Checks |
|---|---|---|
| `watch` | 2 runs, no Stop, good and bad arguments, bad duration; 6 371 states | type invariant, one run at a time, button truthful, no memory fault, verdicts agree, progress settles, refinement of `RunContract` |
| `patient` | 2 runs, Stop at any moment, next Run only after the stopped run is over; 254 152 states | output complete before the final message, tests freed, the only faults are those of a `forceStop` that comes too late, every run reported, tests keep to `ClientPhases` |
| `eager` | 2 runs, second Run while the stopped first is in native code, explored up to the first undefined behaviour; 2 217 179 states | Stop button only for an unreported run |
| `engine` | 2 streams, upload and download, with and without `--omit`, Stop at any moment, all failures; 15 480 states | workers stopped before the free, no sender after `TEST_END`, statistics reset once, one summary, stream sockets closed, the client returns, refinement of `ClientPhases` |
| `session` | 2 clients, 3 pairs of option sets, 2 faults; 542 619 states | states in step, streams paired, strangers harmless, options of this client only, done means finished, server and clients return |
| `transfer` | 5 tests, 2 blocks, 3 ticks; 449 662 states | timers sound, intervals printed once, nothing counted twice, results agree, the test ends |
| `parts` | six independent parts, one per behaviour; 838 865 states | `LossCounted`, `NothingLeftOpen`, `ReportsAgree`, `OrderDoesNotMatter`, `RunsWhatIsShown`, `StatisticsOfRun` |
| `final_message`, `stop_sticks`, `valid_args`, `stop_reaches` | as `patient` with all inputs | each finds the counterexample of a finding, section 6 |
| `stopped_senders` | 1 upload stream, Stop | counterexample of a finding |

`MCParts` puts the six small modules next to each other: the variable `topic` chooses the
part that moves, the others keep their initial state. They share no state, so nothing is
lost by that.

### What the properties of the later runs say, and where they stop

Several invariants name the cases in which the code does not do what they say in
general. These cases are what the code does, found by TLC while the invariants were
written:

* `OnlyStaleStop`: when one run at a time uses the globals, the IO and reader threads never
  fault. `forceStop` may: it may use a test that was freed since it looked, or a NULL that
  has replaced the pointer to it. In both cases the test it meant to stop is already freed.
  `RunsEnd` excepts the run whose process such a NULL has ended.
* `InStep`: the states a client has read, and those on the way to it, are the server's
  states in order and without a gap. It says nothing of a client that has been stopped:
  `forceStop` writes `IPERF_DONE` into `test->state` and the next byte of the server may
  overwrite it.
* `IntruderHarmless`: a client that was accepted fails only for something that happened
  to it or to the server. Two exceptions, in which another's connection ends the test: it
  fails while it is being accepted (`crossed`: reset in the queue, so that its cookie
  cannot be read, and `iperf_run_server` returns -1); and with a TOS, `iperf_tcp_accept`
  returns the number of the socket it has just closed, on which setting the TOS fails.
  Strangers that are denied, that go, that come late or that take the listener do no harm.
* `HeldIsAsked`: a test runs with the options of its own client. Exception:
  `get_server_output` and `repeating_payload`, which `iperf_reset_test` leaves set.
* `ServerReturns`: the server is always back for the next client. Exception
  (`Deserted`): a server that only sends has no receive time-out; when its client is gone
  without a trace and no timer is left, it waits for good.
* `ClientReturns`: it holds for every stop, garbled frame and whatever the server does as
  long as its host is there. Exception (`Abandoned`): when the server's host is gone
  without a word, a client that waits in `select` outside `TEST_RUNNING` has no limit of
  its own (`CL:653`) and no timer that could wake it, and one that only sends, without a
  duration, has neither. In every other place it still comes back by its own limits.
* `NothingCountedTwice` and `ResultsAgree` allow one block: the one a worker had in hand
  when omitting ended, when an interval was closed or when it was cancelled.
* `LossCounted` holds until the packet number wraps around. It brackets the loss counter
  between the gaps seen and the gaps less the repeated packets: exact if the network
  repeats nothing.
* `NothingLeftOpen`: a failed call leaves no memory, mapping or address list behind, and
  no descriptor except those of `Forgotten` (a connected UDP socket; the socket and the
  files of a stream that cannot be made).
* `RunsWhatIsShown`: pressing Run again repeats the run. Exceptions: a host name with
  colons of its own grows by the port at each launch; a port without a host name is first
  run without a host and then with the default one; the completion of an older run that
  overlaps may overwrite the host name.
* `StatisticsOfRun`: maximum and minimum are what `OM` makes of a fastest and of a slowest
  second of this run, except that a maximum of 0 is never shown, since it starts above 0;
  the number of samples is the run's own; and the seconds shown are determined: not the
  one that a message takes the place of and, until a message has come after the omitted
  seconds, not those whose numbers the omitted ones had. ("A" fastest: 1000 Kbits and
  1 Mbit are the same rate printed in two ways, and `OM` multiplies by 1024.) The average
  is that of the seconds of *all* runs until the summary line gives the run's: `reset`
  keeps the list it is taken from, although the comment above it (`OM:77`) says that it
  resets all accumulated state. Exception: a line of a cancelled run comes in late, for
  the average into any run, since the list is kept.

### Bounds, and why they are enough

* `MaxRuns = 2`: the runs interact through globals that hold one value each, so
  what a run can meet is the remains of the run before it.
* `MaxLines = 1`: the pipe is empty, or holds a line when it is closed; a writer
  waits when it is full.
* `Parallel = 2`: sweeps and partial failures need one stream before and one after.
* `eager` stops at the first fault (`UpToFirstFault`): after a use of freed memory
  the program has no states to explore.
* `Session`: two clients, because what disturbs a test is one other connection at a time;
  two streams at most, so that there is a connection before and one after a stranger.
  `MaxFaults = 2` has a fault in one session and another in the next, or in the cleanup
  of the first. `MCSetups` pairs the kinds that differ: bidirectional with an unlimited
  download, two streams with one, an option that makes the server listen anew and one that
  is never reset with a TOS. After its session a client does not dial again; the second
  client is the next session.
* `Transfer`: `MaxBlocks = 2` and `Window = 1`: one block is in a worker's hands while
  another is on the way. `Horizon = 3` lets every test of one or two seconds end, with its
  omitted second, the grace of the server (`Grace = 1`) and a control thread a tick late
  (`MaxLate = 1`).
* `Udp`: `MaxPackets = 4`, `MaxArrivals = 5`: any order, any loss and one packet too many;
  width 4 makes the number wrap around and width 8 does not. The theorem of section 4 has
  no bounds.
* `Sockets`: at most two options or circumstances at a time. A call's undoing depends on
  what was acquired before it, and no branch looks at more than two options.
* `Report`: `MaxStreams = 2` for each direction, so that sums differ from streams.
* `Options`: `MaxOptions = 3`, in every order: role, direction and one more; no check in
  the code relates more than three.
* `Form`: two launches; three kinds of host name, four kinds of port.
* `Monitor`: two runs, two measured seconds, two omitted, two messages, three rates in
  three units, one of them 0: there is a second before and one after a message, both
  covered by the numbers of omitted ones, and a maximum that is never set.
* `resets` and `summaries` count without a bound because the code cannot repeat
  them; that is what `OmitOnce` and `SummaryOnce` say.

### Fairness

`RunLifecycle`: weak fairness for every thread (the Android looper, the coroutine
dispatcher and pthreads are scheduled preemptively), strong fairness for the
duration timer and for a server that owes a message or drops the connection,
because the select loop passes through their enabling state again and again.

`ClientEngine`: the same for the IO thread and for a `forceStop` that has begun;
strong fairness for each of the two timers, for a server that has something to say
and has not been told `IPERF_DONE` (the server's refusals are not forced), and for a
server that was told `IPERF_DONE` and hangs up. The exchange of JSON is taken to
return or fail. Nothing is assumed of the workers: a send to a full socket may
block until it is cancelled.

`Session`: weak fairness for each client and for the server. A step of a client is
whatever its thread would do next; time-outs of the server are part of its steps where
nothing else can happen, because they come if the peer is gone, and so are the client's
own when the server's host is gone. That TCP gives up is not forced. The liveness of a client
needs no fairness of its user. Dialling, stops and faults are not forced.

`Transfer`: as long as the clock or one of the two control threads can go on, one of
them does (`WF_vars(Control)`, less than fairness for each). Nothing is assumed of the
workers. The `parts` run checks no liveness.

In `ClientEngine`, without the server assumptions, the client can wait for ever: outside `TEST_RUNNING`
its loop has no time limit of its own, so a peer that keeps the connection open and
stays silent holds the run. (`Session` has the real server as the peer, which gives up
after its own time-outs and closes; there the client returns, unless the server's host
vanishes at such a moment.) That is how the protocol is made, not a disagreement
with the code.

## 4. What is proved

TLAPS checks every theorem, for every value of the constants within their
assumptions: any number of runs, any pipe size, any number of streams.

`RunLifecycleProofs`

* `TypeCorrect`, with no condition on the user.
* With `Serial` (the user never presses Stop, or waits for a stopped run before the
  next): `Serialised`, `OutputDelivered`, `TestsFreed`, `VerdictsAgree`,
  `FaultsAreStaleStops`. Without Stop: `MemorySafeWithoutStop`, `ButtonFollowsRun`.
  For every user, overlapping runs included: `StopButtonHonest`.
* The inductive invariant is `SerialInv`: `Alone` (the run in flight is the last
  launched), and for each run `OwnsTest`, `OwnsReader` and `OwnsVerdict`, which say at
  each point of `runIperfLive` what the globals point at, whether the pipe and the
  reader are still there, and what the callbacks have stored; and
  `FaultsOnlyByStop`. None of the properties is inductive alone: "the output is
  complete at `final`" needs "the pipe was closed before the join", which needs "the
  globals at `join` are this run's", which needs "no other run is in flight".
  `FaultsAreStaleStops` rests on `StopAims` and `FaultsOnlyByStop`: what `forceStop`
  has kept of `global_test` is what the variable still holds, or a test that is freed.
  `StopButtonHonest` has its own, `ButtonInv`, because it holds without `Serial`.
* `PhasesKept`: `Spec => TestsFollowPhases`, for every user. Each action keeps the phase
  and `done` of every test (`Kept`) or is a named step of `ClientPhases`; a message of the
  server is a step of the test that the client holds, whichever run that is.
* `ProgressEndsFull`: with `Serial`, the last value written to `progress` is 1.0. Three
  threads write it; `SettledInv` says that from the moment a run is bound to end, its
  reader has exited and nobody else writes.
* `KeepsContract`: without Stop every step of view model, manager, JNI and C globals is a
  step of `RunContract` or leaves its variables alone. This is the safety half of
  `ImplementsContract`; that each press of Run is answered is the liveness half.

`ClientEngineProofs`

* `IInv` is the conjunction of nine parts, one per idea: `Sync` (`state` against
  `heard`), `Order` (`TEST_RUNNING`, threads, `TEST_END`), `Stopping` (why the loop was
  left), `Workers` (flags against threads, and what each sweep has passed), `Arming`
  (the timers against the server's progress), `Omission`, `Summing`, `Closing` and
  `TypeOK`. Each has its own step lemma with one case per action, and
  `Invariance == Spec => []IInv` combines them.
* From it: `TypeCorrect`, `WorkersJoined`, `NoWorkerLeftWithoutStop`, `QuietAfterEnd`,
  `OmittedOnce`, `SummarisedOnce`, `StreamsClosed`.
* `EngineImplementsPhases`: `Spec => ImplementsPhases`, the refinement of
  `ClientPhases`, step by step under `IInv`.

`UdpProofs`

* `LossesCounted`: `UdpSpec => []LossCounted`, for any number of packets and arrivals and
  any width. The inductive invariant is `UdpInv`: `Counters` (the types, and nothing is on
  the wire that was not sent), `Fresh` (before the width is agreed everything is empty),
  `SeenBelow` (until the numbers wrap, what has been received is not above the highest
  number, nor that above what was sent) and
  `LossCounted` itself. The step that matters is a packet behind the highest one: either
  it was not seen before, and one gap less is missing, or it was, and one arrival more
  makes up for the loss that is taken back.

`OptionsProofs`

* `EveryOrder`: `OptionsSpec => []OrderDoesNotMatter`, for any set of the options. The
  inductive invariant is `OptionsInv`. While options are read (`Reading`), the test and the
  flags are a function of the *set* read so far: `Direction` (role and mode), `Values`,
  `Passed` (what was not refused at once) and `Flags` (`client_flag` and the like). At the
  end `Early` and the count of end conditions are compared with `Acceptable`, which knows
  the set only; `OneEndCondition` is the step that needs cardinalities. A server
  with `--bidir` is the one case in which the order shows (in the retransmits), and it is
  refused at the end, which is why the property speaks of accepted command lines.

`SessionProofs`, for any number of clients and faults and any set-ups

* `TypeCorrect`: the types of all that is checked. `TypeInv` says them as sets of records,
  and adds that every connection that waits belongs to a client.
* `OptionsOfThisClient`: `Spec => []HeldIsAsked`. The property speaks of the states of a
  test; the inductive `HeldInv` says what holds in between: without a client, and outside
  `cleanup` and `reset`, the server holds only the two options that are never put back,
  and from `iperf_accept` to the end it holds besides only what this client asked for.
* `DoneMeansFinished`: `Spec => []DoneIsFinished`. `DoneInv` follows the byte: for a client
  that has not exchanged results, no `DISPLAY_RESULTS` is on its way to it, and its state
  is `IPERF_DONE` only after a stop.

`SessionProtocolProofs`, for any number of clients and faults and any set-ups

* `ClientAndServerInStep`: `Spec => []InStep`; `StreamsArePaired`: `Spec =>
  []StreamsPaired`; `OthersDoNoHarm`: `Spec => []IntruderHarmless`. They have one
  inductive invariant, `ProtocolInv`, because none holds without the others: that a
  client's next message is the one the server waits for depends on the stream connections
  having come from this client, in order, and that depends on the two being in step.
* Its parts: `ServerInv` (which state goes with which place of `iperf_run_server`),
  `StreamsInv`, and `Sessions`: `Phase` numbers what the server is doing with its client
  from the cookie (0) to `DISPLAY_RESULTS` (5), and for a client whose control connection
  is open `Talk` lists per phase where the client may be and what may be on the two
  directions of the connection (`Place` for every client, `Exact` for one that nobody has
  stopped, `Asked` and `Running` for what even a stopped client may have sent at most
  once), `Queued` which of its connections wait in the backlog. `IdleInv` and `LinkInv`
  are about clients outside a session, `FairInv` about who is to blame for a failure: the client's own troubles, its
  server's, or the connection of another that failed while it was accepted (`crossed`).
  All of this holds until the server's host vanishes; after that `KeptInv` says only that
  it serves nobody, which is all the three properties ask of it.
* The step that needs all of it is `AcceptStream`: the head of the backlog is a stream
  connection of the server's client *and* its next one, or the exception of the TOS, or it
  is refused.

`TransferProofs`, for any set-ups, lateness, grace time, clock and amount of data

* `TimersAreSound`: `Spec => []TimersSound`. First the list: `Adding` and `Removing` say
  what inserting behind all that is not later and cutting out one element do to a sorted
  list without duplicates, to neighbours (`Adjacent`) and to the last timer of a time.
  `QueueInv` has to say more than the property because `tmr_run` reads the successor
  *before* the callback: outside the reporter, statistics and report are due at the same
  time and adjacent; at the reporter the statistics have already moved one interval on and
  stand last of their time, so that the report will be put right behind them
  (`Together`). The timer with which the walk goes on is in the list and due.
* `IntervalsPrintedOnce`: `Spec => []PrintedOnce`. `PrintInv`: an interval that has been
  collected is unprinted (`Pending`) exactly while the walk stands at the reporter, or
  from the last collection to the last report; else the last one is printed (`Settled`).
  It needs the walk to go from the statistics to the reporter at once, which `QueueInv`
  gives.
* `HostsReportTheSame`: `Spec => []ResultsAgree`. `FlowInv`: what is received, in the
  receiver's hand and in the connection is at most what the sender has counted and the
  block it has in hand. `ResultsInv` follows a number to the other host: between its
  report and the exchange the server's counters stay within one block of its report
  (`ReportInv`: a worker may still count the block it had in hand, and `send_results`
  reads the counters again), and what is on the way to the client is what the report says
  (`AnswerInv`). `AllGoesOn` reduces the steps that neither count nor report to one case.
* `BlocksCountedOnce`: `Spec => []NothingCountedTwice`. `BytesInv`: as long as omission
  lasts, every interval collected is an omitted one; afterwards the kept intervals, the
  interval counter and the block counted in the total only are together within the total,
  and one more if there was an omission. What has been read and not cleared is at most the
  interval counter (the reason why nothing is counted twice: a block counted between the
  two halves of `iperf_stats_callback` is lost to the intervals, never doubled). The sum
  over the intervals is a recursive function; that it exists and is extended by one term
  is shown with the smallest counterexample (`Smallest`).

`PartsProofs`

* `FailuresUndone`: `[]NothingLeftOpen` of the socket functions, for every set of
  options. `Leads(chain, from, to, leaves)` says of a chain of calls that it leads from
  what is held before to what is held after, and that a failure of any call leaves at most
  `leaves` behind; chains are put together (`Behind`), and each function has its lemma.
  The invariant `OnTheWay` is then that a function which runs is somewhere along its way.
* `SameRunAgain`: `FormSpec => []RunsWhatIsShown`, for any number of runs. `FieldsShowRun`:
  fields blanked, shortened or completed by whichever run still show the last run, and
  so does the host name that a completion has read and not yet written back.
* `StatisticsAreOfRun`: `MonitorSpec => []StatisticsOfRun`, for any rates, numbers of
  seconds and messages anywhere between the lines. `MonitorCounts` relates the state of
  `OM` and what the callback remembers to the seconds of the run in each phase: `SeenRight`
  is the property's account of the seconds shown, `LastIs` says which number the callback
  holds (the one of the last omitted second until a message lowers it, the last measured
  one afterwards). `LookAgain`, `LookOmitted` and `LookSecond` are its steps, one per kind
  of line; `LinesRead` takes them through the lines of several streams, of which only the
  sum counts. `MonitorExtremes` keeps maximum and minimum; `SameOrder` shows that the wrong
  factor of `UnitConverter` does not turn two rates around, and only ties them in the case
  named in section 3. `MonitorAverage` says that the list is that of all runs (`RawsMore`).

* `ReportsMatch`: `ReportSpec => []ReportsAgree`, for any number of streams. `Lists(s, E)`
  says that the lines of `s` are those of `E`, each once; `PassReport` and
  `IntervalReport` give, per direction, the lines that one pass of the summary or of an
  interval prints, from those of one stream (`StreamReport`) and of the sums
  (`SumReport`). A pass is flattened out of the lines of its streams, and `FlattensExists`
  shows with the smallest counterexample that the recursive function behind it exists.
  `ReportInv` says for each host which passes are printed (`HostReport`), that the lines
  so far are theirs (`Contents`), and that the flags which `iperf_print_results` swaps
  between its passes fit the next one (`FlagRight`); `OnePassMore` is the step.

The only assumptions are those on the constants, which TLC evaluates on the runs of these
modules: `BoundsAssumption`, `InputsAssumption`, `UserAssumption`, `ParallelAssumption`,
`OptionsAssumption`, `StopAssumption`, `UdpAssumption`, `SetupsAssumption`,
`FaultsAssumption`, `FormAssumption`, `TransferAssumption` (tests as the options describe
them: a positive duration, intervals and delays that are numbers), `ReportAssumption` (at
least one stream) and `MonitorAssumption` (printed rates are numbers up to 1000, and positive in a unit above
bits: `unit_snprintf` goes to a larger unit only from there on). `Serial`, and `Stoppable
= {}` where a theorem says so, are assumptions about the user.

### Only model-checked

Every invariant that a passing run checks is a theorem. What is left to TLC:

* Liveness: `RunsEnd`, `EngineReturns`, `ServerReturns`, `ClientReturns`, `TestEnds`, and
  that `RunContract`'s fairness is kept. Fairness speaks of `ENABLED`, which the prover
  does not have.

## 5. Not modelled, and why

* The text of iperf's output, JSON and messages in any language, and the parsing of words
  in `OM`: a line is what it says, a JSON object arrives whole, late, garbled or not at
  all.
* Pacing (`iperf_check_throttle`, bursts, the server's limit of the total rate) and
  jitter: arithmetic with times and doubles.
* In `ClientEngine`: `--bidir`, and tests that end by bytes or blocks. The app passes only
  `--time` (`TM` accepts 1 s to 12 h), `--parallel`, `--reverse` and `--omit`. `Session` has
  `--bidir` and tests without a duration as the server sees them.
* Partial writes and reads: `Nwrite` and `Nread` are calls that succeed or fail.
* Failure of `pthread_cancel` and `pthread_join` on a live thread; the memory of the
  server's streams.
* Authentication and SCTP: compiled out, since the build has neither OpenSSL nor SCTP.
* Units: `units.c` and `UnitConverter.kt` compute with doubles and strings. What `OM` makes
  of a printed unit (a factor of 1024 where iperf prints thousands) is in `Monitor`.
* The median and the standard deviation of `OM`: pure functions of a list.
* In `Report`, the returns on a failed allocation of a JSON object (`API:3907`,
  `API:4032`): memory is taken to suffice. Such a return leaves
  `sender_has_retransmits` as the last pass swapped it.
* A block counted between the two halves of `iperf_stats_callback` (`API:3644`) is in the
  totals and in no interval; `Transfer` has it, and no property forbids it.
* File descriptors of the control connection after a stop or a failed `IPERF_DONE`,
  the read end of the pipe and `argv` copies after an early return, a `FILE` closed
  twice (`JNI:249`), stream sockets closed twice by the server (`SRV:277`, `SRV:484`):
  visible in the code, and not part of any state here, since descriptors have no numbers.
* `iperf_reset_stats` leaves `bytes_received` and `blocks_received` alone (`API:3501`),
  which matters for `-n` and `-k` with `--reverse` and `--omit` only; the UDP counts it
  copies while the worker goes on counting (`API:3506`).
* Side effects inside a StateFlow update function (`VM:165`), repeated when the
  compare-and-set is retried: the lists they append to are text for display.
* Views: they render `UiData`.

## 6. Findings

Each is a run with expected violation; the trace is the evidence.

1. `FinalMessageTruthful`: `stop_requested` is cleared at `JNI:252` only. A stop of a
   run that leaves early, or that comes after this line, makes the next run end with
   "Test was stopped by user." though nobody stopped it.
2. `StopSticks`: a stop while connecting is only `done = 1`, since the control socket
   is -1; `TEST_START` sets `done = 0` (`CL:224`) and the whole test runs behind a UI
   that shows it finished.
3. `ValidArgsAccepted`: `optind` is reset after the option loop only (`API:1872`); a
   refusal inside the loop makes the next, valid, arguments fail.
4. `StopReaches`: `startTest` sets `isIperfRunning = false` on Main (`TM:200`) right
   after starting the job; when that comes after the job's own `= true`, `cancelTest`
   returns at once for the rest of the run and Stop does nothing in native code.
5. `NoWorkerOutlivesTest`: a stop during an upload leaves the loop past the branch
   that joins the senders; only receivers are joined after it (`CL:790`), and
   `iperf_free_test` frees the streams under the running sender threads.

## 7. Plan

Done: the modules of section 2, and the proofs of section 4.

Next, in this order:

1. `Session` as a refinement of an abstract protocol in which the phases of the two ends
   differ by the messages on their way.
2. End criteria other than time, with `iperf_reset_stats`, and the pacing of senders, as an
   extension of `Transfer`.
