------------------------------- MODULE Transfer -------------------------------
(***************************************************************************)
(* One stream of a test on both hosts from TEST_RUNNING to the summary:    *)
(* the worker thread that moves and counts the data, the control thread    *)
(* that runs the timers, collects and prints the intervals, ends the test  *)
(* and exchanges the results.  Data is counted in blocks.  A worker adds   *)
(* to the total and to the interval in two steps, and the control thread   *)
(* reads and clears the interval in two steps: the counters are atomic,    *)
(* what is done with them is not.                                          *)
(***************************************************************************)
EXTENDS Timers, Integers

CONSTANTS
    Setups,    \* the tests to consider
    Grace,     \* how long the server waits beyond the end of the test
    Horizon,   \* the clock stops here
    MaxLate,   \* how many ticks late a control thread may be
    MaxBlocks, \* bound on the data
    Window     \* blocks the connection holds

ASSUME TransferAssumption ==
    /\ {Grace, Horizon, MaxLate, MaxBlocks, Window} \subseteq Nat
    /\ \A s \in Setups :
         /\ s.dir \in {"up", "down"}
         /\ s.duration \in Nat \ {0} /\ s.omit \in Nat
         /\ {s.interval, s.late} \subseteq [{"client", "server"} -> Nat]

VARIABLES
    setup,  \* the test
    now,    \* the clock
    queue,  \* the timers of each host
    walk,   \* where its tmr_run is, and the time it was called with
    test,   \* of struct iperf_test: phase, done, omitting
    result, \* of struct iperf_stream_result, and what has been printed
    taken,  \* what iperf_stats_callback has read and not yet cleared
    worker, \* the worker threads
    pipe,   \* blocks in the connection
    wire    \* messages on the control connection, by receiver

vars == <<setup, now, queue, walk, test, result, taken, worker, pipe, wire>>

Host == {"client", "server"}
Timer == {"timer", "stats", "reporter", "omit"}
NULL == <<>>
Idle == [at |-> NoTimer, now |-> 0]

Sender(h) == h = IF setup.dir = "up" THEN "client" ELSE "server"
Peer(h) == IF h = "client" THEN "server" ELSE "client"
Period(h, t) == IF t \in {"stats", "reporter"} THEN setup.interval[h] ELSE 0

(* create_client_timers, create_server_timers: -i 0 is no interval          *)
CreateTimers(s, h) ==
    LET empty == [order |-> <<>>, due |-> [t \in Timer |-> 0]]
        end == s.duration + s.omit + IF h = "server" THEN Grace ELSE 0
        test0 == Create(empty, "timer", 0, end)
        i == s.interval[h]
    IN  IF i = 0 THEN test0 ELSE Create(Create(test0, "stats", 0, i), "reporter", 0, i)

(* create_client_omit_timer, create_server_omit_timer: the clock is read    *)
(* anew, a moment or a tick later                                           *)
CreateOmitTimer(s, h, q) ==
    IF s.omit = 0 THEN q ELSE Create(q, "omit", s.late[h], s.omit)

(* iperf_init_test, iperf_create_send_timers: every stream starts from 0 *)
Init ==
    /\ setup \in Setups
    /\ now = 0
    /\ queue = [h \in Host |-> CreateOmitTimer(setup, h, CreateTimers(setup, h))]
    /\ walk = [h \in Host |-> Idle]
    /\ test = [h \in Host |-> [phase |-> "running", done |-> FALSE,
                               omitting |-> setup.omit # 0]]
    /\ result = [h \in Host |->
                   [sent |-> 0, sentOmit |-> 0, received |-> 0, part |-> 0,
                    start |-> 0, end |-> 0, time |-> 0, intervals |-> <<>>,
                    printed |-> <<>>, summary |-> NULL]]
    /\ taken = [h \in Host |-> NULL]
    /\ worker = [h \in Host |-> "loop"]
    /\ pipe = 0
    /\ wire = [h \in Host |-> <<>>]

Running(h) == test[h].phase = "running"

(* A callback takes less than a tick; messages may take longer *)
Tick ==
    /\ now < Horizon
    /\ \A h \in Host :
         /\ walk[h] = Idle
         /\ Running(h) => ~IsDue(queue[h], First(queue[h]), now - MaxLate)
    /\ now' = now + 1
    /\ UNCHANGED <<setup, queue, walk, test, result, taken, worker, pipe, wire>>

-----------------------------------------------------------------------------
(* The workers, iperf_client_worker_run and iperf_server_worker_run: a loop *)
(* that ends when the test is done                                          *)

Becomes(h, w) == worker' = [worker EXCEPT ![h] = w]

(* iperf_tcp_send, Nwrite; a burst does not look at done in between.  The   *)
(* server closes the socket before it reports                               *)
Send(h) ==
    /\ Sender(h) /\ worker[h] = "loop"
    /\ test[h].phase \in {"running", "ending"}
    /\ pipe < Window /\ result[h].sent < MaxBlocks
    /\ pipe' = pipe + 1
    /\ Becomes(h, "moved")
    /\ UNCHANGED <<setup, now, queue, walk, test, result, taken, wire>>

(* iperf_tcp_recv, Nrecv_no_select *)
Receive(h) ==
    /\ ~Sender(h) /\ worker[h] = "loop" /\ ~test[h].done
    /\ pipe > 0
    /\ pipe' = pipe - 1
    /\ Becomes(h, "moved")
    /\ UNCHANGED <<setup, now, queue, walk, test, result, taken, wire>>

(* bytes_sent += r; bytes_received += r, only while the test is running *)
CountTotal(h) ==
    /\ worker[h] = "moved"
    /\ IF Sender(h)
       THEN result' = [result EXCEPT ![h].sent = @ + 1] /\ Becomes(h, "counted")
       ELSE IF Running(h)
       THEN result' = [result EXCEPT ![h].received = @ + 1] /\ Becomes(h, "counted")
       ELSE UNCHANGED result /\ Becomes(h, "loop")
    /\ UNCHANGED <<setup, now, queue, walk, test, taken, pipe, wire>>

(* bytes_sent_this_interval += r, bytes_received_this_interval += r *)
CountPart(h) ==
    /\ worker[h] = "counted"
    /\ result' = [result EXCEPT ![h].part = @ + 1]
    /\ Becomes(h, "loop")
    /\ UNCHANGED <<setup, now, queue, walk, test, taken, pipe, wire>>

-----------------------------------------------------------------------------
(* Statistics and reports, on a struct iperf_stream_result *)

(* Mutant: the interval counter is not cleared *)
AddIntervalKeeps(r, bytes, omitting) ==
    LET from == IF r.intervals = <<>> THEN r.start ELSE r.end
        new == [bytes |-> bytes, omitted |-> omitting, start |-> from, end |-> now]
    IN  [r EXCEPT !.intervals = Append(@, new), !.end = now]

(* iperf_stats_callback, second half: the interval goes into the list and   *)
(* the interval counter is cleared                                          *)
AddInterval(r, bytes, omitting) ==
    LET from == IF r.intervals = <<>> THEN r.start ELSE r.end
        new == [bytes |-> bytes, omitted |-> omitting, start |-> from, end |-> now]
    IN  [r EXCEPT !.intervals = Append(@, new), !.part = 0, !.end = now]

(* iperf_reset_stats *)
ResetStats(r) ==
    [r EXCEPT !.sentOmit = r.sent, !.received = 0, !.part = 0, !.start = now]

Kept(h, i) == 10 * (i.end - i.start) >= setup.interval[h] \/ i.bytes > 0

(* iperf_print_intermediate, print_interval_results: the last interval *)
PrintLast(h, r) ==
    LET last == Len(r.intervals)
    IN  IF last > 0 /\ Kept(h, r.intervals[last])
        THEN [r EXCEPT !.printed = Append(@, last)] ELSE r

(* iperf_time_diff has no sign *)
Elapsed(r) == IF r.end >= r.start THEN r.end - r.start ELSE r.start - r.end

(* iperf_print_results: the times of a side that sent none are its own *)
Summarise(r, sends) ==
    LET own == Elapsed(r)
        other == IF r.time = 0 THEN own ELSE r.time
    IN  [r EXCEPT !.summary =
           [sent |-> r.sent - r.sentOmit, received |-> r.received,
            senderTime |-> IF sends THEN own ELSE other,
            receiverTime |-> IF sends THEN other ELSE own]]

-----------------------------------------------------------------------------
(* The control thread: the timers *)

(* tmr_run is called when tmr_timeout says that it is time.  The client     *)
(* runs timers in TEST_RUNNING only, and ends the test when it can          *)
MayEnd(h) == h = "client" /\ test[h].done /\ ~test[h].omitting

StartWalk(h) ==
    /\ Running(h) /\ walk[h] = Idle /\ ~MayEnd(h)
    /\ IsDue(queue[h], First(queue[h]), now)
    /\ walk' = [walk EXCEPT ![h] = [at |-> First(queue[h]), now |-> now]]
    /\ UNCHANGED <<setup, now, queue, test, result, taken, worker, pipe, wire>>

(* After its callback a periodic timer is rescheduled, another cancelled,   *)
(* and the walk goes on with the timer that followed before the callback    *)
Walked(h, after) ==
    LET t == walk[h].at
        next == Following(queue[h], t)
        q == IF Period(h, t) > 0 THEN Reschedule(after, t, Period(h, t)) ELSE Cancel(after, t)
    IN  /\ queue' = [queue EXCEPT ![h] = q]
        /\ walk' = [walk EXCEPT ![h] =
                      IF IsDue(q, next, @.now) THEN [@ EXCEPT !.at = next] ELSE Idle]

(* test_timer_proc *)
TestTimer(h) ==
    /\ h = "client" /\ walk[h].at = "timer"
    /\ test' = [test EXCEPT ![h].done = TRUE]
    /\ Walked(h, queue[h])
    /\ UNCHANGED <<setup, now, result, taken, worker, pipe, wire>>

(* server_timer_proc: the streams and the control connection are closed *)
ServerTimer(h) ==
    /\ h = "server" /\ walk[h].at = "timer"
    /\ test' = [test EXCEPT ![h].done = TRUE, ![h].phase = "over"]
    /\ Walked(h, queue[h])
    /\ worker' = [worker EXCEPT ![h] = "gone"]
    /\ pipe' = 0
    /\ wire' = [wire EXCEPT !["client"] = Append(@, [type |-> "closed"])]
    /\ UNCHANGED <<setup, now, result, taken>>

(* client_stats_timer_proc, server_stats_timer_proc: a test that is done is *)
(* left alone                                                               *)
StatsTimerIdle(h) ==
    /\ walk[h].at = "stats" /\ test[h].done
    /\ Walked(h, queue[h])
    /\ UNCHANGED <<setup, now, test, result, taken, worker, pipe, wire>>

(* iperf_stats_callback, first half, by the timer or at the end *)
ReadPart(h) ==
    /\ taken[h] = NULL
    /\ \/ walk[h].at = "stats" /\ ~test[h].done
       \/ test[h].phase = "ending"
    /\ taken' = [taken EXCEPT ![h] = <<result[h].part>>]
    /\ UNCHANGED <<setup, now, queue, walk, test, result, worker, pipe, wire>>

StatsTimer(h) ==
    /\ walk[h].at = "stats" /\ taken[h] # NULL
    /\ result' = [result EXCEPT ![h] =
                    AddInterval(@, taken[h][1], test[h].omitting)]
    /\ taken' = [taken EXCEPT ![h] = NULL]
    /\ Walked(h, queue[h])
    /\ UNCHANGED <<setup, now, test, worker, pipe, wire>>

(* client_reporter_timer_proc, server_reporter_timer_proc *)
ReporterTimer(h) ==
    /\ walk[h].at = "reporter"
    /\ result' = [result EXCEPT ![h] = IF test[h].done THEN @ ELSE PrintLast(h, @)]
    /\ Walked(h, queue[h])
    /\ UNCHANGED <<setup, now, test, taken, worker, pipe, wire>>

(* Mutant: the reporter keeps its time while the statistics start anew *)
OmitTimerOnlyStats(h) ==
    LET later(q, t) == Reset(q, t, walk[h].now, setup.interval[h])
    IN  /\ walk[h].at = "omit"
        /\ test' = [test EXCEPT ![h].omitting = FALSE]
        /\ result' = [result EXCEPT ![h] = ResetStats(@)]
        /\ Walked(h, later(queue[h], "stats"))
        /\ UNCHANGED <<setup, now, taken, worker, pipe, wire>>

(* Mutant: the omit callback forgets that the test is omitting *)
OmitTimerForgets(h) ==
    LET later(q, t) == Reset(q, t, walk[h].now, setup.interval[h])
    IN  /\ walk[h].at = "omit"
        /\ UNCHANGED test
        /\ result' = [result EXCEPT ![h] = ResetStats(@)]
        /\ Walked(h, later(later(queue[h], "stats"), "reporter"))
        /\ UNCHANGED <<setup, now, taken, worker, pipe, wire>>

(* client_omit_timer_proc, server_omit_timer_proc *)
OmitTimer(h) ==
    LET later(q, t) == Reset(q, t, walk[h].now, setup.interval[h])
    IN  /\ walk[h].at = "omit"
        /\ test' = [test EXCEPT ![h].omitting = FALSE]
        /\ result' = [result EXCEPT ![h] = ResetStats(@)]
        /\ Walked(h, later(later(queue[h], "stats"), "reporter"))
        /\ UNCHANGED <<setup, now, taken, worker, pipe, wire>>

-----------------------------------------------------------------------------
(* The control thread: the end of the test *)

Tell(h, message) == wire' = [wire EXCEPT ![h] = Append(@, message)]
Gets(h, type) == wire[h] # <<>> /\ Head(wire[h]).type = type
Moves(h, phase) == test' = [test EXCEPT ![h].phase = phase]

(* iperf_run_client: the test is done, not omitting, and tmr_run is over;   *)
(* a sender is cancelled wherever it is                                     *)
ClientEnds ==
    /\ Running("client") /\ walk["client"] = Idle /\ MayEnd("client")
    /\ Moves("client", "ending")
    /\ worker' = IF Sender("client") THEN [worker EXCEPT !["client"] = "gone"]
                 ELSE worker
    /\ UNCHANGED <<setup, now, queue, walk, result, taken, pipe, wire>>

(* The last interval, and TEST_END *)
ClientEnded ==
    /\ test["client"].phase = "ending" /\ taken["client"] # NULL
    /\ result' = [result EXCEPT !["client"] =
                    AddInterval(@, taken["client"][1], test["client"].omitting)]
    /\ taken' = [taken EXCEPT !["client"] = NULL]
    /\ Moves("client", "ended")
    /\ Tell("server", [type |-> "TEST_END"])
    /\ UNCHANGED <<setup, now, queue, walk, worker, pipe>>

(* iperf_handle_message_server, TEST_END *)
ServerEnds ==
    /\ Running("server") /\ walk["server"] = Idle /\ Gets("server", "TEST_END")
    /\ test' = [test EXCEPT !["server"] = [@ EXCEPT !.phase = "ending", !.done = TRUE]]
    /\ wire' = [wire EXCEPT !["server"] = Tail(@)]
    /\ UNCHANGED <<setup, now, queue, walk, result, taken, worker, pipe>>

(* The last interval; the sockets are closed and what they held is lost *)
ServerCloses ==
    /\ test["server"].phase = "ending" /\ taken["server"] # NULL
    /\ result' = [result EXCEPT !["server"] =
                    AddInterval(@, taken["server"][1], test["server"].omitting)]
    /\ taken' = [taken EXCEPT !["server"] = NULL]
    /\ Moves("server", "closed")
    /\ pipe' = 0
    /\ UNCHANGED <<setup, now, queue, walk, worker, wire>>

(* Its report, before it knows the results of the client; EXCHANGE_RESULTS *)
ServerReports ==
    /\ test["server"].phase = "closed"
    /\ result' = [result EXCEPT !["server"] = Summarise(PrintLast("server", @), Sender("server"))]
    /\ Moves("server", "reported")
    /\ Tell("client", [type |-> "EXCHANGE_RESULTS"])
    /\ UNCHANGED <<setup, now, queue, walk, taken, worker, pipe>>

(* Mutant: what was sent while omitting is reported too *)
ResultsWithOmitted(h) ==
    LET r == result[h]
    IN  [type |-> "results", time |-> Elapsed(r),
         bytes |-> IF Sender(h) THEN r.sent ELSE r.received]

(* send_results *)
Results(h) ==
    LET r == result[h]
    IN  [type |-> "results", time |-> Elapsed(r),
         bytes |-> IF Sender(h) THEN r.sent - r.sentOmit ELSE r.received]

(* get_results: a sender learns what was received, a receiver what was sent *)
Learn(h, r, m) ==
    IF Sender(h) THEN [r EXCEPT !.received = m.bytes, !.time = m.time]
    ELSE [r EXCEPT !.sent = m.bytes, !.time = m.time]

(* iperf_exchange_results on the client: send, then get *)
ClientSendsResults ==
    /\ test["client"].phase = "ended" /\ Gets("client", "EXCHANGE_RESULTS")
    /\ Moves("client", "exchange")
    /\ wire' = [client |-> Tail(wire["client"]),
                server |-> Append(wire["server"], Results("client"))]
    /\ UNCHANGED <<setup, now, queue, walk, result, taken, worker, pipe>>

(* ... and on the server: get, then send, and DISPLAY_RESULTS *)
ServerExchanges ==
    /\ test["server"].phase = "reported" /\ Gets("server", "results")
    /\ result' = [result EXCEPT !["server"] = Learn("server", @, Head(wire["server"]))]
    /\ Moves("server", "over")
    /\ wire' = [client |-> Append(wire["client"], Results("server")),
                server |-> Tail(wire["server"])]
    /\ UNCHANGED <<setup, now, queue, walk, taken, worker, pipe>>

(* DISPLAY_RESULTS, iperf_client_end: the report of the client *)
ClientDisplays ==
    /\ test["client"].phase = "exchange" /\ Gets("client", "results")
    /\ LET r == Learn("client", result["client"], Head(wire["client"]))
       IN  result' = [result EXCEPT !["client"] = Summarise(PrintLast("client", r), Sender("client"))]
    /\ test' = [test EXCEPT !["client"] = [@ EXCEPT !.phase = "over", !.done = TRUE]]
    /\ wire' = [wire EXCEPT !["client"] = Tail(@)]
    /\ worker' = [worker EXCEPT !["client"] = "gone"]
    /\ UNCHANGED <<setup, now, queue, walk, taken, pipe>>

(* The server has closed the control connection *)
ClientIsCut ==
    /\ ~Running("client") /\ Gets("client", "closed")
    /\ test["client"].phase \in {"ended", "exchange"}
    /\ Moves("client", "over")
    /\ wire' = [wire EXCEPT !["client"] = Tail(@)]
    /\ worker' = [worker EXCEPT !["client"] = "gone"]
    /\ UNCHANGED <<setup, now, queue, walk, result, taken, pipe>>

-----------------------------------------------------------------------------
WorkerStep(h) ==
    Send(h) \/ Receive(h) \/ CountTotal(h) \/ CountPart(h)

TimerStep(h) ==
    \/ StartWalk(h) \/ TestTimer(h) \/ ServerTimer(h) \/ StatsTimerIdle(h)
    \/ ReadPart(h) \/ StatsTimer(h) \/ ReporterTimer(h) \/ OmitTimer(h)

EndStep ==
    \/ ClientEnds \/ ClientEnded \/ ServerEnds \/ ServerCloses \/ ServerReports
    \/ ClientSendsResults \/ ServerExchanges \/ ClientDisplays \/ ClientIsCut

Next == Tick \/ EndStep \/ \E h \in Host : WorkerStep(h) \/ TimerStep(h)

(* As long as the clock or a control thread can go on, one of them does;    *)
(* nothing is assumed of the workers                                        *)
Control == Tick \/ EndStep \/ \E h \in Host : TimerStep(h)

Spec == Init /\ [][Next]_vars /\ WF_vars(Control)

-----------------------------------------------------------------------------
(* tmr_run holds on to a timer over callbacks that move others: the list    *)
(* stays sorted without duplicates, the walk is always at a timer that is   *)
(* in the list, and the statistics stand right before the report            *)
TimersSound ==
    \A h \in Host :
        /\ Sorted(queue[h])
        /\ walk[h] # Idle => Armed(queue[h], walk[h].at)
        /\ Armed(queue[h], "stats") /\ walk[h].at # "reporter" =>
             Following(queue[h], "stats") = "reporter"

(* Every interval that iperf_print_intermediate does not ignore is printed  *)
(* once, whatever is late: a report never repeats an interval and none is   *)
(* collected before the one before it has been printed                      *)
PrintedOnce ==
    \A h \in Host :
        LET r == result[h]
            n == Len(r.intervals)
        IN  /\ \A i \in 1 .. Len(r.printed) - 1 : r.printed[i] < r.printed[i + 1]
            /\ \A i \in 1 .. n - 1 :
                 Kept(h, r.intervals[i]) => \E j \in DOMAIN r.printed : r.printed[j] = i

KeptBytes(r) ==
    LET sum[i \in 0 .. Len(r.intervals)] ==
          IF i = 0 THEN 0
          ELSE sum[i - 1] + IF r.intervals[i].omitted THEN 0 ELSE r.intervals[i].bytes
    IN  sum[Len(r.intervals)]

Counted(h) ==
    IF Sender(h) THEN result[h].sent - result[h].sentOmit ELSE result[h].received

(* The intervals after the omitted ones never show more than the total      *)
(* does, but for one block that was being counted when omitting ended       *)
NothingCountedTwice ==
    \A h \in Host :
        ~test[h].omitting =>
            KeptBytes(result[h]) <= Counted(h) + IF setup.omit > 0 THEN 1 ELSE 0

(* The two hosts print the same numbers for the same thing, but for the     *)
(* block a worker had in hand; and without omitting, what is received was   *)
(* sent, but for the block of a sender that was cancelled before it counted *)
Near(a, b) == a - b \in {-1, 0, 1}

ResultsAgree ==
    LET c == result["client"].summary
        s == result["server"].summary
        known(x) == IF setup.dir = "up" THEN x.received ELSE x.sent
        time(x) == IF setup.dir = "up" THEN x.receiverTime ELSE x.senderTime
    IN  c # NULL /\ s # NULL =>
            /\ Near(known(c), known(s))
            /\ time(s) > 0 => time(c) = time(s)
            /\ setup.omit = 0 => c.received <= c.sent + 1

(* No timer that is due is lost: omitting ends, the test ends and the       *)
(* client gets to the end of it                                             *)
TestEnds == <>(test["client"].phase = "over")
===============================================================================
