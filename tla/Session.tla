------------------------------- MODULE Session -------------------------------
(***************************************************************************)
(* iperf clients and one iperf server (iperf_server_api.c, the loop of     *)
(* main.c), over control connections that are byte streams.  A client is   *)
(* iperf_run_client seen from outside: what it reads, what it writes, when *)
(* it closes.  One server, one session at a time; other clients knock.     *)
(*                                                                         *)
(* A connection is <<client, k>>: k = 0 is the control connection, k > 0   *)
(* the k-th stream connection.  What travels on a control connection are   *)
(* "cookie", one byte per state, and JSON in two writes, "len" and "json". *)
(* "cut" is what is left of a cookie read one byte out of place, "errno"   *)
(* the two numbers after SERVER_ERROR.                                     *)
(***************************************************************************)
EXTENDS Naturals, Sequences

CONSTANTS
    Client,     \* the clients
    Setups,     \* the options of the clients to consider
    MaxFaults   \* how often may somebody stop, vanish, be slow or fail?

(* What send_parameters sends only when it is set and get_parameters takes *)
Option == {"server_affinity", "MSS", "nodelay", "window", "bandwidth", "fqrate",
           "burst", "TOS", "title", "extra_data", "congestion",
           "get_server_output", "udp_counters_64bit", "repeating_payload",
           "zerocopy", "dont_fragment", "skip_rx_copy"}

(* --reverse is "down", --bidir "both"; streams is --parallel, and a test   *)
(* is timed unless it ends with a number of bytes or blocks                 *)
IsSetup(r) ==
    /\ DOMAIN r = {"dir", "streams", "asks", "timed"}
    /\ r.dir \in {"up", "down", "both"} /\ r.streams \in Nat \ {0}
    /\ r.asks \subseteq Option /\ r.timed \in BOOLEAN

ASSUME SetupsAssumption ==
    \A s \in Setups : DOMAIN s = Client /\ \A c \in Client : IsSetup(s[c])
ASSUME FaultsAssumption == MaxFaults \in Nat

VARIABLES
    setup,    \* the options of each client
    cl,       \* the clients: pc, state, next stream, and history
    srv,      \* the server's struct iperf_test
    backlog,  \* connections nobody has accepted yet
    c2s, s2c, \* bytes on the way on the control connections
    link,     \* the server's end of the control connections
    faults    \* faults so far

vars == <<setup, cl, srv, backlog, c2s, s2c, link, faults>>

NULL == <<>>
Announcement == {"PARAM_EXCHANGE", "CREATE_STREAMS", "TEST_START",
                 "TEST_RUNNING", "EXCHANGE_RESULTS", "DISPLAY_RESULTS"}
Refusal == {"ACCESS_DENIED", "SERVER_ERROR", "SERVER_TERMINATE"}
Told == {"TEST_END", "CLIENT_TERMINATE", "IPERF_DONE"}
State == Announcement \cup Refusal \cup Told \cup {"NEW"}
ClientPc == {"idle", "cookie", "select", "params", "paramsBody", "streams",
             "ending", "results", "resultsBody", "getResults", "over"}
ServerPc == {"listen", "select", "cookie", "params", "results", "cleanup",
             "reset", "exited", "gone"}

Connection == Client \X Nat
Stream == [owner : Client, conn : Nat, id : Nat, sender : BOOLEAN]

Init ==
    /\ setup \in Setups
    /\ cl = [c \in Client |->
               [pc |-> "idle", state |-> "NEW", next |-> 1, armed |-> FALSE,
                closed |-> FALSE, stopped |-> FALSE, accepted |-> FALSE,
                trouble |-> FALSE, crossed |-> FALSE, finished |-> FALSE,
                outcome |-> "none"]]
    /\ srv = [pc |-> "listen", state |-> "NEW", ctrl |-> NULL,
              listening |-> FALSE, streams |-> <<>>, done |-> FALSE,
              workers |-> FALSE, held |-> {}]
    /\ backlog = <<>>
    /\ c2s = [c \in Client |-> <<>>] /\ s2c = [c \in Client |-> <<>>]
    /\ link = [c \in Client |-> "none"]
    /\ faults = 0

-----------------------------------------------------------------------------
(* Directions and the order of the streams *)

(* iperf_set_test_role, iperf_set_test_reverse on the server *)
ServerMode(c) == [up |-> "RECEIVER", down |-> "SENDER",
                  both |-> "BIDIRECTIONAL"][setup[c].dir]

(* iperf_create_streams: in a bidirectional test the senders come first *)
Connections(c) == IF setup[c].dir = "both" THEN 2 * setup[c].streams
                  ELSE setup[c].streams
ClientSends(c, k) == \/ setup[c].dir = "up"
                     \/ setup[c].dir = "both" /\ k <= setup[c].streams

(* Mutant: the server counts the streams it sends on first. *)
ServerSendsFirst(c, i) == \/ setup[c].dir = "down"
                          \/ setup[c].dir = "both" /\ i <= setup[c].streams

(* iperf_run_server: the first streams_to_rec connections are received *)
ServerSends(c, i) == i > IF setup[c].dir = "down" THEN 0 ELSE setup[c].streams

(* iperf_add_stream, on either side, after n others: 1, 3, 4, ... *)
NewId(n) == IF n = 0 THEN 1 ELSE n + 2

-----------------------------------------------------------------------------
(* Sockets *)

ToServer(c, bytes) ==
    c2s' = [c2s EXCEPT ![c] = IF link[c] = "open" THEN @ \o bytes ELSE @]

ToClient(c, bytes) ==
    s2c' = [s2c EXCEPT ![c] = IF cl[c].closed THEN @ ELSE @ \o bytes]

(* What the server leaves unread is thrown away when it closes its end *)
Shut(cs) == /\ link' = [c \in Client |-> IF c \in cs THEN "shut" ELSE link[c]]
            /\ c2s' = [c \in Client |-> IF c \in cs THEN <<>> ELSE c2s[c]]

Elements(s) == {s[i] : i \in DOMAIN s}
(* The clients whose control connection nobody has accepted yet *)
Waiting == {c \in Client : <<c, 0>> \in Elements(backlog)}

(* JSON_read wants the four bytes of a length and that many bytes that      *)
(* parse.  A state byte before the length makes the length absurd; one      *)
(* after it is white space to the parser, and the last brace is missing.    *)
Framed(q) == Len(q) >= 2 /\ q[1] = "len" /\ q[2] = "json"
Garbled(q) == \/ Len(q) >= 2 /\ q[1] # "len"
              \/ Len(q) >= 3 /\ q[2] # "json"

Fault == faults < MaxFaults /\ faults' = faults + 1

-----------------------------------------------------------------------------
(* A client.  Every handler ends at the test of the loop, which            *)
(* IPERF_DONE leaves.                                                       *)

Over(r, how) == [r EXCEPT !.pc = "over", !.outcome = how]

Back(r) == IF r.state = "IPERF_DONE" THEN Over(r, "done")
           ELSE [r EXCEPT !.pc = "select"]

(* cleanup_and_fail and iperf_client_end: a positive state sends IPERF_DONE *)
Fails(c, state) ==
    /\ cl' = [cl EXCEPT ![c] = [Over(@, "failed") EXCEPT !.state = state,
                                                         !.closed = TRUE]]
    /\ s2c' = [s2c EXCEPT ![c] = <<>>]
    /\ IF state \in {"NEW", "ACCESS_DENIED", "SERVER_ERROR"} THEN UNCHANGED c2s
       ELSE ToServer(c, <<"IPERF_DONE">>)

(* netdial of the control connection *)
Dial(c) ==
    /\ cl[c].pc = "idle"
    /\ IF srv.listening
         THEN /\ cl' = [cl EXCEPT ![c].pc = "cookie"]
              /\ backlog' = Append(backlog, <<c, 0>>)
              /\ link' = [link EXCEPT ![c] = "open"]
         ELSE /\ cl' = [cl EXCEPT ![c] = Over(@, "failed")]
              /\ UNCHANGED <<backlog, link>>
    /\ UNCHANGED <<setup, srv, c2s, s2c, faults>>

SendCookie(c) ==
    /\ cl[c].pc = "cookie"
    /\ ToServer(c, <<"cookie">>)
    /\ cl' = [cl EXCEPT ![c] = Back(@)]
    /\ UNCHANGED <<setup, srv, backlog, s2c, link, faults>>

(* iperf_handle_message_client reads a byte into test->state: also over the *)
(* IPERF_DONE of a forceStop that came after the test of the loop.          *)
Receive(c) ==
    /\ cl[c].pc = "select"
    /\ s2c[c] # <<>>
    /\ LET m == Head(s2c[c])
           r == [cl[c] EXCEPT !.state = m]
       IN /\ m \in Announcement \ {"DISPLAY_RESULTS"}
          /\ cl' = [cl EXCEPT ![c] =
                     CASE m = "PARAM_EXCHANGE" -> [r EXCEPT !.pc = "params"]
                       [] m = "CREATE_STREAMS" -> [r EXCEPT !.pc = "streams"]
                       [] m = "EXCHANGE_RESULTS" -> [r EXCEPT !.pc = "results"]
                       [] m = "TEST_START" -> [r EXCEPT !.armed = TRUE]
                       [] OTHER -> r]
    /\ s2c' = [s2c EXCEPT ![c] = Tail(@)]
    /\ UNCHANGED <<setup, srv, backlog, c2s, link, faults>>

(* DISPLAY_RESULTS: iperf_client_end says goodbye and closes *)
Finish(c) ==
    /\ cl[c].pc = "select"
    /\ s2c[c] # <<>> /\ Head(s2c[c]) = "DISPLAY_RESULTS"
    /\ cl' = [cl EXCEPT ![c] = [Over(@, "done") EXCEPT !.state = "IPERF_DONE",
                                                       !.closed = TRUE]]
    /\ s2c' = [s2c EXCEPT ![c] = <<>>]
    /\ ToServer(c, <<"IPERF_DONE">>)
    /\ UNCHANGED <<setup, srv, backlog, link, faults>>

(* SERVER_TERMINATE, ACCESS_DENIED, SERVER_ERROR *)
Refused(c) ==
    /\ cl[c].pc = "select"
    /\ s2c[c] # <<>> /\ Head(s2c[c]) \in Refusal
    /\ Fails(c, Head(s2c[c]))
    /\ UNCHANGED <<setup, srv, backlog, link, faults>>

(* JSON_write of the parameters and of the results, in two Nwrites *)
SendLength(c) ==
    /\ cl[c].pc \in {"params", "results"}
    /\ ToServer(c, <<"len">>)
    /\ cl' = [cl EXCEPT ![c].pc = IF @ = "params" THEN "paramsBody"
                                  ELSE "resultsBody"]
    /\ UNCHANGED <<setup, srv, backlog, s2c, link, faults>>

SendBody(c) ==
    /\ cl[c].pc \in {"paramsBody", "resultsBody"}
    /\ ToServer(c, <<"json">>)
    /\ cl' = [cl EXCEPT ![c] = IF @.pc = "paramsBody" THEN Back(@)
                               ELSE [@ EXCEPT !.pc = "getResults"]]
    /\ UNCHANGED <<setup, srv, backlog, s2c, link, faults>>

(* Mutant: the loop over the streams runs once too often. *)
ConnectOneMore(c) ==
    /\ cl[c].pc = "streams"
    /\ srv.listening
    /\ backlog' = Append(backlog, <<c, cl[c].next>>)
    /\ cl' = [cl EXCEPT ![c] = IF @.next > Connections(c) THEN Back(@)
                               ELSE [@ EXCEPT !.next = @ + 1]]
    /\ UNCHANGED <<setup, srv, c2s, s2c, link, faults>>

(* iperf_create_streams, one iperf_tcp_connect: it goes to whoever listens *)
ConnectStream(c) ==
    /\ cl[c].pc = "streams"
    /\ srv.listening
    /\ backlog' = Append(backlog, <<c, cl[c].next>>)
    /\ cl' = [cl EXCEPT ![c] = IF @.next = Connections(c) THEN Back(@)
                               ELSE [@ EXCEPT !.next = cl[c].next + 1]]
    /\ UNCHANGED <<setup, srv, c2s, s2c, link, faults>>

StreamRefused(c) ==
    /\ cl[c].pc = "streams"
    /\ ~srv.listening
    /\ Fails(c, cl[c].state)
    /\ UNCHANGED <<setup, srv, backlog, link, faults>>

(* The test is done: test_timer_proc has run, or enough has been sent, for  *)
(* which somebody must take it                                              *)
Expire(c) ==
    /\ cl[c].pc = "select" /\ cl[c].state = "TEST_RUNNING"
    /\ setup[c].timed \/ srv.pc # "gone"
    /\ cl' = [cl EXCEPT ![c].pc = "ending"]
    /\ UNCHANGED <<setup, srv, backlog, c2s, s2c, link, faults>>

SendEnd(c) ==
    /\ cl[c].pc = "ending"
    /\ cl' = [cl EXCEPT ![c] = [@ EXCEPT !.pc = "select", !.state = "TEST_END"]]
    /\ ToServer(c, <<"TEST_END">>)
    /\ UNCHANGED <<setup, srv, backlog, s2c, link, faults>>

GetResults(c) ==
    /\ cl[c].pc = "getResults"
    /\ Framed(s2c[c])
    /\ s2c' = [s2c EXCEPT ![c] = SubSeq(@, 3, Len(@))]
    /\ cl' = [cl EXCEPT ![c] = Back(@)]
    /\ UNCHANGED <<setup, srv, backlog, c2s, link, faults>>

(* select wakes up for a timer: the test of the loop sees the IPERF_DONE *)
WakeUp(c) ==
    /\ cl[c].pc = "select" /\ cl[c].armed /\ cl[c].state = "IPERF_DONE"
    /\ cl' = [cl EXCEPT ![c] = Back(@)]
    /\ UNCHANGED <<setup, srv, backlog, c2s, s2c, link, faults>>

(* Mutant: the end of the connection counts as IPERF_DONE, as on the server. *)
LinkLostIsDone(c) ==
    /\ cl[c].pc \notin {"idle", "streams", "over"}
    /\ link[c] = "shut"
    /\ cl' = [cl EXCEPT ![c] = [Over(@, "done") EXCEPT !.closed = TRUE]]
    /\ s2c' = [s2c EXCEPT ![c] = <<>>]
    /\ UNCHANGED <<setup, srv, backlog, c2s, link, faults>>

(* A read or a write finds that the server has closed its end; what had     *)
(* been sent before may be lost with the reset                              *)
LinkLost(c) ==
    /\ cl[c].pc \notin {"idle", "streams", "over"}
    /\ link[c] = "shut"
    /\ Fails(c, cl[c].state)
    /\ UNCHANGED <<setup, srv, backlog, link, faults>>

(* The server's host has vanished, and TCP gives up on what it does not      *)
(* acknowledge: some day, if there is any                                   *)
GivesUp(c) ==
    /\ cl[c].pc \notin {"idle", "streams", "over"}
    /\ srv.pc = "gone"
    /\ Fails(c, cl[c].state)
    /\ UNCHANGED <<setup, srv, backlog, link, faults>>

(* The client's own limits: ten seconds for the results (Nread), rcv_timeout *)
(* for the data it receives                                                 *)
Overdue(c) ==
    \/ cl[c].pc = "getResults" /\ ~Framed(s2c[c])
    \/ /\ cl[c].pc = "select" /\ cl[c].state = "TEST_RUNNING"
       /\ setup[c].dir # "up" /\ s2c[c] = <<>>

(* The server has vanished, or it is too slow *)
TimesOut(c) ==
    /\ Overdue(c)
    /\ IF srv.pc = "gone" THEN UNCHANGED faults ELSE Fault
    /\ cl' = [cl EXCEPT ![c] = [Over(@, "failed") EXCEPT !.trouble = TRUE,
                                                         !.closed = TRUE]]
    /\ s2c' = [s2c EXCEPT ![c] = <<>>]
    /\ ToServer(c, <<"IPERF_DONE">>)
    /\ UNCHANGED <<setup, srv, backlog, link>>

(* forceStop, from another thread *)
Stop(c) ==
    /\ cl[c].pc \notin {"idle", "over"} /\ ~cl[c].stopped
    /\ Fault
    /\ cl' = [cl EXCEPT ![c] = [@ EXCEPT !.stopped = TRUE, !.trouble = TRUE,
                                         !.state = "IPERF_DONE"]]
    /\ ToServer(c, <<"IPERF_DONE">>)
    /\ UNCHANGED <<setup, srv, backlog, s2c, link>>

(* iperf_got_sigend on the client *)
Terminate(c) ==
    /\ cl[c].pc \notin {"idle", "over"}
    /\ Fault
    /\ cl' = [cl EXCEPT ![c] = [Over(@, "failed") EXCEPT
                                  !.trouble = TRUE, !.closed = TRUE,
                                  !.state = "CLIENT_TERMINATE"]]
    /\ s2c' = [s2c EXCEPT ![c] = <<>>]
    /\ ToServer(c, <<"CLIENT_TERMINATE">>)
    /\ UNCHANGED <<setup, srv, backlog, link>>

(* The client's host or the network is gone, and nothing tells the server *)
Vanish(c) ==
    /\ cl[c].pc \notin {"idle", "over"}
    /\ Fault
    /\ cl' = [cl EXCEPT ![c] = [Over(@, "failed") EXCEPT !.trouble = TRUE]]
    /\ UNCHANGED <<setup, srv, backlog, c2s, s2c, link>>

ClientStep(c) ==
    \/ SendCookie(c) \/ Receive(c) \/ Finish(c) \/ Refused(c)
    \/ SendLength(c) \/ SendBody(c) \/ ConnectStream(c) \/ StreamRefused(c)
    \/ Expire(c) \/ SendEnd(c) \/ GetResults(c) \/ WakeUp(c) \/ LinkLost(c)
    \/ srv.pc = "gone" /\ TimesOut(c)

-----------------------------------------------------------------------------
(* The server *)

Serving == srv.ctrl # NULL
Peer == srv.ctrl[1]
(* The control connection is one: a stream connection that came too late    *)
(* is taken for a control connection as well                                *)
Proper == Serving /\ srv.ctrl[2] = 0
Bytes == c2s[Peer]

(* get_parameters leaves what the client did not send as it is *)
Taken(held, sent) == held \cup sent

(* iperf_common_sockopts on a socket that is closed *)
SockoptsFail(held) == "TOS" \in held

(* The options iperf_reset_test puts back *)
Restored == {"congestion", "server_affinity", "nodelay", "window", "bandwidth",
             "fqrate", "burst", "MSS", "TOS", "dont_fragment", "zerocopy",
             "skip_rx_copy", "udp_counters_64bit", "title", "extra_data"}
(* iperf_tcp_listen, and iperf_run_server once more, close the listening    *)
(* socket and make another for these                                        *)
Relisten(held) == held \cap {"nodelay", "MSS", "window"} # {}

GiveUp == [srv EXCEPT !.pc = "cleanup"]

(* iperf_server_listen *)
Listen ==
    /\ srv.pc = "listen"
    /\ srv' = [srv EXCEPT !.pc = "select", !.state = "NEW", !.listening = TRUE]
    /\ UNCHANGED <<setup, cl, backlog, c2s, s2c, link, faults>>

ListenFails ==
    /\ srv.pc = "listen"
    /\ Fault
    /\ srv' = [srv EXCEPT !.pc = "exited"]
    /\ UNCHANGED <<setup, cl, backlog, c2s, s2c, link>>

(* iperf_accept with no client.  A stream connection carries a cookie too, *)
(* so it is greeted with PARAM_EXCHANGE, which nobody reads.                *)
Accept ==
    /\ srv.pc = "select" /\ ~Serving /\ backlog # <<>>
    /\ LET conn == Head(backlog)
       IN IF conn[2] = 0
            THEN /\ srv' = [srv EXCEPT !.pc = "cookie", !.ctrl = conn]
                 /\ cl' = [cl EXCEPT ![conn[1]].accepted = TRUE]
            ELSE /\ srv' = [srv EXCEPT !.pc = "params", !.ctrl = conn,
                                       !.state = "PARAM_EXCHANGE"]
                 /\ UNCHANGED cl
    /\ backlog' = Tail(backlog)
    /\ UNCHANGED <<setup, c2s, s2c, link, faults>>

(* iperf_accept with a client, outside CREATE_STREAMS: ACCESS_DENIED *)
Deny ==
    /\ srv.pc = "select" /\ Serving /\ srv.state # "CREATE_STREAMS"
    /\ backlog # <<>>
    /\ LET conn == Head(backlog)
       IN IF conn[2] = 0
            THEN /\ ToClient(conn[1], <<"ACCESS_DENIED">>)
                 /\ Shut({conn[1]})
            ELSE UNCHANGED <<c2s, s2c, link>>
    /\ backlog' = Tail(backlog)
    /\ UNCHANGED <<setup, cl, srv, faults>>

(* accept fails, or the cookie of a stream connection cannot be read because *)
(* it was reset in the queue: iperf_accept and iperf_tcp_accept return -1,   *)
(* and the session is cleaned up, whoever made that connection               *)
AcceptFails ==
    /\ srv.pc = "select" /\ backlog # <<>>
    /\ Fault
    /\ srv' = GiveUp
    /\ cl' = IF ~Proper THEN cl
             ELSE IF Head(backlog)[1] = Peer
               THEN [cl EXCEPT ![Peer].trouble = TRUE]
               ELSE [cl EXCEPT ![Peer].crossed = TRUE]
    /\ UNCHANGED <<setup, backlog, c2s, s2c, link>>

HasCookie(q) == \/ q # <<>> /\ Head(q) = "cookie"
                \/ Len(q) >= 2 /\ q[1] = "IPERF_DONE" /\ q[2] = "cookie"

(* As many bytes as a cookie has: a byte before it leaves one of its own *)
ReadCookie ==
    /\ srv.pc = "cookie"
    /\ HasCookie(Bytes)
    /\ c2s' = [c2s EXCEPT ![Peer] = IF Head(@) = "cookie" THEN Tail(@)
                                    ELSE <<"cut">> \o SubSeq(@, 3, Len(@))]
    /\ ToClient(Peer, <<"PARAM_EXCHANGE">>)
    /\ srv' = [srv EXCEPT !.pc = "params", !.state = "PARAM_EXCHANGE"]
    /\ UNCHANGED <<setup, cl, backlog, link, faults>>

(* get_parameters, iperf_tcp_listen, CREATE_STREAMS *)
ReadParams ==
    /\ srv.pc = "params" /\ Proper
    /\ Framed(Bytes)
    /\ LET held == Taken(srv.held, setup[Peer].asks)
           lost == IF Relisten(held) THEN Waiting ELSE {}
       IN /\ srv' = [srv EXCEPT !.pc = "select", !.state = "CREATE_STREAMS",
                                !.held = held]
          /\ backlog' = IF Relisten(held) THEN <<>> ELSE backlog
          /\ link' = [c \in Client |-> IF c \in lost THEN "shut" ELSE link[c]]
          /\ c2s' = [c \in Client |-> IF c \in lost THEN <<>>
                                      ELSE IF c = Peer
                                        THEN SubSeq(c2s[c], 3, Len(c2s[c]))
                                        ELSE c2s[c]]
    /\ ToClient(Peer, <<"CREATE_STREAMS">>)
    /\ UNCHANGED <<setup, cl, faults>>

(* The listening socket cannot be made again: SERVER_ERROR and two numbers *)
RelistenFails ==
    /\ srv.pc = "params" /\ Proper
    /\ Framed(Bytes) /\ Relisten(Taken(srv.held, setup[Peer].asks))
    /\ Fault
    /\ srv' = [GiveUp EXCEPT !.state = "SERVER_ERROR"]
    /\ cl' = [cl EXCEPT ![Peer].trouble = TRUE]
    /\ ToClient(Peer, <<"SERVER_ERROR", "errno">>)
    /\ UNCHANGED <<setup, backlog, c2s, link>>

(* Mutant: send timers and threads are made, but TEST_START is not sent. *)
StartsUnannounced(streams, lost) ==
    /\ srv' = [srv EXCEPT !.state = "TEST_RUNNING", !.streams = streams,
                          !.workers = TRUE, !.done = FALSE]
    /\ ToClient(Peer, <<"TEST_RUNNING">>)
    /\ Shut(lost)

(* Everybody is there: TEST_START, iperf_init_test, the timers,             *)
(* TEST_RUNNING, one thread per stream                                      *)
Starts(streams, lost) ==
    /\ srv' = [srv EXCEPT !.state = "TEST_RUNNING", !.streams = streams,
                          !.workers = TRUE, !.done = FALSE]
    /\ ToClient(Peer, <<"TEST_START", "TEST_RUNNING">>)
    /\ Shut(lost)

(* iperf_tcp_accept finds the cookie of the session, iperf_new_stream *)
AcceptStream ==
    /\ srv.pc = "select" /\ Proper /\ srv.state = "CREATE_STREAMS"
    /\ backlog # <<>> /\ Head(backlog)[1] = Peer
    /\ LET i == Len(srv.streams) + 1
           streams == Append(srv.streams,
                             [owner |-> Peer, conn |-> Head(backlog)[2],
                              id |-> NewId(Len(srv.streams)),
                              sender |-> ServerSends(Peer, i)])
           fresh == Relisten(srv.held) /\ i = Connections(Peer)
       IN /\ IF i = Connections(Peer)
               THEN Starts(streams, IF fresh THEN Waiting ELSE {})
               ELSE /\ srv' = [srv EXCEPT !.streams = streams]
                    /\ UNCHANGED <<c2s, s2c, link>>
          /\ backlog' = IF fresh THEN <<>> ELSE Tail(backlog)
    /\ UNCHANGED <<setup, cl, faults>>

(* A temporary file, a mapping or the random bytes of a stream are not to   *)
(* be had                                                                   *)
NewStreamFails ==
    /\ srv.pc = "select" /\ Proper /\ srv.state = "CREATE_STREAMS"
    /\ backlog # <<>> /\ Head(backlog)[1] = Peer
    /\ Fault
    /\ backlog' = Tail(backlog)
    /\ srv' = GiveUp
    /\ cl' = [cl EXCEPT ![Peer].trouble = TRUE]
    /\ UNCHANGED <<setup, c2s, s2c, link>>

(* Mutant: the mark on the closed socket is not looked at. *)
AcceptStrangerAsStream ==
    /\ srv.pc = "select" /\ Proper /\ srv.state = "CREATE_STREAMS"
    /\ backlog # <<>> /\ Head(backlog)[1] # Peer
    /\ backlog' = Tail(backlog)
    /\ srv' = GiveUp
    /\ LET conn == Head(backlog)
       IN IF conn[2] = 0
            THEN /\ ToClient(conn[1], <<"ACCESS_DENIED">>)
                 /\ Shut({conn[1]})
            ELSE UNCHANGED <<c2s, s2c, link>>
    /\ UNCHANGED <<setup, cl, faults>>

(* Somebody else's connection is denied and closed, and its descriptor is   *)
(* returned all the same: iperf_common_sockopts runs on it, and fails when  *)
(* there is a TOS to set.                                                   *)
AcceptStranger ==
    /\ srv.pc = "select" /\ Proper /\ srv.state = "CREATE_STREAMS"
    /\ backlog # <<>> /\ Head(backlog)[1] # Peer
    /\ backlog' = Tail(backlog)
    /\ srv' = IF SockoptsFail(srv.held) THEN GiveUp ELSE srv
    /\ LET conn == Head(backlog)
       IN IF conn[2] = 0
            THEN /\ ToClient(conn[1], <<"ACCESS_DENIED">>)
                 /\ Shut({conn[1]})
            ELSE UNCHANGED <<c2s, s2c, link>>
    /\ UNCHANGED <<setup, cl, faults>>

(* iperf_handle_message_server, TEST_END: up to iperf_exchange_results *)
HandleEnd ==
    /\ srv.pc = "select" /\ Proper
    /\ Bytes # <<>> /\ Head(Bytes) = "TEST_END"
    /\ srv' = [srv EXCEPT !.pc = "results", !.state = "EXCHANGE_RESULTS",
                          !.done = TRUE]
    /\ c2s' = [c2s EXCEPT ![Peer] = Tail(@)]
    /\ ToClient(Peer, <<"EXCHANGE_RESULTS">>)
    /\ UNCHANGED <<setup, cl, backlog, link, faults>>

(* IPERF_DONE, CLIENT_TERMINATE and the end of the connection leave the     *)
(* loop; anything else is an error                                          *)
HandleDone ==
    /\ srv.pc = "select" /\ Proper
    /\ IF Bytes = <<>> THEN cl[Peer].closed ELSE Head(Bytes) # "TEST_END"
    /\ srv' = [GiveUp EXCEPT !.state = IF Bytes = <<>> THEN "IPERF_DONE"
                                       ELSE IF Head(Bytes) \in Told
                                         THEN "IPERF_DONE" ELSE @]
    /\ c2s' = [c2s EXCEPT ![Peer] = IF @ = <<>> THEN @ ELSE Tail(@)]
    /\ UNCHANGED <<setup, cl, backlog, s2c, link, faults>>

(* get_results, send_results, DISPLAY_RESULTS *)
ReadResults ==
    /\ srv.pc = "results"
    /\ Framed(Bytes)
    /\ srv' = [srv EXCEPT !.pc = "select", !.state = "DISPLAY_RESULTS"]
    /\ cl' = [cl EXCEPT ![Peer].finished = TRUE]
    /\ c2s' = [c2s EXCEPT ![Peer] = SubSeq(@, 3, Len(@))]
    /\ ToClient(Peer, <<"len", "json", "DISPLAY_RESULTS">>)
    /\ UNCHANGED <<setup, backlog, link, faults>>

(* The peer will send nothing any more, or it is too slow *)
Late == IF cl[Peer].pc = "over" \/ ~Proper THEN UNCHANGED <<faults, cl>>
        ELSE Fault /\ cl' = [cl EXCEPT ![Peer].trouble = TRUE]

Readable == IF srv.pc = "cookie" THEN HasCookie(Bytes) ELSE Framed(Bytes)

(* Nread and JSON_read give up after ten seconds, or at the end of file *)
ReadTimesOut ==
    /\ srv.pc \in {"cookie", "params", "results"}
    /\ Proper => ~Readable
    /\ Late
    /\ srv' = GiveUp
    /\ UNCHANGED <<setup, backlog, c2s, s2c, link>>

ReadGarbled ==
    /\ srv.pc \in {"params", "results"} /\ Proper
    /\ Garbled(Bytes)
    /\ srv' = GiveUp
    /\ UNCHANGED <<setup, cl, backlog, c2s, s2c, link, faults>>

Quiet == srv.pc = "select" /\ Proper /\ backlog = <<>> /\ Bytes = <<>>
         /\ ~cl[Peer].closed

(* Mutant: a bidirectional test is not watched. *)
ReceiveTimesOutOneWay ==
    /\ Quiet
    /\ ServerMode(Peer) = "RECEIVER"
    /\ Late
    /\ srv' = GiveUp
    /\ UNCHANGED <<setup, backlog, c2s, s2c, link>>

(* Nothing received for rcv_timeout, where the server receives *)
ReceiveTimesOut ==
    /\ Quiet
    /\ ServerMode(Peer) # "SENDER"
    /\ Late
    /\ srv' = GiveUp
    /\ UNCHANGED <<setup, backlog, c2s, s2c, link>>

(* server_timer_proc, forty seconds after the end of a timed test: frees    *)
(* the streams, joins no thread, closes the control socket; the next select *)
(* fails on it                                                              *)
GraceEnds ==
    /\ Quiet
    /\ setup[Peer].timed /\ srv.workers /\ ~srv.done
    /\ Late
    /\ srv' = [GiveUp EXCEPT !.done = TRUE, !.streams = <<>>, !.ctrl = NULL]
    /\ Shut({Peer})
    /\ UNCHANGED <<setup, backlog, s2c>>

(* --idle-timeout in IPERF_START: the listening socket is made afresh *)
IdleRestart ==
    /\ srv.pc = "select" /\ ~Serving /\ backlog = <<>>
    /\ srv' = GiveUp
    /\ UNCHANGED <<setup, cl, backlog, c2s, s2c, link, faults>>

(* Mutant: the control socket is forgotten, not closed. *)
CleanupKeepsControl ==
    /\ srv.pc = "cleanup"
    /\ srv' = [srv EXCEPT !.pc = "reset", !.ctrl = NULL, !.listening = FALSE,
                          !.workers = FALSE]
    /\ Shut(Waiting \cup {})
    /\ backlog' = <<>>
    /\ UNCHANGED <<setup, cl, s2c, faults>>

(* cleanup_server: threads joined, every socket closed, timers cancelled *)
Cleanup ==
    /\ srv.pc = "cleanup"
    /\ srv' = [srv EXCEPT !.pc = "reset", !.ctrl = NULL, !.listening = FALSE,
                          !.workers = FALSE]
    /\ Shut(Waiting \cup (IF Proper THEN {Peer} ELSE {}))
    /\ backlog' = <<>>
    /\ UNCHANGED <<setup, cl, s2c, faults>>

(* Mutant: no_delay is left out of iperf_reset_test. *)
ResetForgets(r) ==
    [r EXCEPT !.state = "NEW", !.streams = <<>>, !.done = FALSE,
              !.held = @ \ (Restored \ {"nodelay"})]

(* iperf_reset_test *)
ResetTest(r) ==
    [r EXCEPT !.state = "NEW", !.streams = <<>>, !.done = FALSE,
              !.held = @ \ Restored]

(* Once more round the loop of run() *)
Reset ==
    /\ srv.pc = "reset"
    /\ srv' = [ResetTest(srv) EXCEPT !.pc = "listen"]
    /\ UNCHANGED <<setup, cl, backlog, c2s, s2c, link, faults>>

(* iperf_got_sigend on the server *)
Killed ==
    /\ srv.pc \notin {"exited", "gone"}
    /\ Fault
    /\ srv' = [srv EXCEPT !.pc = "exited", !.ctrl = NULL, !.listening = FALSE,
                          !.workers = FALSE, !.state = "SERVER_TERMINATE"]
    /\ IF Proper THEN ToClient(Peer, <<"SERVER_TERMINATE">>) ELSE UNCHANGED s2c
    /\ Shut(Waiting \cup (IF Proper THEN {Peer} ELSE {}))
    /\ backlog' = <<>>
    /\ UNCHANGED <<setup, cl>>

(* The server's host or the network is gone, and nothing tells the clients: *)
(* what they have been sent arrives, what they send nobody takes            *)
ServerVanishes ==
    /\ srv.pc \notin {"exited", "gone"}
    /\ Fault
    /\ srv' = [srv EXCEPT !.pc = "gone", !.ctrl = NULL, !.listening = FALSE,
                          !.workers = FALSE]
    /\ backlog' = <<>>
    /\ UNCHANGED <<setup, cl, c2s, s2c, link>>

Handle == HandleEnd \/ HandleDone
Read == ReadCookie \/ ReadParams \/ ReadResults \/ ReadTimesOut \/ ReadGarbled
TimeOut == ReceiveTimesOut \/ GraceEnds

ServerStep ==
    \/ Listen \/ Accept \/ Deny \/ AcceptStream \/ AcceptStranger
    \/ Handle \/ Read \/ TimeOut \/ Cleanup \/ Reset

Next ==
    \/ \E c \in Client : \/ Dial(c) \/ ClientStep(c)
                         \/ Stop(c) \/ Terminate(c) \/ Vanish(c)
                         \/ TimesOut(c) \/ GivesUp(c)
    \/ ServerStep
    \/ ListenFails \/ AcceptFails \/ RelistenFails \/ NewStreamFails
    \/ IdleRestart \/ Killed \/ ServerVanishes

Spec ==
    /\ Init /\ [][Next]_vars
    /\ \A c \in Client : WF_vars(ClientStep(c))
    /\ WF_vars(ServerStep)

-----------------------------------------------------------------------------
TypeOK ==
    /\ setup \in Setups
    /\ \A c \in Client :
         /\ cl[c].pc \in ClientPc /\ cl[c].state \in State
         /\ cl[c].next \in 1..Connections(c)
         /\ \A f \in {"armed", "closed", "stopped", "accepted", "trouble",
                      "crossed", "finished"} : cl[c][f] \in BOOLEAN
         /\ cl[c].outcome \in {"none", "failed", "done"}
         /\ link[c] \in {"none", "open", "shut"}
    /\ srv.pc \in ServerPc /\ srv.state \in State
    /\ srv.ctrl \in Connection \cup {NULL}
    /\ srv.streams \in Seq(Stream) /\ srv.held \subseteq Option
    /\ backlog \in Seq(Connection)
    /\ faults \in 0..MaxFaults

(* The states the client has read and those on their way to it are the      *)
(* server's announcements, in order and without a gap, up to the state the  *)
(* server is in: at every moment of a session nobody has stopped.           *)
Rank == [NEW |-> 0, PARAM_EXCHANGE |-> 1, CREATE_STREAMS |-> 2,
         TEST_START |-> 3, TEST_RUNNING |-> 4, TEST_END |-> 4,
         EXCHANGE_RESULTS |-> 5, DISPLAY_RESULTS |-> 6]
InStep ==
    srv.pc \notin {"cleanup", "reset"} /\ Proper =>
      \/ cl[Peer].pc = "over" \/ cl[Peer].stopped
      \/ LET q == s2c[Peer]
             said == {i \in DOMAIN q : q[i] \in Announcement}
         IN /\ \A i, j \in said : i < j => Rank[q[i]] < Rank[q[j]]
            /\ {Rank[q[i]] : i \in said}
                 = (Rank[cl[Peer].state] + 1)..Rank[srv.state]

(* The server's streams are the connections of the client it serves, in the *)
(* order the client made them, and one end of each sends and the other      *)
(* receives: whatever else connects while they are made.                    *)
StreamsPaired ==
    Proper =>
      /\ \A i \in DOMAIN srv.streams :
           srv.streams[i] = [owner |-> Peer, conn |-> i, id |-> NewId(i - 1),
                             sender |-> ~ClientSends(Peer, i)]
      /\ srv.workers => Len(srv.streams) = Connections(Peer)

(* A client that got the control connection fails only when it was stopped, *)
(* killed, slow or cut off, or the server was: never because other clients  *)
(* connect, are denied or go.  The exceptions: a connection of theirs that  *)
(* fails while it is being accepted, and a session with a TOS.              *)
IntruderHarmless ==
    \A c \in Client :
      cl[c].accepted /\ cl[c].outcome = "failed" =>
        \/ cl[c].trouble \/ srv.pc \in {"exited", "gone"}
        \/ cl[c].crossed \/ "TOS" \in setup[c].asks

(* A session runs with the options its client asked for, not with those of  *)
(* an earlier one; the two that iperf_reset_test does not put back excepted *)
HeldIsAsked ==
    Proper /\ srv.state \in Announcement \ {"PARAM_EXCHANGE"} =>
      srv.held \ {"get_server_output", "repeating_payload"}
        \subseteq setup[Peer].asks

(* A client that nobody stopped and that says it is done has been in a full *)
(* exchange of results with the server.                                     *)
DoneIsFinished ==
    \A c \in Client :
      cl[c].outcome = "done" /\ ~cl[c].stopped => cl[c].finished

(* The server waits for good: it only sends, so nothing makes it look       *)
(* whether the client is still there                                        *)
Deserted ==
    /\ Quiet /\ cl[Peer].pc = "over" /\ ServerMode(Peer) = "SENDER"
    /\ srv.workers => srv.done \/ ~setup[Peer].timed

(* The server comes back to accept a client, unless it is deserted *)
ServerReturns ==
    []<>(srv.pc \in {"exited", "gone"} \/ (srv.pc = "select" /\ ~Serving) \/ Deserted)

(* The client waits for good: outside TEST_RUNNING its select has no limit  *)
(* of its own, so on a server that has vanished only a timer can wake it    *)
Abandoned(c) ==
    /\ srv.pc = "gone" /\ cl[c].pc = "select" /\ s2c[c] = <<>>
    /\ cl[c].state = "TEST_RUNNING" => setup[c].dir = "up" /\ ~setup[c].timed
    /\ cl[c].state = "IPERF_DONE" => ~cl[c].armed

(* A client that has dialled comes to an end, however late the Stop and     *)
(* whatever the server does, unless its host vanishes and abandons it       *)
ClientReturns ==
    \A c \in Client : cl[c].pc # "idle" ~> cl[c].pc = "over" \/ Abandoned(c)
=============================================================================
