------------------------------ MODULE Sockets ------------------------------
(***************************************************************************)
(* How the sockets of iperf come to be (net.c, iperf_tcp.c, iperf_udp.c,   *)
(* iperf_create_streams, iperf_run_server, iperf_new_stream): a function   *)
(* is a chain of calls, each of which may fail, and each failure branch    *)
(* undoes by hand what the calls before it acquired.                       *)
(***************************************************************************)
EXTENDS Integers, Sequences

CONSTANTS
    Options  \* sets of options and circumstances that a call may meet

VARIABLES
    sockOp,      \* the function that runs
    sockOptions, \* what it meets
    sockAt,      \* how many of its calls are over
    sockHeld,    \* what is allocated, mapped or open
    sockReturn   \* "none", "ok" or "failed"

sockVars == <<sockOp, sockOptions, sockAt, sockHeld, sockReturn>>

(* A call: what it acquires and releases when it succeeds, and what the     *)
(* branch behind it releases when it fails                                  *)
Call(gains, drops, undo, may) ==
    [gains |-> gains, drops |-> drops, undo |-> undo, may |-> may]
Get(r, undo) == Call({r}, {}, undo, {"ok", "failed"})
Try(undo) == Call({}, {}, undo, {"ok", "failed"})
Refuse(undo) == Call({}, {}, undo, {"failed"})
Free(r) == Call({}, {r}, {}, {"ok"})
Rename(r, s) == Call({s}, {r}, {}, {"ok"})
When(condition, calls) == IF condition THEN calls ELSE <<>>

-----------------------------------------------------------------------------
(* Mutant: the local address is forgotten when bind fails. *)
CreateSocketForgets(o) ==
    When("bind" \in o, <<Get("local", {})>>)
    \o <<Get("remote", {"local"}), Get("fd", {"local", "remote"})>>
    \o When("device" \in o, <<Refuse({"fd", "local", "remote"})>>)
    \o IF "bind" \in o THEN <<Try({"fd", "remote"}), Free("local")>>
       ELSE When("cport" \in o, <<Try({"fd", "remote"})>>)

(* create_socket.  Without SO_BINDTODEVICE --bind-dev always fails.  The    *)
(* port of --cport is bound to the local address or to any.                 *)
CreateSocket(o) ==
    When("bind" \in o, <<Get("local", {})>>)
    \o <<Get("remote", {"local"}), Get("fd", {"local", "remote"})>>
    \o When("device" \in o, <<Refuse({"fd", "local", "remote"})>>)
    \o IF "bind" \in o THEN <<Try({"fd", "local", "remote"}), Free("local")>>
       ELSE When("cport" \in o, <<Try({"fd", "remote"})>>)

(* timeout_connect: fcntl, connect and poll, fcntl *)
TimeoutConnect(o) ==
    When("timeout" \in o, <<Try({"fd", "remote"})>>)
    \o <<Try({"fd", "remote"})>>
    \o When("timeout" \in o, <<Try({"fd", "remote"})>>)

Netdial(o) == CreateSocket(o) \o TimeoutConnect(o) \o <<Free("remote")>>

(* netannounce: SO_REUSEADDR, IPV6_V6ONLY, bind, and listen for TCP *)
Netannounce(o, fd, stream) ==
    <<Get("addr", {}), Get(fd, {"addr"})>>
    \o When("device" \in o, <<Refuse({fd, "addr"})>>)
    \o <<Try({fd, "addr"})>>
    \o When("v6" \in o, <<Try({fd, "addr"})>>)
    \o <<Try({fd, "addr"}), Free("addr")>>
    \o When(stream, <<Try({fd})>>)

(* TCP_NODELAY, TCP_MAXSEG, SO_RCVBUF and SO_SNDBUF *)
TcpOptions(o, undo) ==
    When("nodelay" \in o, <<Try(undo)>>)
    \o When("mss" \in o, <<Try(undo)>>)
    \o When("window" \in o, <<Try(undo), Try(undo)>>)

(* Both buffer sizes are read back, and compared with -w *)
ReadBack(o, undo) ==
    <<Try(undo)>> \o When("window" \in o, <<Try(undo)>>)
    \o <<Try(undo)>> \o When("window" \in o, <<Try(undo)>>)

(* iperf_tcp_accept: a stranger's connection is closed and returned *)
TcpAccept(o) ==
    <<Get("fd", {}), Try({"fd"})>> \o When("stranger" \in o, <<Free("fd")>>)

(* iperf_tcp_listen: the listening socket goes first, and a new one takes   *)
(* its place at the end                                                     *)
TcpListenAnew(o) ==
    <<Free("listener"), Get("addr", {}), Get("fd", {"addr"})>>
    \o TcpOptions(o, {"fd", "addr"})
    \o <<Try({"fd", "addr"})>>
    \o When("v6" \in o, <<Try({"fd", "addr"})>>)
    \o <<Try({"fd", "addr"}), Free("addr"), Try({"fd"}), Rename("fd", "listener")>>

TcpListen(o) ==
    When(o \cap {"nodelay", "mss", "window"} # {}, TcpListenAnew(o))
    \o ReadBack(o, {"listener"})

(* iperf_tcp_connect, up to the cookie *)
TcpConnect(o) ==
    CreateSocket(o) \o TcpOptions(o, {"fd", "remote"})
    \o ReadBack(o, {"fd", "remote"})
    \o <<Try({"fd", "remote"}), Free("remote"), Try({"fd"})>>

(* iperf_udp_buffercheck, once more with a larger buffer if a block would   *)
(* not fit; nothing is closed                                               *)
BufferCheck(o) ==
    When("window" \in o, <<Try({}), Try({})>>) \o ReadBack(o, {})
    \o When("small" \in o /\ "window" \notin o,
            <<Try({}), Try({})>> \o ReadBack({"window"}, {}))

(* iperf_udp_accept: the listening socket becomes the stream's, and another *)
(* one is made; then the answer                                             *)
UdpAccept(o) ==
    <<Try({}), Try({})>> \o BufferCheck(o) \o <<Rename("listener", "fd")>>
    \o Netannounce(o, "listener", FALSE) \o <<Try({})>>

UdpListen(o) == Netannounce(o, "fd", FALSE)

(* iperf_udp_connect: options, a datagram, and the answer to it *)
UdpConnect(o) ==
    Netdial(o \ {"timeout"}) \o BufferCheck(o) \o <<Try({}), Try({})>>

(* iperf_new_stream: two structures, a temporary file, its mapping, and     *)
(* with -F another file                                                     *)
NewStream(o) ==
    LET both == {"stream", "result"}
    IN  <<Get("stream", {}), Get("result", {"stream"}), Get("file", both)>>
        \o <<Try(both), Try(both), Get("mapping", both)>>
        \o When("disk" \in o, <<Get("diskfile", both \cup {"mapping"})>>)
        \o <<Try(both \cup {"mapping", "file"})>>

(* iperf_create_streams: the congestion control is set and asked for *)
ClientStream(o) ==
    TcpConnect(o) \o When("congestion" \in o, <<Try({"fd"}), Try({"fd"})>>)
    \o NewStream(o)

(* iperf_run_server in CREATE_STREAMS, with iperf_common_sockopts *)
ServerStream(o) ==
    TcpAccept(o \ {"stranger"}) \o When("tos" \in o, <<Try({})>>)
    \o When("congestion" \in o, <<Try({"fd"}), Try({"fd"})>>)
    \o NewStream(o)

Script(op, o) ==
    CASE op = "netdial" -> Netdial(o)
      [] op = "netannounce" -> Netannounce(o, "fd", TRUE)
      [] op = "iperf_tcp_accept" -> TcpAccept(o)
      [] op = "iperf_tcp_listen" -> TcpListen(o)
      [] op = "iperf_tcp_connect" -> TcpConnect(o)
      [] op = "iperf_udp_accept" -> UdpAccept(o)
      [] op = "iperf_udp_listen" -> UdpListen(o)
      [] op = "iperf_udp_connect" -> UdpConnect(o)
      [] op = "iperf_create_streams" -> ClientStream(o)
      [] op = "iperf_run_server" -> ServerStream(o)

SocketOp == {"netdial", "netannounce", "iperf_tcp_accept", "iperf_tcp_listen",
             "iperf_tcp_connect", "iperf_udp_accept", "iperf_udp_listen",
             "iperf_udp_connect", "iperf_create_streams", "iperf_run_server"}
(* These are handed a listening socket *)
OnListener == {"iperf_tcp_listen", "iperf_udp_accept"}

-----------------------------------------------------------------------------
SocketInit ==
    /\ sockOp = "none" /\ sockOptions = {} /\ sockAt = 0
    /\ sockHeld = {} /\ sockReturn = "none"

Enter ==
    /\ sockOp = "none"
    /\ sockOp' \in SocketOp
    /\ sockOptions' \in Options
    /\ sockHeld' = IF sockOp' \in OnListener THEN {"listener"} ELSE {}
    /\ UNCHANGED <<sockAt, sockReturn>>

Running == sockOp # "none" /\ sockReturn = "none"

Succeeds ==
    /\ Running
    /\ LET script == Script(sockOp, sockOptions)
           call == script[sockAt + 1]
       IN  /\ "ok" \in call.may
           /\ sockHeld' = (sockHeld \ call.drops) \cup call.gains
           /\ sockReturn' = IF sockAt + 1 = Len(script) THEN "ok" ELSE "none"
    /\ sockAt' = sockAt + 1
    /\ UNCHANGED <<sockOp, sockOptions>>

FailsAndUndoes ==
    /\ Running
    /\ LET call == Script(sockOp, sockOptions)[sockAt + 1]
       IN  /\ "failed" \in call.may
           /\ sockHeld' = sockHeld \ call.undo
    /\ sockReturn' = "failed"
    /\ UNCHANGED <<sockOp, sockOptions, sockAt>>

SocketNext == Enter \/ Succeeds \/ FailsAndUndoes

-----------------------------------------------------------------------------
(* What a caller is given *)
Product ==
    CASE sockOp = "iperf_tcp_listen" -> {"listener"}
      [] sockOp = "iperf_udp_accept" -> {"listener", "fd"}
      [] sockOp = "iperf_tcp_accept" /\ "stranger" \in sockOptions -> {}
      [] sockOp \in {"iperf_create_streams", "iperf_run_server"} ->
           {"fd", "stream", "result", "file", "mapping"}
           \cup (IF "disk" \in sockOptions THEN {"diskfile"} ELSE {})
      [] OTHER -> {"fd"}

(* The branches that close too little: a UDP socket once it is connected,   *)
(* and the socket and the files of a stream that cannot be made             *)
Forgotten ==
    CASE sockOp \in {"iperf_udp_accept", "iperf_udp_connect"} -> {"fd"}
      [] sockOp \in {"iperf_create_streams", "iperf_run_server"} ->
           {"fd", "file", "diskfile"}
      [] OTHER -> {}

(* Some seventy branches undo by hand what was done before them.  Memory,   *)
(* mappings and address lists are always given back; descriptors, too,      *)
(* except for the two kinds of Forgotten; a failure leaves nothing else     *)
(* open but a listening socket that cleanup_server knows, and a success     *)
(* exactly what the caller is given.                                        *)
NothingLeftOpen ==
    /\ sockReturn = "ok" => sockHeld = Product
    /\ sockReturn = "failed" => sockHeld \subseteq Forgotten \cup {"listener"}
=============================================================================
