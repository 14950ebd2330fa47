------------------------ MODULE SessionProtocolProofs ------------------------
(***************************************************************************)
(* Theorems about the protocol of Session, for any clients, options and    *)
(* number of faults: the streams the server makes are the ones its client  *)
(* connected, client and server stay in step, and a client fails only for  *)
(* what befell it or the server.                                           *)
(*                                                                         *)
(* The invariant says of every client whose control connection is open how *)
(* far the two ends of its session are apart: where the client is and what *)
(* is on the way to it and from it, for each phase of the server.          *)
(***************************************************************************)
EXTENDS SessionProofs, Integers, SequenceTheorems

(* What a client sends *)
FromClient == {"cookie", "len", "json", "cut"} \cup Told

-----------------------------------------------------------------------------
(* Connections that nobody has accepted yet *)

Waits(b, c) == \E i \in 1..Len(b) : b[i] = <<c, 0>>
NoneOf(b, c) == \A i \in 1..Len(b) : b[i][1] # c

(* At most one of c, and that is its control connection *)
Single(b, c) ==
    /\ \A i \in 1..Len(b) : b[i][1] = c => b[i][2] = 0
    /\ \A i, j \in 1..Len(b) : b[i][1] = c /\ b[j][1] = c => i = j

(* The connections of c are there once each, from low on and in order *)
InOrder(b, c, low) ==
    /\ \A i \in 1..Len(b) : b[i][1] = c =>
         /\ b[i][2] >= low
         /\ b[i][2] > low => \E j \in 1..(i - 1) : b[j] = <<c, b[i][2] - 1>>
    /\ \A i, j \in 1..Len(b) : b[i][1] = c /\ b[i] = b[j] => i = j

UpTo(b, c, top) == \A i \in 1..Len(b) : b[i][1] = c => b[i][2] <= top

(* The last of them is the one before next *)
Before(b, c, low, next) ==
    /\ next >= low /\ UpTo(b, c, next - 1)
    /\ next > low => \E i \in 1..Len(b) : b[i] = <<c, next - 1>>

-----------------------------------------------------------------------------
(* The server, and the phase of the session of the client it serves *)

Served(c) == Proper /\ Peer = c

Phase ==
    CASE srv.pc = "cookie" -> 0
      [] srv.pc = "params" -> 1
      [] srv.pc = "select" /\ srv.state = "CREATE_STREAMS" -> 2
      [] srv.pc = "select" /\ srv.state = "TEST_RUNNING" -> 3
      [] srv.pc = "results" -> 4
      [] srv.pc = "select" /\ srv.state = "DISPLAY_RESULTS" -> 5
      [] OTHER -> 6

PhaseOf(c) == IF Served(c) THEN Phase ELSE 0

Open == {"select", "cookie", "params", "results", "cleanup"}

ServerInv ==
    /\ srv.pc # "gone"
    /\ srv.pc \in Open => srv.listening
    /\ srv.pc \in {"listen", "reset", "exited"} => ~Serving
    /\ srv.pc \in {"cookie", "results"} => Proper
    /\ srv.pc = "params" => Serving
    /\ srv.pc = "select" /\ Serving =>
         Proper /\ srv.state \in {"CREATE_STREAMS", "TEST_RUNNING", "DISPLAY_RESULTS"}
    /\ srv.pc = "cookie" => srv.state = "NEW"
    /\ srv.pc = "select" /\ ~Serving => srv.state = "NEW"
    /\ srv.pc = "params" => srv.state = "PARAM_EXCHANGE"
    /\ srv.pc = "results" => srv.state = "EXCHANGE_RESULTS"
    /\ srv.pc = "reset" => ~srv.workers

StreamsInv ==
    /\ srv.pc \in {"listen", "cookie", "params"} \/ (srv.pc = "select" /\ ~Serving) =>
         srv.streams = <<>> /\ ~srv.workers
    /\ StreamsPaired
    /\ Proper /\ Phase = 2 =>
         ~srv.workers /\ Len(srv.streams) < Connections(Peer)

-----------------------------------------------------------------------------
(* A client whose control connection is open, in phase q of its session: pc *)
(* is its place, s what is on the way to it.                                *)
Place(q, pc, s) ==
    \/ q = 0 /\ s = <<>> /\ pc \in {"cookie", "select"}
    \/ q = 1 /\ s = <<"PARAM_EXCHANGE">> /\ pc = "select"
    \/ q = 1 /\ s = <<>> /\ pc \in {"params", "paramsBody", "select"}
    \/ q = 2 /\ s = <<"CREATE_STREAMS">> /\ pc = "select"
    \/ q = 2 /\ s = <<>> /\ pc \in {"streams", "select"}
    \/ q = 3 /\ s = <<"TEST_START", "TEST_RUNNING">> /\ pc = "select"
    \/ q = 3 /\ s = <<"TEST_RUNNING">> /\ pc = "select"
    \/ q = 3 /\ s = <<>> /\ pc \in {"select", "ending"}
    \/ q = 4 /\ s = <<"EXCHANGE_RESULTS">> /\ pc = "select"
    \/ q = 4 /\ s = <<>> /\ pc \in {"results", "resultsBody", "getResults"}
    \/ q = 5 /\ s = <<"len", "json", "DISPLAY_RESULTS">> /\ pc = "getResults"
    \/ q = 5 /\ s = <<"DISPLAY_RESULTS">> /\ pc = "select"

(* Nobody has stopped it: its state is the one it read last, or the end of *)
(* the test, and t is what it has sent since.                               *)
Exact(q, pc, state, s, t) ==
    \/ q = 0 /\ state = "NEW" /\ pc = "cookie" /\ t = <<>>
    \/ q = 0 /\ state = "NEW" /\ pc = "select" /\ t = <<"cookie">>
    \/ q = 1 /\ s # <<>> /\ state = "NEW" /\ t = <<>>
    \/ q = 1 /\ s = <<>> /\ state = "PARAM_EXCHANGE" /\ pc = "params" /\ t = <<>>
    \/ q = 1 /\ s = <<>> /\ state = "PARAM_EXCHANGE" /\ pc = "paramsBody"
       /\ t = <<"len">>
    \/ q = 1 /\ s = <<>> /\ state = "PARAM_EXCHANGE" /\ pc = "select"
       /\ t = <<"len", "json">>
    \/ q = 2 /\ s # <<>> /\ state = "PARAM_EXCHANGE" /\ t = <<>>
    \/ q = 2 /\ s = <<>> /\ state = "CREATE_STREAMS" /\ t = <<>>
    \/ q = 3 /\ Len(s) = 2 /\ state = "CREATE_STREAMS" /\ t = <<>>
    \/ q = 3 /\ Len(s) = 1 /\ state = "TEST_START" /\ t = <<>>
    \/ q = 3 /\ s = <<>> /\ state = "TEST_RUNNING" /\ t = <<>>
    \/ q = 3 /\ s = <<>> /\ state = "TEST_END" /\ pc = "select" /\ t = <<"TEST_END">>
    \/ q = 4 /\ s # <<>> /\ state = "TEST_END" /\ t = <<>>
    \/ q = 4 /\ s = <<>> /\ state = "EXCHANGE_RESULTS" /\ pc = "results" /\ t = <<>>
    \/ q = 4 /\ s = <<>> /\ state = "EXCHANGE_RESULTS" /\ pc = "resultsBody"
       /\ t = <<"len">>
    \/ q = 4 /\ s = <<>> /\ state = "EXCHANGE_RESULTS" /\ pc = "getResults"
       /\ t = <<"len", "json">>
    \/ q = 5 /\ state = "EXCHANGE_RESULTS" /\ t = <<>>

(* At most once, and in no other phase, the server finds what makes it go  *)
(* on; then the client waits for that, or is gone.                          *)
Has(t, m) == \E i \in 1..Len(t) : t[i] = m
Once(t, m) == \A i, j \in 1..Len(t) : t[i] = m /\ t[j] = m => i = j

Asked(q, pc, s, t) ==
    /\ Once(t, "json") /\ Once(t, "TEST_END") /\ Once(t, "cookie")
    /\ Has(t, "cookie") => q = 0 /\ pc \in {"select", "over"}
    /\ Has(t, "json") => \/ q \in {1, 4} /\ pc = "over"
                         \/ q = 1 /\ pc = "select" /\ s = <<>>
                         \/ q = 4 /\ pc = "getResults"
    /\ Has(t, "TEST_END") => \/ q = 3 /\ pc = "over"
                             \/ q = 3 /\ pc = "select" /\ s = <<>>

(* It takes a test for running from TEST_RUNNING to its own TEST_END *)
Running(q, state, s, t) ==
    state = "TEST_RUNNING" => q = 3 /\ s = <<>> /\ ~Has(t, "TEST_END")

Talk(q, pc, state, stopped, s, t) ==
    /\ pc # "over" => Place(q, pc, s) /\ Running(q, state, s, t)
    /\ pc # "over" /\ ~stopped => Exact(q, pc, state, s, t)
    /\ Asked(q, pc, s, t)

(* Its connections that wait, when n streams of top are made *)
Queued(b, c, q, n, top, pc, next, s) ==
    /\ q = 0 => Single(b, c)
    /\ q \notin {0, 2} => NoneOf(b, c)
    /\ q \in {0, 1} => next = 1
    /\ q = 2 =>
         /\ InOrder(b, c, n + 1) /\ UpTo(b, c, top)
         /\ pc = "streams" => Before(b, c, n + 1, next)
         /\ pc = "select" /\ s # <<>> => NoneOf(b, c) /\ n = 0 /\ next = 1

OpenInv(c) ==
    /\ Talk(PhaseOf(c), cl[c].pc, cl[c].state, cl[c].stopped, s2c[c], c2s[c])
    /\ Queued(backlog, c, PhaseOf(c), Len(srv.streams), Connections(c), cl[c].pc,
              cl[c].next, s2c[c])

IdleInv(c) ==
    cl[c].pc = "idle" =>
      /\ link[c] = "none" /\ s2c[c] = <<>>
      /\ NoneOf(backlog, c) /\ cl[c].next = 1 /\ cl[c].state = "NEW"
      /\ ~cl[c].accepted /\ ~cl[c].closed /\ ~cl[c].stopped

LinkInv(c) ==
    /\ link[c] = "open" <=> Served(c) \/ Waits(backlog, c)
    /\ ~(Served(c) /\ Waits(backlog, c))
    /\ link[c] # "open" => c2s[c] = <<>>
    /\ cl[c].closed => cl[c].pc = "over"

(* Who is to blame when a client fails *)
Blamed(c) ==
    cl[c].trouble \/ cl[c].crossed \/ srv.pc = "exited" \/ "TOS" \in setup[c].asks

FairInv(c) ==
    /\ cl[c].stopped => cl[c].trouble
    /\ cl[c].pc # "over" => cl[c].outcome = "none"
    /\ Waits(backlog, c) => ~cl[c].accepted /\ (cl[c].pc = "over" => cl[c].trouble)
    /\ cl[c].accepted /\ ~Blamed(c) =>
         \/ cl[c].pc = "over" /\ cl[c].outcome = "done"
         \/ cl[c].pc # "over" /\ Served(c) /\ Phase # 6

Sessions ==
    \A c \in Client : link[c] = "open" /\ PhaseOf(c) # 6 => OpenInv(c)

ProtocolInv ==
    /\ c2s \in [Client -> Seq(FromClient)]
    /\ ServerInv /\ StreamsInv /\ Sessions
    /\ \A c \in Client : IdleInv(c) /\ LinkInv(c) /\ FairInv(c)

-----------------------------------------------------------------------------
(* Lemmas about the connections that wait *)

LEMMA AppendFacts ==
    ASSUME NEW b \in Seq(Connection), NEW x \in Connection
    PROVE  /\ Append(b, x) \in Seq(Connection) /\ Len(Append(b, x)) = Len(b) + 1
           /\ \A i \in 1..Len(b) : Append(b, x)[i] = b[i]
           /\ Append(b, x)[Len(b) + 1] = x
  OBVIOUS

LEMMA TailFacts ==
    ASSUME NEW b \in Seq(Connection), b # <<>>
    PROVE  /\ Tail(b) \in Seq(Connection) /\ Len(Tail(b)) = Len(b) - 1
           /\ \A i \in 1..Len(Tail(b)) : Tail(b)[i] = b[i + 1] /\ i + 1 \in 1..Len(b)
           /\ \A i \in 2..Len(b) : Tail(b)[i - 1] = b[i] /\ i - 1 \in 1..Len(Tail(b))
           /\ Head(b) = b[1] /\ Len(b) \in Nat /\ Len(b) >= 1
           /\ b[1] \in Connection
  OBVIOUS

(* Somebody else's connection comes or is taken: nothing changes for c. *)
LEMMA AppendOther ==
    ASSUME NEW b \in Seq(Connection), NEW x \in Connection, NEW c, x[1] # c
    PROVE  /\ Waits(Append(b, x), c) <=> Waits(b, c)
           /\ NoneOf(b, c) => NoneOf(Append(b, x), c)
           /\ Single(b, c) => Single(Append(b, x), c)
           /\ \A low \in Nat : InOrder(b, c, low) => InOrder(Append(b, x), c, low)
           /\ \A top \in Int : UpTo(b, c, top) => UpTo(Append(b, x), c, top)
           /\ \A low, next \in Nat :
                Before(b, c, low, next) => Before(Append(b, x), c, low, next)
<1> DEFINE a == Append(b, x)
<1>1. /\ Len(b) \in Nat /\ Len(a) = Len(b) + 1
      /\ \A i \in 1..Len(b) : a[i] = b[i]
      /\ a[Len(b) + 1] = x
  BY AppendFacts
<1> HIDE DEF a
<1>2. \A i \in 1..Len(a) : a[i][1] = c => i \in 1..Len(b) /\ a[i] = b[i]
  BY <1>1
<1>3. Waits(a, c) <=> Waits(b, c)
  <2>1. <<c, 0>>[1] = c
    OBVIOUS
  <2>2. ASSUME Waits(a, c) PROVE Waits(b, c)
    BY <1>2, <2>1, <2>2 DEF Waits
  <2>3. ASSUME Waits(b, c) PROVE Waits(a, c)
    BY <1>1, <2>3 DEF Waits
  <2> QED
    BY <2>2, <2>3
<1>4. NoneOf(b, c) => NoneOf(a, c)
  BY <1>2 DEF NoneOf
<1>5. Single(b, c) => Single(a, c)
  BY <1>2 DEF Single
<1>6. ASSUME NEW low \in Nat, InOrder(b, c, low) PROVE InOrder(a, c, low)
  <2>1. ASSUME NEW i \in 1..Len(a), a[i][1] = c
        PROVE  /\ a[i][2] >= low
               /\ a[i][2] > low => \E j \in 1..(i - 1) : a[j] = <<c, a[i][2] - 1>>
    <3>1. i \in 1..Len(b) /\ a[i] = b[i]
      BY <1>2, <2>1
    <3>2. \A j \in 1..(i - 1) : a[j] = b[j]
      BY <1>1, <3>1
    <3> QED
      BY <1>6, <2>1, <3>1, <3>2 DEF InOrder
  <2>2. \A i, j \in 1..Len(a) : a[i][1] = c /\ a[i] = a[j] => i = j
    BY <1>2, <1>6 DEF InOrder
  <2> QED
    BY <2>1, <2>2 DEF InOrder
<1>7. \A top \in Int : UpTo(b, c, top) => UpTo(a, c, top)
  BY <1>2 DEF UpTo
<1>8. \A low, next \in Nat : Before(b, c, low, next) => Before(a, c, low, next)
  BY <1>1, <1>7 DEF Before
<1> QED
  BY <1>3, <1>4, <1>5, <1>6, <1>7, <1>8 DEF a

LEMMA TailOther ==
    ASSUME NEW b \in Seq(Connection), b # <<>>, NEW c, Head(b)[1] # c
    PROVE  /\ Waits(Tail(b), c) <=> Waits(b, c)
           /\ NoneOf(b, c) => NoneOf(Tail(b), c)
           /\ Single(b, c) => Single(Tail(b), c)
           /\ \A low \in Nat : InOrder(b, c, low) => InOrder(Tail(b), c, low)
           /\ \A top \in Int : UpTo(b, c, top) => UpTo(Tail(b), c, top)
           /\ \A low, next \in Nat :
                Before(b, c, low, next) => Before(Tail(b), c, low, next)
<1> DEFINE a == Tail(b)
<1>1. /\ Len(a) = Len(b) - 1 /\ Len(b) \in Nat
      /\ \A i \in 1..Len(a) : a[i] = b[i + 1] /\ i + 1 \in 1..Len(b)
      /\ \A i \in 2..Len(b) : a[i - 1] = b[i] /\ i - 1 \in 1..Len(a)
      /\ b[1][1] # c
  BY TailFacts
<1> HIDE DEF a
<1>2. \A i \in 1..Len(b) : b[i][1] = c => i - 1 \in 1..Len(a) /\ a[i - 1] = b[i]
  BY <1>1
<1>3. Waits(a, c) <=> Waits(b, c)
  <2>1. <<c, 0>>[1] = c
    OBVIOUS
  <2>2. ASSUME Waits(a, c) PROVE Waits(b, c)
    BY <1>1, <2>2 DEF Waits
  <2>3. ASSUME Waits(b, c) PROVE Waits(a, c)
    BY <1>2, <2>1, <2>3 DEF Waits
  <2> QED
    BY <2>2, <2>3
<1>4. NoneOf(b, c) => NoneOf(a, c)
  BY <1>1 DEF NoneOf
<1>5. Single(b, c) => Single(a, c)
  BY <1>1 DEF Single
<1>6. ASSUME NEW low \in Nat, InOrder(b, c, low) PROVE InOrder(a, c, low)
  <2>1. ASSUME NEW i \in 1..Len(a), a[i][1] = c
        PROVE  /\ a[i][2] >= low
               /\ a[i][2] > low => \E j \in 1..(i - 1) : a[j] = <<c, a[i][2] - 1>>
    <3>1. i + 1 \in 1..Len(b) /\ a[i] = b[i + 1]
      BY <1>1, <2>1
    <3>2. ASSUME a[i][2] > low
          PROVE  \E j \in 1..(i - 1) : a[j] = <<c, a[i][2] - 1>>
      <4>0. \E k \in 1..((i + 1) - 1) : b[k] = <<c, b[i + 1][2] - 1>>
        BY <1>6, <2>1, <3>1, <3>2 DEF InOrder
      <4>1. PICK k \in 1..i : b[k] = <<c, a[i][2] - 1>>
        <5>1. (i + 1) - 1 = i
          OBVIOUS
        <5> QED
          BY <3>1, <4>0, <5>1
      <4>2. b[k][1] = c /\ k \in 1..Len(b)
        BY <2>1, <4>1, <1>1
      <4>3. k - 1 \in 1..(i - 1) /\ a[k - 1] = b[k]
        BY <1>2, <4>1, <4>2
      <4> QED
        BY <4>1, <4>3
    <3> QED
      BY <1>6, <2>1, <3>1, <3>2 DEF InOrder
  <2>2. ASSUME NEW i \in 1..Len(a), NEW j \in 1..Len(a), a[i][1] = c, a[i] = a[j]
        PROVE  i = j
    <3>1. /\ i + 1 \in 1..Len(b) /\ a[i] = b[i + 1]
          /\ j + 1 \in 1..Len(b) /\ a[j] = b[j + 1]
      BY <1>1, <2>2
    <3>2. i + 1 = j + 1
      BY <1>6, <2>2, <3>1 DEF InOrder
    <3> QED
      BY <3>2
  <2> QED
    BY <2>1, <2>2 DEF InOrder
<1>7. \A top \in Int : UpTo(b, c, top) => UpTo(a, c, top)
  BY <1>1 DEF UpTo
<1>8. ASSUME NEW low \in Nat, NEW next \in Nat, Before(b, c, low, next)
      PROVE  Before(a, c, low, next)
  <2>1. ASSUME next > low PROVE \E i \in 1..Len(a) : a[i] = <<c, next - 1>>
    <3>1. PICK i \in 1..Len(b) : b[i] = <<c, next - 1>>
      BY <1>8, <2>1 DEF Before
    <3>2. b[i][1] = c
      BY <3>1
    <3> QED
      BY <1>2, <3>1, <3>2
  <2> QED
    BY <1>7, <1>8, <2>1 DEF Before
<1> QED
  BY <1>3, <1>4, <1>5, <1>6, <1>7, <1>8 DEF a

(* The first connection of c is taken: it is the lowest. *)
LEMMA TailOwn ==
    ASSUME NEW b \in Seq(Connection), b # <<>>, NEW c, Head(b)[1] = c
    PROVE  /\ Single(b, c) => Head(b) = <<c, 0>> /\ NoneOf(Tail(b), c)
           /\ \A low \in Nat : InOrder(b, c, low) =>
                Head(b) = <<c, low>> /\ InOrder(Tail(b), c, low + 1)
           /\ \A top \in Int : UpTo(b, c, top) => UpTo(Tail(b), c, top)
           /\ \A low, next \in Nat :
                InOrder(b, c, low) /\ Before(b, c, low, next)
                  => Before(Tail(b), c, low + 1, next)
<1> DEFINE a == Tail(b)
<1>1. /\ Len(a) = Len(b) - 1 /\ Len(b) \in Nat /\ Len(b) >= 1
      /\ \A i \in 1..Len(a) : a[i] = b[i + 1] /\ i + 1 \in 1..Len(b)
      /\ \A i \in 2..Len(b) : a[i - 1] = b[i] /\ i - 1 \in 1..Len(a)
      /\ b[1][1] = c /\ Head(b) = b[1] /\ b[1] \in Connection
  BY TailFacts
<1> HIDE DEF a
<1>2. b[1] = <<c, b[1][2]>> /\ b[1][2] \in Nat
  BY <1>1 DEF Connection
<1>3. Single(b, c) => Head(b) = <<c, 0>> /\ NoneOf(a, c)
  <2> SUFFICES ASSUME Single(b, c) PROVE Head(b) = <<c, 0>> /\ NoneOf(a, c)
    OBVIOUS
  <2>1. b[1][2] = 0
    BY <1>1 DEF Single
  <2>2. \A i \in 1..Len(a) : a[i][1] # c
    BY <1>1 DEF Single
  <2> QED
    BY <1>1, <1>2, <2>1, <2>2 DEF NoneOf
<1>4. ASSUME NEW low \in Nat, InOrder(b, c, low)
      PROVE  b[1] = <<c, low>> /\ InOrder(a, c, low + 1)
  <2>1. b[1][2] = low
    <3>1. 1 \in 1..Len(b) /\ b[1][2] >= low
      BY <1>1, <1>4 DEF InOrder
    <3>2. b[1][2] > low => \E j \in 1..(1 - 1) : b[j] = <<c, b[1][2] - 1>>
      BY <1>1, <1>4, <3>1 DEF InOrder
    <3> QED
      BY <1>2, <3>1, <3>2
  <2>2. b[1] = <<c, low>>
    BY <1>2, <2>1
  <2>3. ASSUME NEW i \in 1..Len(a), a[i][1] = c
        PROVE  /\ a[i][2] >= low + 1
               /\ a[i][2] > low + 1 => \E j \in 1..(i - 1) : a[j] = <<c, a[i][2] - 1>>
    <3>1. i + 1 \in 1..Len(b) /\ a[i] = b[i + 1]
      BY <1>1, <2>3
    <3>2. b[i + 1] \in Connection
      BY <3>1
    <3>3. b[i + 1] = <<c, b[i + 1][2]>> /\ b[i + 1][2] \in Nat
      BY <2>3, <3>1, <3>2 DEF Connection
    <3>4. b[i + 1][2] # low
      <4>1. ASSUME b[i + 1][2] = low PROVE FALSE
        <5>1. b[1] = b[i + 1] /\ b[1][1] = c /\ 1 \in 1..Len(b)
          BY <1>1, <2>2, <3>3, <4>1
        <5>2. 1 = i + 1
          BY <1>4, <3>1, <5>1 DEF InOrder
        <5> QED
          BY <5>2
      <4> QED
        BY <4>1
    <3>5. ASSUME a[i][2] > low + 1
          PROVE  \E j \in 1..(i - 1) : a[j] = <<c, a[i][2] - 1>>
      <4>0. b[i + 1][1] = c /\ b[i + 1][2] > low
        BY <2>3, <3>1, <3>3, <3>5
      <4>00. \E k \in 1..((i + 1) - 1) : b[k] = <<c, b[i + 1][2] - 1>>
        BY <1>4, <3>1, <4>0 DEF InOrder
      <4>1. PICK k \in 1..i : b[k] = <<c, a[i][2] - 1>>
        <5>1. (i + 1) - 1 = i
          OBVIOUS
        <5> QED
          BY <3>1, <4>00, <5>1
      <4>2. k # 1
        BY <2>1, <3>1, <3>3, <3>5, <4>1
      <4>3. k - 1 \in 1..(i - 1) /\ a[k - 1] = b[k]
        BY <1>1, <4>1, <4>2
      <4> QED
        BY <4>1, <4>3
    <3>6. b[i + 1][2] >= low
      BY <1>4, <2>3, <3>1 DEF InOrder
    <3> QED
      BY <3>1, <3>3, <3>4, <3>5, <3>6
  <2>4. ASSUME NEW i \in 1..Len(a), NEW j \in 1..Len(a), a[i][1] = c, a[i] = a[j]
        PROVE  i = j
    <3>1. /\ i + 1 \in 1..Len(b) /\ a[i] = b[i + 1]
          /\ j + 1 \in 1..Len(b) /\ a[j] = b[j + 1]
      BY <1>1, <2>4
    <3>2. i + 1 = j + 1
      BY <1>4, <2>4, <3>1 DEF InOrder
    <3> QED
      BY <3>2
  <2> QED
    BY <2>2, <2>3, <2>4 DEF InOrder
<1>5. \A top \in Int : UpTo(b, c, top) => UpTo(a, c, top)
  BY <1>1 DEF UpTo
<1>6. ASSUME NEW low \in Nat, NEW next \in Nat, InOrder(b, c, low),
             Before(b, c, low, next)
      PROVE  Before(a, c, low + 1, next)
  <2>1. b[1] = <<c, low>>
    BY <1>4, <1>6
  <2>2. low <= next - 1
    <3>1. b[1][2] <= next - 1
      BY <1>1, <1>6 DEF Before, UpTo
    <3> QED
      BY <2>1, <3>1
  <2>3. ASSUME next > low + 1 PROVE \E i \in 1..Len(a) : a[i] = <<c, next - 1>>
    <3>1. PICK i \in 1..Len(b) : b[i] = <<c, next - 1>>
      BY <1>6, <2>3 DEF Before
    <3>2. i # 1
      BY <2>1, <2>3, <3>1
    <3> QED
      BY <1>1, <3>1, <3>2
  <2>4. UpTo(a, c, next - 1)
    BY <1>5, <1>6 DEF Before
  <2> QED
    BY <2>2, <2>3, <2>4 DEF Before
<1> QED
  BY <1>1, <1>3, <1>4, <1>5, <1>6 DEF a

(* The last one is the highest allowed: there is no other. *)
LEMMA LastOfAll ==
    ASSUME NEW b \in Seq(Connection), b # <<>>, NEW c, Head(b)[1] = c,
           NEW low \in Nat, InOrder(b, c, low), UpTo(b, c, low)
    PROVE  NoneOf(Tail(b), c)
<1>1. InOrder(Tail(b), c, low + 1) /\ UpTo(Tail(b), c, low)
  BY TailOwn
<1>2. Tail(b) \in Seq(Connection)
  BY TailFacts
<1>3. ASSUME NEW i \in 1..Len(Tail(b)), Tail(b)[i][1] = c PROVE FALSE
  <2>1. Tail(b)[i][2] >= low + 1 /\ Tail(b)[i][2] <= low
    BY <1>1, <1>3 DEF InOrder, UpTo
  <2>2. Tail(b)[i] \in Connection
    BY <1>2
  <2>3. Tail(b)[i][2] \in Nat
    BY <2>2 DEF Connection
  <2> QED
    BY <2>1, <2>3
<1> QED
  BY <1>3 DEF NoneOf

(* The client connects its next stream. *)
LEMMA AppendOwn ==
    ASSUME NEW b \in Seq(Connection), NEW c \in Client, NEW low \in Nat,
           NEW next \in Nat, NEW top \in Nat,
           InOrder(b, c, low), Before(b, c, low, next), UpTo(b, c, top), next <= top
    PROVE  /\ InOrder(Append(b, <<c, next>>), c, low)
           /\ UpTo(Append(b, <<c, next>>), c, top)
           /\ Before(Append(b, <<c, next>>), c, low, next + 1)
<1> DEFINE x == <<c, next>>
           a == Append(b, x)
<1>0. x \in Connection /\ x[1] = c /\ x[2] = next
  BY DEF Connection
<1> HIDE DEF x
<1>1. /\ Len(b) \in Nat /\ Len(a) = Len(b) + 1
      /\ \A i \in 1..Len(b) : a[i] = b[i]
      /\ a[Len(b) + 1] = x
  BY <1>0, AppendFacts
<1> HIDE DEF a
<1>2. \A i \in 1..Len(b) : b[i][1] = c => b[i][2] \in Nat /\ b[i][2] < next
  <2> TAKE i \in 1..Len(b)
  <2>1. b[i] \in Connection
    OBVIOUS
  <2>2. b[i][2] \in Nat
    BY <2>1 DEF Connection
  <2> QED
    BY <2>2 DEF Before, UpTo
<1>3. next > low => \E j \in 1..Len(b) : b[j] = <<c, next - 1>>
  BY DEF Before
<1>4. InOrder(a, c, low)
  <2>1. ASSUME NEW i \in 1..Len(a), a[i][1] = c
        PROVE  /\ a[i][2] >= low
               /\ a[i][2] > low => \E j \in 1..(i - 1) : a[j] = <<c, a[i][2] - 1>>
    <3>1. CASE i \in 1..Len(b)
      <4>1. \A j \in 1..(i - 1) : a[j] = b[j]
        BY <1>1, <3>1
      <4> QED
        BY <1>1, <2>1, <3>1, <4>1 DEF InOrder
    <3>2. CASE i = Len(b) + 1
      <4>1. a[i] = x /\ a[i][2] = next /\ i - 1 = Len(b)
        BY <1>0, <1>1, <3>2
      <4> QED
        BY <1>1, <1>3, <4>1 DEF Before
    <3> QED
      BY <1>1, <2>1, <3>1, <3>2
  <2>2. ASSUME NEW i \in 1..Len(a), NEW j \in 1..Len(a), a[i][1] = c, a[i] = a[j]
        PROVE  i = j
    <3>1. CASE i \in 1..Len(b) /\ j \in 1..Len(b)
      BY <1>1, <2>2, <3>1 DEF InOrder
    <3>2. CASE i = Len(b) + 1 /\ j \in 1..Len(b)
      BY <1>0, <1>1, <1>2, <2>2, <3>2
    <3>3. CASE j = Len(b) + 1 /\ i \in 1..Len(b)
      BY <1>0, <1>1, <1>2, <2>2, <3>3
    <3> QED
      BY <1>1, <2>2, <3>1, <3>2, <3>3
  <2> QED
    BY <2>1, <2>2 DEF InOrder
<1>5. UpTo(a, c, top)
  BY <1>0, <1>1 DEF UpTo
<1>6. UpTo(a, c, next + 1 - 1)
  BY <1>0, <1>1, <1>2 DEF UpTo
<1>7. \E i \in 1..Len(a) : a[i] = <<c, next + 1 - 1>>
  BY <1>0, <1>1 DEF x
<1>8. Before(a, c, low, next + 1)
  BY <1>6, <1>7 DEF Before
<1> QED
  BY <1>4, <1>5, <1>8 DEF a, x

(* The control connection of a client that had none. *)
LEMMA AppendControl ==
    ASSUME NEW b \in Seq(Connection), NEW c \in Client, NoneOf(b, c)
    PROVE  /\ Single(Append(b, <<c, 0>>), c) /\ Waits(Append(b, <<c, 0>>), c)
<1> DEFINE x == <<c, 0>>
           a == Append(b, x)
<1>0. x \in Connection /\ x[1] = c /\ x[2] = 0
  BY DEF Connection
<1> HIDE DEF x
<1>1. /\ Len(b) \in Nat /\ Len(a) = Len(b) + 1
      /\ \A i \in 1..Len(b) : a[i] = b[i]
      /\ a[Len(b) + 1] = x
  BY <1>0, AppendFacts
<1> HIDE DEF a
<1>2. \A i \in 1..Len(a) : a[i][1] = c => i = Len(b) + 1
  BY <1>1 DEF NoneOf
<1>3. Single(a, c)
  BY <1>0, <1>1, <1>2 DEF Single
<1>4. Waits(a, c)
  BY <1>1 DEF Waits, x
<1> QED
  BY <1>3, <1>4 DEF a, x

-----------------------------------------------------------------------------
(* Lemmas about what a client has sent *)

LEMMA SendByte ==
    ASSUME NEW t \in Seq(FromClient), NEW m \in FromClient
    PROVE  /\ t \o <<m>> \in Seq(FromClient)
           /\ \A x : Has(t \o <<m>>, x) <=> Has(t, x) \/ x = m
           /\ \A x : Once(t, x) /\ (x = m => ~Has(t, x)) => Once(t \o <<m>>, x)
<1> DEFINE u == t \o <<m>>
<1>1. /\ u \in Seq(FromClient) /\ Len(t) \in Nat /\ Len(u) = Len(t) + 1
      /\ \A i \in 1..Len(t) : u[i] = t[i]
      /\ u[Len(t) + 1] = m
  OBVIOUS
<1> HIDE DEF u
<1>2. \A i \in 1..Len(u) : i \in 1..Len(t) \/ i = Len(t) + 1
  BY <1>1
<1>3. ASSUME NEW x PROVE Has(u, x) <=> Has(t, x) \/ x = m
  <2>1. Has(u, x) => Has(t, x) \/ x = m
    BY <1>1, <1>2 DEF Has
  <2>2. Has(t, x) => Has(u, x)
    BY <1>1 DEF Has
  <2>3. x = m => Has(u, x)
    BY <1>1 DEF Has
  <2> QED
    BY <2>1, <2>2, <2>3
<1>4. ASSUME NEW x, Once(t, x), x = m => ~Has(t, x) PROVE Once(u, x)
  BY <1>1, <1>2, <1>4 DEF Once, Has
<1> QED
  BY <1>1, <1>3, <1>4 DEF u

(* Reading one *)
LEMMA ReadByte ==
    ASSUME NEW t \in Seq(FromClient), t # <<>>
    PROVE  /\ Tail(t) \in Seq(FromClient)
           /\ Has(t, Head(t))
           /\ \A x : Has(Tail(t), x) => Has(t, x)
           /\ \A x : Once(t, x) => Once(Tail(t), x)
           /\ Once(t, Head(t)) => ~Has(Tail(t), Head(t))
<1> DEFINE u == Tail(t)
<1>1. /\ u \in Seq(FromClient) /\ Len(t) \in Nat /\ Len(t) = Len(u) + 1
      /\ \A i \in 1..Len(u) : u[i] = t[i + 1] /\ i + 1 \in 1..Len(t)
      /\ 1 \in 1..Len(t) /\ Head(t) = t[1]
  OBVIOUS
<1> HIDE DEF u
<1>2. ASSUME NEW x, Once(t, x) PROVE Once(u, x)
  <2>1. ASSUME NEW i \in 1..Len(u), NEW j \in 1..Len(u), u[i] = x, u[j] = x
        PROVE  i = j
    <3>1. i + 1 = j + 1
      BY <1>1, <1>2, <2>1 DEF Once
    <3> QED
      BY <3>1
  <2> QED
    BY <2>1 DEF Once
<1>3. Once(t, Head(t)) => ~Has(u, Head(t))
  BY <1>1 DEF Once, Has
<1>4. \A x : Has(u, x) => Has(t, x)
  BY <1>1 DEF Has
<1> QED
  BY <1>1, <1>2, <1>3, <1>4 DEF u, Has

(* A sequence without its first two elements *)
LEMMA DropTwo ==
    ASSUME NEW S, NEW t \in Seq(S), Len(t) >= 2
    PROVE  /\ SubSeq(t, 3, Len(t)) \in Seq(S)
           /\ Len(SubSeq(t, 3, Len(t))) = Len(t) - 2
           /\ \A i \in 1..(Len(t) - 2) : SubSeq(t, 3, Len(t))[i] = t[i + 2]
<1> DEFINE u == SubSeq(t, 3, Len(t))
<1>1. Len(t) \in Nat /\ 3 \in Int /\ Len(t) \in Int
  OBVIOUS
<1>2. \A i \in 3..Len(t) : t[i] \in S
  OBVIOUS
<1>3. /\ u \in Seq(S)
      /\ Len(u) = IF 3 <= Len(t) THEN Len(t) - 3 + 1 ELSE 0
      /\ \A i \in 1..(Len(t) - 3 + 1) : u[i] = t[3 + i - 1]
  BY <1>1, <1>2, SubSeqProperties
<1> HIDE DEF u
<1>4. Len(u) = Len(t) - 2
  <2>1. PICK n \in Nat : n = Len(t)
    BY <1>1
  <2>2. (IF 3 <= n THEN n - 3 + 1 ELSE 0) = n - 2
    <3>1. n >= 2
      BY <2>1
    <3> QED
      BY <3>1
  <2> QED
    BY <1>3, <2>1, <2>2
<1>5. \A i \in 1..(Len(t) - 2) : u[i] = t[i + 2]
  BY <1>1, <1>3
<1> QED
  BY <1>3, <1>4, <1>5 DEF u

(* Reading two *)
LEMMA ReadTwo ==
    ASSUME NEW t \in Seq(FromClient), Len(t) >= 2
    PROVE  /\ SubSeq(t, 3, Len(t)) \in Seq(FromClient)
           /\ Has(t, t[2])
           /\ \A x : Has(SubSeq(t, 3, Len(t)), x) => Has(t, x)
           /\ \A x : Once(t, x) => Once(SubSeq(t, 3, Len(t)), x)
           /\ Once(t, t[2]) => ~Has(SubSeq(t, 3, Len(t)), t[2])
<1> DEFINE u == SubSeq(t, 3, Len(t))
<1>1. /\ u \in Seq(FromClient) /\ Len(t) \in Nat /\ Len(t) = Len(u) + 2
      /\ \A i \in 1..Len(u) : u[i] = t[i + 2] /\ i + 2 \in 1..Len(t)
      /\ 2 \in 1..Len(t)
  <2>1. /\ u \in Seq(FromClient) /\ Len(u) = Len(t) - 2
        /\ \A i \in 1..(Len(t) - 2) : u[i] = t[i + 2]
    BY DropTwo
  <2>2. PICK n \in Nat : n = Len(t)
    OBVIOUS
  <2>3. n >= 2
    BY <2>2
  <2> HIDE DEF u
  <2> QED
    BY <2>1, <2>2, <2>3
<1> HIDE DEF u
<1>2. ASSUME NEW x, Once(t, x) PROVE Once(u, x)
  <2>1. ASSUME NEW i \in 1..Len(u), NEW j \in 1..Len(u), u[i] = x, u[j] = x
        PROVE  i = j
    <3>1. i + 2 = j + 2
      BY <1>1, <1>2, <2>1 DEF Once
    <3> QED
      BY <3>1
  <2> QED
    BY <2>1 DEF Once
<1>3. Once(t, t[2]) => ~Has(u, t[2])
  BY <1>1 DEF Once, Has
<1>4. \A x : Has(u, x) => Has(t, x)
  BY <1>1 DEF Has
<1> QED
  BY <1>1, <1>2, <1>3, <1>4 DEF u, Has

(* What is left of a cookie read out of place *)
LEMMA CutByte ==
    ASSUME NEW t \in Seq(FromClient)
    PROVE  /\ <<"cut">> \o t \in Seq(FromClient)
           /\ \A x : x # "cut" => (Has(<<"cut">> \o t, x) <=> Has(t, x))
           /\ \A x : x # "cut" /\ Once(t, x) => Once(<<"cut">> \o t, x)
<1> DEFINE u == <<"cut">> \o t
<1>0. \A m \in FromClient : <<m>> \in Seq(FromClient) /\ Len(<<m>>) = 1 /\ <<m>>[1] = m
  OBVIOUS
<1>1. /\ u \in Seq(FromClient) /\ Len(t) \in Nat /\ Len(u) = Len(t) + 1
      /\ \A i \in 2..Len(u) : u[i] = t[i - 1] /\ i - 1 \in 1..Len(t)
      /\ \A i \in 1..Len(t) : u[i + 1] = t[i] /\ i + 1 \in 1..Len(u)
      /\ u[1] = "cut"
  <2>1. "cut" \in FromClient
    BY DEF FromClient
  <2>2. \A m \in FromClient :
          /\ <<m>> \o t \in Seq(FromClient) /\ Len(<<m>> \o t) = Len(t) + 1
          /\ \A i \in 2..(Len(t) + 1) : (<<m>> \o t)[i] = t[i - 1]
          /\ (<<m>> \o t)[1] = m
    BY <1>0
  <2> QED
    BY <2>1, <2>2
<1> HIDE DEF u
<1>2. ASSUME NEW x, x # "cut", Once(t, x) PROVE Once(u, x)
  <2>1. ASSUME NEW i \in 1..Len(u), NEW j \in 1..Len(u), u[i] = x, u[j] = x
        PROVE  i = j
    <3>1. i \in 2..Len(u) /\ j \in 2..Len(u)
      BY <1>1, <1>2, <2>1
    <3>2. i - 1 = j - 1
      BY <1>1, <1>2, <2>1, <3>1 DEF Once
    <3> QED
      BY <3>1, <3>2
  <2> QED
    BY <2>1 DEF Once
<1>3. ASSUME NEW x, x # "cut" PROVE Has(u, x) <=> Has(t, x)
  <2>1. \A i \in 1..Len(u) : u[i] = x => i \in 2..Len(u)
    BY <1>1, <1>3
  <2>2. Has(u, x) => Has(t, x)
    BY <1>1, <2>1 DEF Has
  <2>3. Has(t, x) => Has(u, x)
    BY <1>1 DEF Has
  <2> QED
    BY <2>2, <2>3
<1> QED
  BY <1>1, <1>2, <1>3 DEF u

-----------------------------------------------------------------------------
(* The sequences that occur *)
LEMMA Pieces ==
    /\ \A m : <<>> \o <<m>> = <<m>> /\ <<m>> # <<>> /\ Head(<<m>>) = m
            /\ Tail(<<m>>) = <<>> /\ Len(<<m>>) = 1
    /\ \A m, n : <<m>> \o <<n>> = <<m, n>> /\ <<m, n>> # <<>> /\ Head(<<m, n>>) = m
              /\ Tail(<<m, n>>) = <<n>> /\ Len(<<m, n>>) = 2
              /\ SubSeq(<<m, n>>, 3, 2) = <<>>
    /\ \A m, n, k : /\ Head(<<m, n, k>>) = m /\ Len(<<m, n, k>>) = 3
                   /\ SubSeq(<<m, n, k>>, 3, 3) = <<k>> /\ <<m, n, k>> # <<>>
    /\ Len(<<>>) = 0
<1>1. \A m : <<>> \o <<m>> = <<m>> /\ <<m>> # <<>> /\ Head(<<m>>) = m
            /\ Tail(<<m>>) = <<>> /\ Len(<<m>>) = 1
  OBVIOUS
<1>2. ASSUME NEW m, NEW n
      PROVE  /\ <<m>> \o <<n>> = <<m, n>> /\ <<m, n>> # <<>> /\ Head(<<m, n>>) = m
             /\ Tail(<<m, n>>) = <<n>> /\ Len(<<m, n>>) = 2
  <2> DEFINE u == <<m>> \o <<n>>
  <2>1. /\ <<m>> \in Seq({m, n}) /\ Len(<<m>>) = 1 /\ <<m>>[1] = m
        /\ <<n>> \in Seq({m, n}) /\ Len(<<n>>) = 1 /\ <<n>>[1] = n
    OBVIOUS
  <2>2. \A x, y \in Seq({m, n}) :
          /\ x \o y \in Seq({m, n})
          /\ Len(x) = 1 /\ Len(y) = 1 =>
               Len(x \o y) = 2 /\ (x \o y)[1] = x[1] /\ (x \o y)[2] = y[1]
    OBVIOUS
  <2>3. u \in Seq({m, n}) /\ Len(u) = 2 /\ u[1] = m /\ u[2] = n
    BY <2>1, <2>2
  <2> HIDE DEF u
  <2>4. u = <<m, n>>
    BY <2>3
  <2>5. /\ <<m, n>> # <<>> /\ Head(<<m, n>>) = m
        /\ Tail(<<m, n>>) = <<n>> /\ Len(<<m, n>>) = 2
    OBVIOUS
  <2> QED
    BY <2>4, <2>5 DEF u
<1>3. ASSUME NEW m, NEW n PROVE SubSeq(<<m, n>>, 3, 2) = <<>>
  BY SubSeqEmpty
<1>4. ASSUME NEW m, NEW n, NEW k
      PROVE  /\ Head(<<m, n, k>>) = m /\ Len(<<m, n, k>>) = 3
             /\ SubSeq(<<m, n, k>>, 3, 3) = <<k>> /\ <<m, n, k>> # <<>>
  <2> DEFINE q == <<m, n, k>>
             u == SubSeq(q, 3, 3)
  <2>1. /\ q \in Seq({m, n, k}) /\ Len(q) = 3 /\ q # <<>>
        /\ q[1] = m /\ q[3] = k /\ Head(q) = m
    OBVIOUS
  <2> HIDE DEF q
  <2>2. u \in Seq({m, n, k}) /\ Len(u) = 1 /\ u[1] = q[3]
    BY <2>1, DropTwo
  <2> HIDE DEF u
  <2>3. u = <<k>>
    BY <2>1, <2>2
  <2> QED
    BY <2>1, <2>3 DEF u, q
<1> QED
  BY <1>1, <1>2, <1>3, <1>4

-----------------------------------------------------------------------------
(* A client's steps, seen from its end of the connection *)

(* It comes to its end, and may say so. *)
LEMMA TalkOver ==
    ASSUME NEW q, NEW pc, NEW state, NEW stopped, NEW s, NEW t,
           Talk(q, pc, state, stopped, s, t)
    PROVE  \A st, sp, z : Talk(q, "over", st, sp, z, t)
  BY DEF Talk, Asked

LEMMA TalkGoodbye ==
    ASSUME NEW q, NEW pc, NEW state, NEW stopped, NEW s, NEW t \in Seq(FromClient),
           Talk(q, pc, state, stopped, s, t),
           NEW m \in {"IPERF_DONE", "CLIENT_TERMINATE"}
    PROVE  \A st, sp, z : Talk(q, "over", st, sp, z, t \o <<m>>)
<1>1. m \in FromClient /\ m \notin {"cookie", "json", "TEST_END"}
  BY DEF FromClient, Told
<1>2. /\ \A x \in {"cookie", "json", "TEST_END"} :
           /\ Has(t \o <<m>>, x) <=> Has(t, x)
           /\ Once(t, x) => Once(t \o <<m>>, x)
  BY <1>1, SendByte
<1> QED
  BY <1>2 DEF Talk, Asked

LEMMA TalkStop ==
    ASSUME NEW q, NEW pc, NEW state, NEW stopped, NEW s, NEW t \in Seq(FromClient),
           Talk(q, pc, state, stopped, s, t)
    PROVE  Talk(q, pc, "IPERF_DONE", TRUE, s, t \o <<"IPERF_DONE">>)
<1>1. "IPERF_DONE" \in FromClient
  BY DEF FromClient, Told
<1>2. /\ \A x \in {"cookie", "json", "TEST_END"} :
           /\ Has(t \o <<"IPERF_DONE">>, x) <=> Has(t, x)
           /\ Once(t, x) => Once(t \o <<"IPERF_DONE">>, x)
  BY <1>1, SendByte
<1> QED
  BY <1>2 DEF Talk, Asked, Running

LEMMA TalkCookie ==
    ASSUME NEW q, NEW state, NEW stopped, NEW s, NEW t \in Seq(FromClient),
           Talk(q, "cookie", state, stopped, s, t)
    PROVE  Talk(q, "select", state, stopped, s, t \o <<"cookie">>)
<1> DEFINE u == t \o <<"cookie">>
<1>1. "cookie" \in FromClient
  BY DEF FromClient
<1>2. /\ q = 0 /\ s = <<>> /\ ~Has(t, "cookie") /\ ~Has(t, "json")
      /\ ~Has(t, "TEST_END") /\ state # "TEST_RUNNING"
  BY DEF Talk, Place, Asked, Running
<1>3. /\ \A x \in {"json", "TEST_END"} : Has(u, x) <=> Has(t, x)
      /\ \A x \in {"cookie", "json", "TEST_END"} : Once(t, x) => Once(u, x)
  BY <1>1, <1>2, SendByte
<1>4. ~stopped => state = "NEW" /\ t = <<>>
  BY <1>2 DEF Talk, Exact
<1>5. ~stopped => u = <<"cookie">>
  BY <1>4, Pieces
<1> HIDE DEF u
<1>6. ~stopped => Exact(q, "select", state, s, u)
  BY <1>2, <1>4, <1>5 DEF Exact
<1>7. Place(q, "select", s) /\ Running(q, state, s, u)
  BY <1>2 DEF Place, Running
<1>8. Asked(q, "select", s, u)
  BY <1>2, <1>3 DEF Talk, Asked
<1> QED
  BY <1>6, <1>7, <1>8 DEF Talk, u

LEMMA TalkLength ==
    ASSUME NEW q, NEW pc \in {"params", "results"}, NEW state, NEW stopped, NEW s,
           NEW t \in Seq(FromClient), Talk(q, pc, state, stopped, s, t)
    PROVE  Talk(q, IF pc = "params" THEN "paramsBody" ELSE "resultsBody",
                state, stopped, s, t \o <<"len">>)
<1> DEFINE u == t \o <<"len">>
           to == IF pc = "params" THEN "paramsBody" ELSE "resultsBody"
<1>1. "len" \in FromClient
  BY DEF FromClient
<1>2. /\ s = <<>> /\ ~Has(t, "cookie") /\ ~Has(t, "json") /\ ~Has(t, "TEST_END")
      /\ pc = "params" => q = 1
      /\ pc = "results" => q = 4
      /\ state # "TEST_RUNNING"
  BY DEF Talk, Place, Asked, Running
<1>3. /\ \A x \in {"cookie", "json", "TEST_END"} : Has(u, x) <=> Has(t, x)
      /\ \A x \in {"cookie", "json", "TEST_END"} : Once(t, x) => Once(u, x)
  BY <1>1, <1>2, SendByte
<1>4. ~stopped => t = <<>> /\ \/ q = 1 /\ state = "PARAM_EXCHANGE"
                              \/ q = 4 /\ state = "EXCHANGE_RESULTS"
  BY <1>2 DEF Talk, Exact
<1>5. ~stopped => u = <<"len">>
  BY <1>4, Pieces
<1> HIDE DEF u
<1>6. ~stopped => Exact(q, to, state, s, u)
  BY <1>2, <1>4, <1>5 DEF Exact
<1>7. Place(q, to, s) /\ Running(q, state, s, u)
  BY <1>2 DEF Place, Running
<1>8. Asked(q, to, s, u)
  BY <1>2, <1>3 DEF Talk, Asked
<1> QED
  BY <1>6, <1>7, <1>8 DEF Talk, u

LEMMA TalkBody ==
    ASSUME NEW q, NEW pc \in {"paramsBody", "resultsBody"}, NEW state, NEW stopped,
           NEW s, NEW t \in Seq(FromClient), Talk(q, pc, state, stopped, s, t)
    PROVE  Talk(q, IF pc = "paramsBody" THEN "select" ELSE "getResults",
                state, stopped, s, t \o <<"json">>)
<1> DEFINE u == t \o <<"json">>
           to == IF pc = "paramsBody" THEN "select" ELSE "getResults"
<1>1. "json" \in FromClient
  BY DEF FromClient
<1>2. /\ s = <<>> /\ ~Has(t, "cookie") /\ ~Has(t, "json") /\ ~Has(t, "TEST_END")
      /\ pc = "paramsBody" => q = 1
      /\ pc = "resultsBody" => q = 4
      /\ state # "TEST_RUNNING"
  BY DEF Talk, Place, Asked, Running
<1>3. /\ \A x \in {"cookie", "TEST_END"} : Has(u, x) <=> Has(t, x)
      /\ \A x \in {"cookie", "json", "TEST_END"} : Once(t, x) => Once(u, x)
  BY <1>1, <1>2, SendByte
<1>4. ~stopped => t = <<"len">> /\ \/ q = 1 /\ state = "PARAM_EXCHANGE"
                                   \/ q = 4 /\ state = "EXCHANGE_RESULTS"
  BY <1>2 DEF Talk, Exact
<1>5. ~stopped => u = <<"len", "json">>
  BY <1>4, Pieces
<1> HIDE DEF u
<1>6. ~stopped => Exact(q, to, state, s, u)
  BY <1>2, <1>4, <1>5 DEF Exact
<1>7. Place(q, to, s) /\ Running(q, state, s, u)
  BY <1>2 DEF Place, Running
<1>8. Asked(q, to, s, u)
  BY <1>2, <1>3 DEF Talk, Asked
<1> QED
  BY <1>6, <1>7, <1>8 DEF Talk, u

(* The last stream is connected. *)
LEMMA TalkStreams ==
    ASSUME NEW q, NEW state, NEW stopped, NEW s, NEW t,
           Talk(q, "streams", state, stopped, s, t)
    PROVE  Talk(q, "select", state, stopped, s, t) /\ q = 2 /\ s = <<>>
<1>1. q = 2 /\ s = <<>>
  BY DEF Talk, Place
<1>2. ~stopped => Exact(q, "select", state, s, t)
  BY <1>1 DEF Talk, Exact
<1> QED
  BY <1>1, <1>2 DEF Talk, Place, Asked

LEMMA TalkExpire ==
    ASSUME NEW q, NEW stopped, NEW s, NEW t,
           Talk(q, "select", "TEST_RUNNING", stopped, s, t)
    PROVE  Talk(q, "ending", "TEST_RUNNING", stopped, s, t)
<1>1. q = 3 /\ s = <<>> /\ ~Has(t, "TEST_END") /\ ~Has(t, "cookie") /\ ~Has(t, "json")
  BY DEF Talk, Running, Asked
<1>2. ~stopped => Exact(q, "ending", "TEST_RUNNING", s, t)
  BY <1>1 DEF Talk, Exact
<1> QED
  BY <1>1, <1>2 DEF Talk, Place, Asked, Running

LEMMA TalkEnd ==
    ASSUME NEW q, NEW state, NEW stopped, NEW s, NEW t \in Seq(FromClient),
           Talk(q, "ending", state, stopped, s, t)
    PROVE  Talk(q, "select", "TEST_END", stopped, s, t \o <<"TEST_END">>)
<1> DEFINE u == t \o <<"TEST_END">>
<1>1. "TEST_END" \in FromClient
  BY DEF FromClient, Told
<1>2. q = 3 /\ s = <<>> /\ ~Has(t, "TEST_END") /\ ~Has(t, "cookie") /\ ~Has(t, "json")
  BY DEF Talk, Place, Asked
<1>3. /\ \A x \in {"cookie", "json"} : Has(u, x) <=> Has(t, x)
      /\ \A x \in {"cookie", "json", "TEST_END"} : Once(t, x) => Once(u, x)
  BY <1>1, <1>2, SendByte
<1>4. ~stopped => t = <<>>
  BY <1>2 DEF Talk, Exact
<1>5. ~stopped => u = <<"TEST_END">>
  BY <1>4, Pieces
<1> HIDE DEF u
<1>6. ~stopped => Exact(q, "select", "TEST_END", s, u)
  BY <1>2, <1>5 DEF Exact
<1>7. Place(q, "select", s) /\ Running(q, "TEST_END", s, u)
  BY <1>2 DEF Place, Running
<1>8. Asked(q, "select", s, u)
  BY <1>2, <1>3 DEF Talk, Asked
<1> QED
  BY <1>6, <1>7, <1>8 DEF Talk, u

(* What the client has to read while it waits in select *)
LEMMA TalkNext ==
    ASSUME NEW q, NEW state, NEW stopped, NEW s, NEW t,
           Talk(q, "select", state, stopped, s, t), s # <<>>
    PROVE  \/ q = 1 /\ s = <<"PARAM_EXCHANGE">>
           \/ q = 2 /\ s = <<"CREATE_STREAMS">>
           \/ q = 3 /\ s = <<"TEST_START", "TEST_RUNNING">>
           \/ q = 3 /\ s = <<"TEST_RUNNING">>
           \/ q = 4 /\ s = <<"EXCHANGE_RESULTS">>
           \/ q = 5 /\ s = <<"DISPLAY_RESULTS">>
  BY DEF Talk, Place

Goes(m) == CASE m = "PARAM_EXCHANGE" -> "params" [] m = "CREATE_STREAMS" -> "streams"
             [] m = "EXCHANGE_RESULTS" -> "results" [] OTHER -> "select"

LEMMA TalkReceive ==
    ASSUME NEW q, NEW state, NEW stopped, NEW s, NEW t,
           Talk(q, "select", state, stopped, s, t), s # <<>>,
           Head(s) # "DISPLAY_RESULTS"
    PROVE  Talk(q, Goes(Head(s)), Head(s), stopped, Tail(s), t)
<1>1. ~Has(t, "json") /\ ~Has(t, "TEST_END")
  BY DEF Talk, Asked
<1>2. q # 0 /\ ~Has(t, "cookie")
  BY TalkNext DEF Talk, Asked
<1>3. \A pc, z : Asked(q, pc, z, t)
  BY <1>1, <1>2 DEF Talk, Asked
<1>4. CASE q = 1
  <2>0. s = <<"PARAM_EXCHANGE">>
    BY <1>4, TalkNext
  <2>1. /\ Head(s) = "PARAM_EXCHANGE" /\ Tail(s) = <<>> /\ Goes(Head(s)) = "params"
    BY <2>0, Pieces DEF Goes
  <2>2. ~stopped => t = <<>>
    BY <1>4 DEF Talk, Exact
  <2>3. Place(1, "params", <<>>) /\ Running(1, "PARAM_EXCHANGE", <<>>, t)
    BY DEF Place, Running
  <2>4. ~stopped => Exact(1, "params", "PARAM_EXCHANGE", <<>>, t)
    BY <2>2 DEF Exact
  <2> QED
    BY <1>3, <1>4, <2>1, <2>3, <2>4 DEF Talk
<1>5. CASE q = 2
  <2>0. s = <<"CREATE_STREAMS">>
    BY <1>5, TalkNext
  <2>1. /\ Head(s) = "CREATE_STREAMS" /\ Tail(s) = <<>> /\ Goes(Head(s)) = "streams"
    BY <2>0, Pieces DEF Goes
  <2>2. ~stopped => t = <<>>
    BY <1>5 DEF Talk, Exact
  <2>3. Place(2, "streams", <<>>) /\ Running(2, "CREATE_STREAMS", <<>>, t)
    BY DEF Place, Running
  <2>4. ~stopped => Exact(2, "streams", "CREATE_STREAMS", <<>>, t)
    BY <2>2 DEF Exact
  <2> QED
    BY <1>3, <1>5, <2>1, <2>3, <2>4 DEF Talk
<1>6. CASE s = <<"TEST_START", "TEST_RUNNING">>
  <2>1. /\ Head(s) = "TEST_START" /\ Tail(s) = <<"TEST_RUNNING">>
        /\ Goes(Head(s)) = "select" /\ Len(<<"TEST_RUNNING">>) = 1 /\ Len(s) = 2
    BY <1>6, Pieces DEF Goes
  <2>2. q = 3
    BY <1>6, <2>1, TalkNext, Pieces
  <2>3. ~stopped => t = <<>>
    BY <1>6, <2>1, <2>2 DEF Talk, Exact
  <2>4. Place(3, "select", <<"TEST_RUNNING">>)
        /\ Running(3, "TEST_START", <<"TEST_RUNNING">>, t)
    BY DEF Place, Running
  <2>5. ~stopped => Exact(3, "select", "TEST_START", <<"TEST_RUNNING">>, t)
    BY <2>1, <2>3 DEF Exact
  <2> QED
    BY <1>3, <2>1, <2>2, <2>4, <2>5 DEF Talk
<1>7. CASE s = <<"TEST_RUNNING">>
  <2>1. /\ Head(s) = "TEST_RUNNING" /\ Tail(s) = <<>>
        /\ Goes(Head(s)) = "select" /\ Len(s) = 1
    BY <1>7, Pieces DEF Goes
  <2>2. q = 3
    BY <1>7, <2>1, TalkNext, Pieces
  <2>3. ~stopped => t = <<>>
    BY <1>7, <2>1, <2>2 DEF Talk, Exact
  <2>4. Place(3, "select", <<>>) /\ Running(3, "TEST_RUNNING", <<>>, t)
    BY <1>1 DEF Place, Running
  <2>5. ~stopped => Exact(3, "select", "TEST_RUNNING", <<>>, t)
    BY <2>3 DEF Exact
  <2> QED
    BY <1>3, <2>1, <2>2, <2>4, <2>5 DEF Talk
<1>8. CASE q = 4
  <2>0. s = <<"EXCHANGE_RESULTS">>
    BY <1>8, TalkNext
  <2>1. /\ Head(s) = "EXCHANGE_RESULTS" /\ Tail(s) = <<>> /\ Goes(Head(s)) = "results"
    BY <2>0, Pieces DEF Goes
  <2>2. ~stopped => t = <<>>
    BY <1>8 DEF Talk, Exact
  <2>3. Place(4, "results", <<>>) /\ Running(4, "EXCHANGE_RESULTS", <<>>, t)
    BY DEF Place, Running
  <2>4. ~stopped => Exact(4, "results", "EXCHANGE_RESULTS", <<>>, t)
    BY <2>2 DEF Exact
  <2> QED
    BY <1>3, <1>8, <2>1, <2>3, <2>4 DEF Talk
<1>9. s # <<"DISPLAY_RESULTS">>
  BY Pieces
<1> QED
  BY <1>4, <1>5, <1>6, <1>7, <1>8, <1>9, TalkNext

LEMMA TalkResults ==
    ASSUME NEW q, NEW state, NEW stopped, NEW s, NEW t,
           Talk(q, "getResults", state, stopped, s, t), Framed(s)
    PROVE  Talk(q, "select", state, stopped, SubSeq(s, 3, Len(s)), t)
<1>1. s # <<>>
  BY Pieces DEF Framed
<1>2. q = 5 /\ s = <<"len", "json", "DISPLAY_RESULTS">>
  BY <1>1 DEF Talk, Place
<1>3. SubSeq(s, 3, Len(s)) = <<"DISPLAY_RESULTS">>
  BY <1>2, Pieces
<1>4. ~stopped => Exact(5, "select", state, <<"DISPLAY_RESULTS">>, t)
  BY <1>2 DEF Talk, Exact
<1>5. state # "TEST_RUNNING" /\ ~Has(t, "json") /\ ~Has(t, "TEST_END")
      /\ ~Has(t, "cookie")
  BY <1>2 DEF Talk, Running, Asked
<1> QED
  BY <1>2, <1>3, <1>4, <1>5 DEF Talk, Place, Asked, Running

(* Only a client that was stopped finds IPERF_DONE at the test of its loop. *)
LEMMA TalkAlive ==
    ASSUME NEW q, NEW pc, NEW state, NEW stopped, NEW s, NEW t,
           Talk(q, pc, state, stopped, s, t), pc # "over", ~stopped
    PROVE  state # "IPERF_DONE"
  BY DEF Talk, Exact

-----------------------------------------------------------------------------
(* A step of one client *)

AllInv == TypeInv /\ HeldInv /\ DoneInv /\ ProtocolInv

LEMMA QueuedKeep ==
    ASSUME NEW b, NEW c, NEW q, NEW n, NEW top, NEW pc, NEW next, NEW s,
           Queued(b, c, q, n, top, pc, next, s), NEW to, NEW z,
           q = 2 => /\ to = "streams" => pc = "streams"
                    /\ to = "select" /\ z # <<>> => pc = "select" /\ s # <<>>
    PROVE  Queued(b, c, q, n, top, to, next, z)
  BY DEF Queued

(* The other clients are as before: their own variables are, and a new     *)
(* connection in the backlog is none of theirs.                             *)
LEMMA OthersKeep ==
    ASSUME AllInv, NEW c \in Client, NEW d \in Client, d # c, UNCHANGED <<setup, srv>>,
           cl'[d] = cl[d], c2s'[d] = c2s[d], s2c'[d] = s2c[d], link'[d] = link[d],
           \/ UNCHANGED backlog
           \/ \E k \in Nat : backlog' = Append(backlog, <<c, k>>)
    PROVE  /\ IdleInv(d)' /\ LinkInv(d)' /\ FairInv(d)'
           /\ link'[d] = "open" /\ PhaseOf(d)' # 6 => OpenInv(d)'
<1>1. backlog \in Seq(Connection) /\ srv \in ServerRecord /\ cl[d] \in ClientRecord
      /\ setup \in Setups
  BY DEF AllInv, TypeInv, ClientTypes
<1>2. IdleInv(d) /\ LinkInv(d) /\ FairInv(d)
      /\ (link[d] = "open" /\ PhaseOf(d) # 6 => OpenInv(d))
  BY DEF AllInv, ProtocolInv, Sessions
<1>3. /\ Served(d)' <=> Served(d)
      /\ Phase' = Phase /\ PhaseOf(d)' = PhaseOf(d) /\ Connections(d)' = Connections(d)
      /\ Blamed(d)' <=> Blamed(d)
  BY DEF Served, Proper, Serving, Peer, Phase, PhaseOf, Connections, Blamed
<1> DEFINE n == Len(srv.streams)
           top == Connections(d)
<1>4. /\ Waits(backlog', d) <=> Waits(backlog, d)
      /\ NoneOf(backlog, d) => NoneOf(backlog', d)
      /\ Single(backlog, d) => Single(backlog', d)
      /\ InOrder(backlog, d, n + 1) => InOrder(backlog', d, n + 1)
      /\ UpTo(backlog, d, top) => UpTo(backlog', d, top)
      /\ Before(backlog, d, n + 1, cl[d].next) => Before(backlog', d, n + 1, cl[d].next)
  <2>1. CASE UNCHANGED backlog
    BY <2>1
  <2>2. CASE \E k \in Nat : backlog' = Append(backlog, <<c, k>>)
    <3>1. PICK k \in Nat : backlog' = Append(backlog, <<c, k>>)
      BY <2>2
    <3>2. <<c, k>> \in Connection /\ <<c, k>>[1] # d
      BY DEF Connection
    <3>3. n + 1 \in Nat /\ top \in Int /\ cl[d].next \in Nat
      <4>1. srv.streams \in Seq(Stream) /\ cl[d].next \in Nat
        BY <1>1 DEF ServerRecord, ClientRecord
      <4> QED
        BY <1>1, <4>1, SetupOf
    <3> HIDE DEF n, top
    <3> QED
      BY <1>1, <3>1, <3>2, <3>3, AppendOther
  <2> QED
    BY <2>1, <2>2
<1>5. IdleInv(d)'
  BY <1>2, <1>4 DEF IdleInv
<1>6. LinkInv(d)'
  BY <1>2, <1>3, <1>4 DEF LinkInv
<1>7. FairInv(d)'
  BY <1>2, <1>3, <1>4 DEF FairInv
<1>8. ASSUME link'[d] = "open", PhaseOf(d)' # 6 PROVE OpenInv(d)'
  <2>1. OpenInv(d)
    BY <1>2, <1>3, <1>8
  <2>2. /\ Talk(PhaseOf(d), cl[d].pc, cl[d].state, cl[d].stopped, s2c[d], c2s[d])
        /\ Queued(backlog, d, PhaseOf(d), n, top, cl[d].pc, cl[d].next, s2c[d])
    BY <2>1 DEF OpenInv
  <2>3. Queued(backlog', d, PhaseOf(d), n, top, cl[d].pc, cl[d].next, s2c[d])
    BY <1>4, <2>2 DEF Queued
  <2> QED
    BY <1>3, <2>2, <2>3 DEF OpenInv
<1> QED
  BY <1>5, <1>6, <1>7, <1>8

(* Nothing changes in what the server is. *)
LEMMA ServerKeeps ==
    ASSUME UNCHANGED <<setup, srv>>
    PROVE  /\ (ServerInv => ServerInv') /\ (StreamsInv => StreamsInv')
           /\ Phase' = Phase
           /\ \A c \in Client : /\ Served(c)' <=> Served(c)
                                /\ PhaseOf(c)' = PhaseOf(c)
                                /\ Connections(c)' = Connections(c)
  BY DEF ServerInv, StreamsInv, StreamsPaired, ClientSends, Served, Proper, Serving,
         Peer, Phase, PhaseOf, Connections

(* What a client does that has dialled and has not come to its end: the    *)
(* record r, the bytes s on the way to it and t from it are what it leaves. *)
LEMMA OneSession ==
    ASSUME AllInv, NEW c \in Client, cl[c].pc \notin {"idle", "over"},
           NEW r \in ClientRecord, NEW s, NEW t \in Seq(FromClient),
           UNCHANGED <<setup, srv, link>>,
           cl' = [cl EXCEPT ![c] = r], s2c' = [s2c EXCEPT ![c] = s],
           c2s' = [c2s EXCEPT ![c] = t],
           \/ UNCHANGED backlog
           \/ \E k \in Nat \ {0} : backlog' = Append(backlog, <<c, k>>),
           r.pc # "idle", r.accepted = cl[c].accepted,
           r.crossed = cl[c].crossed, cl[c].trouble => r.trouble,
           r.stopped => r.trouble,
           r.pc # "over" => r.outcome = "none" /\ ~r.closed,
           r.pc = "over" => \/ r.outcome = "done" /\ ~Waits(backlog, c)
                            \/ r.trouble
                            \/ link[c] # "open" \/ PhaseOf(c) = 6,
           link[c] # "open" => t = <<>>,
           link[c] = "open" /\ PhaseOf(c) # 6 =>
             /\ Talk(PhaseOf(c), r.pc, r.state, r.stopped, s, t)
             /\ Queued(backlog', c, PhaseOf(c), Len(srv.streams), Connections(c),
                       r.pc, r.next, s)
    PROVE  ProtocolInv'
<1>1. /\ backlog \in Seq(Connection) /\ cl \in [Client -> ClientRecord]
      /\ link \in [Client -> {"none", "open", "shut"}]
      /\ s2c \in [Client -> Seq(Byte)] /\ c2s \in [Client -> Seq(FromClient)]
  BY DEF AllInv, TypeInv, ClientTypes, DoneInv, ProtocolInv
<1>2. /\ cl'[c] = r /\ s2c'[c] = s /\ c2s'[c] = t /\ link'[c] = link[c]
      /\ \A d \in Client : d # c => /\ cl'[d] = cl[d] /\ c2s'[d] = c2s[d]
                                    /\ s2c'[d] = s2c[d] /\ link'[d] = link[d]
      /\ c2s' \in [Client -> Seq(FromClient)]
  BY <1>1
<1>3. IdleInv(c) /\ LinkInv(c) /\ FairInv(c)
  BY DEF AllInv, ProtocolInv
<1>4. /\ Served(c)' <=> Served(c)
      /\ Phase' = Phase /\ PhaseOf(c)' = PhaseOf(c)
      /\ Connections(c)' = Connections(c)
      /\ ServerInv' /\ StreamsInv'
  BY ServerKeeps DEF AllInv, ProtocolInv
<1>5. Waits(backlog', c) <=> Waits(backlog, c)
  <2>1. CASE UNCHANGED backlog
    BY <2>1
  <2>2. CASE \E k \in Nat \ {0} : backlog' = Append(backlog, <<c, k>>)
    <3>1. PICK k \in Nat \ {0} : backlog' = Append(backlog, <<c, k>>)
      BY <2>2
    <3>2. <<c, k>> \in Connection /\ <<c, k>> # <<c, 0>>
      BY DEF Connection
    <3>3. /\ Len(backlog) \in Nat /\ Len(backlog') = Len(backlog) + 1
          /\ \A i \in 1..Len(backlog) : backlog'[i] = backlog[i]
          /\ backlog'[Len(backlog) + 1] = <<c, k>>
      BY <1>1, <3>1, <3>2, AppendFacts
    <3>4. \A i \in 1..Len(backlog') : i \in 1..Len(backlog) \/ i = Len(backlog) + 1
      BY <3>3
    <3>5. \A i \in 1..Len(backlog) : i \in 1..Len(backlog')
      BY <3>3
    <3> HIDE <2>2
    <3>6. Waits(backlog', c) => Waits(backlog, c)
      BY <3>2, <3>3, <3>4 DEF Waits
    <3>7. Waits(backlog, c) => Waits(backlog', c)
      BY <3>3, <3>5 DEF Waits
    <3> QED
      BY <3>6, <3>7
  <2> QED
    BY <2>1, <2>2
<1>6. IdleInv(c)'
  BY <1>2 DEF IdleInv
<1>7. LinkInv(c)'
  <2>1. ~cl[c].closed
    BY <1>3 DEF LinkInv
  <2>2. r.closed => r.pc = "over"
    OBVIOUS
  <2> QED
    BY <1>2, <1>3, <1>4, <1>5, <2>2 DEF LinkInv
<1>8. FairInv(c)'
  <2>1. Blamed(c) => Blamed(c)'
    BY <1>2 DEF Blamed
  <2>2. Waits(backlog, c) => link[c] = "open" /\ PhaseOf(c) = 0
    BY <1>3 DEF LinkInv, PhaseOf
  <2>3. Served(c) => link[c] = "open" /\ PhaseOf(c) = Phase
    BY <1>3 DEF LinkInv, PhaseOf
  <2>4. cl[c].accepted /\ ~Blamed(c) => Served(c) /\ Phase # 6
    BY <1>3 DEF FairInv
  <2>5. r.pc = "over" /\ Waits(backlog, c) => r.trouble
    BY <2>2
  <2>6. r.accepted /\ ~Blamed(c)' /\ r.pc = "over" => r.outcome = "done"
    BY <1>2, <2>1, <2>3, <2>4 DEF Blamed
  <2>7. Waits(backlog, c) => ~cl[c].accepted
    BY <1>3 DEF FairInv
  <2> QED
    BY <1>2, <1>4, <1>5, <2>1, <2>4, <2>5, <2>6, <2>7 DEF FairInv
<1>9. link'[c] = "open" /\ PhaseOf(c)' # 6 => OpenInv(c)'
  BY <1>2, <1>4 DEF OpenInv
<1>10. ASSUME NEW d \in Client, d # c
       PROVE  /\ IdleInv(d)' /\ LinkInv(d)' /\ FairInv(d)'
              /\ link'[d] = "open" /\ PhaseOf(d)' # 6 => OpenInv(d)'
  BY <1>2, <1>10, OthersKeep
<1> QED
  BY <1>2, <1>4, <1>6, <1>7, <1>8, <1>9, <1>10 DEF ProtocolInv, Sessions

(* What is known of a client that has dialled and has not come to its end *)
LEMMA InSession ==
    ASSUME AllInv, NEW c \in Client, cl[c].pc \notin {"idle", "over"}
    PROVE  /\ cl[c] \in ClientRecord /\ cl[c].outcome = "none" /\ ~cl[c].closed
           /\ cl[c].stopped => cl[c].trouble
           /\ cl[c].next \in Nat \ {0} /\ cl[c].next <= Connections(c)
           /\ Connections(c) \in Nat \ {0}
           /\ s2c \in [Client -> Seq(Byte)] /\ c2s \in [Client -> Seq(FromClient)]
           /\ s2c[c] \in Seq(Byte) /\ c2s[c] \in Seq(FromClient)
           /\ link[c] # "open" => c2s[c] = <<>>
           /\ Waits(backlog, c) => link[c] = "open" /\ PhaseOf(c) = 0
           /\ link[c] = "open" /\ PhaseOf(c) # 6 =>
                /\ Talk(PhaseOf(c), cl[c].pc, cl[c].state, cl[c].stopped, s2c[c], c2s[c])
                /\ Queued(backlog, c, PhaseOf(c), Len(srv.streams), Connections(c),
                          cl[c].pc, cl[c].next, s2c[c])
<1>1. TypeInv /\ DoneInv /\ ProtocolInv
  BY DEF AllInv
<1>2. /\ cl[c] \in ClientRecord /\ cl[c].next \in 1..Connections(c)
      /\ Connections(c) \in Nat \ {0}
  BY <1>1, SetupOf DEF TypeInv, ClientTypes
<1>3. IdleInv(c) /\ LinkInv(c) /\ FairInv(c)
  BY <1>1 DEF ProtocolInv
<1>4. /\ cl[c].outcome = "none" /\ ~cl[c].closed
      /\ cl[c].stopped => cl[c].trouble
      /\ link[c] # "open" => c2s[c] = <<>>
      /\ Waits(backlog, c) => link[c] = "open" /\ PhaseOf(c) = 0
  BY <1>3 DEF LinkInv, FairInv, PhaseOf
<1>5. /\ s2c \in [Client -> Seq(Byte)] /\ c2s \in [Client -> Seq(FromClient)]
      /\ s2c[c] \in Seq(Byte) /\ c2s[c] \in Seq(FromClient)
  BY <1>1 DEF DoneInv, ProtocolInv
<1>6. link[c] = "open" /\ PhaseOf(c) # 6 =>
        /\ Talk(PhaseOf(c), cl[c].pc, cl[c].state, cl[c].stopped, s2c[c], c2s[c])
        /\ Queued(backlog, c, PhaseOf(c), Len(srv.streams), Connections(c),
                  cl[c].pc, cl[c].next, s2c[c])
  BY <1>1 DEF ProtocolInv, Sessions, OpenInv
<1> QED
  BY <1>2, <1>4, <1>5, <1>6

(* A client comes to its end. *)
LEMMA LeaveSession ==
    ASSUME AllInv, NEW c \in Client, cl[c].pc \notin {"idle", "over"},
           NEW r \in ClientRecord, NEW s,
           NEW m \in {"IPERF_DONE", "CLIENT_TERMINATE"},
           UNCHANGED <<setup, srv, link, backlog>>,
           cl' = [cl EXCEPT ![c] = r], s2c' = [s2c EXCEPT ![c] = s],
           UNCHANGED c2s \/ ToServer(c, <<m>>),
           r.pc = "over", r.accepted = cl[c].accepted,
           r.crossed = cl[c].crossed, cl[c].trouble => r.trouble,
           r.stopped = cl[c].stopped, r.next = cl[c].next,
           \/ r.outcome = "done" /\ ~Waits(backlog, c)
           \/ r.trouble
           \/ link[c] # "open" \/ PhaseOf(c) = 6
    PROVE  ProtocolInv'
<1> DEFINE t == IF c2s' # c2s /\ link[c] = "open" THEN c2s[c] \o <<m>> ELSE c2s[c]
<1>1. /\ c2s \in [Client -> Seq(FromClient)] /\ c2s[c] \in Seq(FromClient)
      /\ link[c] # "open" => c2s[c] = <<>>
      /\ cl[c].stopped => cl[c].trouble
  BY InSession
<1>2. m \in FromClient /\ c2s[c] \o <<m>> \in Seq(FromClient)
  <2>1. m \in FromClient
    BY DEF FromClient, Told
  <2> QED
    BY <1>1, <2>1, SendByte
<1>3. t \in Seq(FromClient) /\ (link[c] # "open" => t = <<>>)
  BY <1>1, <1>2
<1>4. c2s' = [c2s EXCEPT ![c] = t]
  <2>1. CASE UNCHANGED c2s
    <3>1. t = c2s[c]
      BY <2>1
    <3>2. c2s = [c2s EXCEPT ![c] = c2s[c]]
      BY <1>1
    <3> QED
      BY <2>1, <3>1, <3>2
  <2>2. CASE c2s' # c2s
    <3>1. ToServer(c, <<m>>)
      BY <2>2
    <3>2. t = IF link[c] = "open" THEN c2s[c] \o <<m>> ELSE c2s[c]
      BY <2>2
    <3> QED
      BY <3>1, <3>2 DEF ToServer
  <2> QED
    BY <2>1, <2>2
<1>5. ASSUME link[c] = "open", PhaseOf(c) # 6
      PROVE  /\ Talk(PhaseOf(c), "over", r.state, r.stopped, s, t)
             /\ Queued(backlog, c, PhaseOf(c), Len(srv.streams), Connections(c),
                       "over", r.next, s)
  <2>1. /\ Talk(PhaseOf(c), cl[c].pc, cl[c].state, cl[c].stopped, s2c[c], c2s[c])
        /\ Queued(backlog, c, PhaseOf(c), Len(srv.streams), Connections(c),
                  cl[c].pc, cl[c].next, s2c[c])
    BY <1>5, InSession
  <2>2. Talk(PhaseOf(c), "over", r.state, r.stopped, s, c2s[c])
    BY <2>1, TalkOver
  <2>3. Talk(PhaseOf(c), "over", r.state, r.stopped, s, c2s[c] \o <<m>>)
    BY <1>1, <2>1, TalkGoodbye
  <2> QED
    BY <2>1, <2>2, <2>3, QueuedKeep
<1> HIDE DEF t
<1> QED
  BY <1>1, <1>3, <1>4, <1>5, OneSession

(* A client is back at the test of its loop; only one that was stopped     *)
(* leaves there.                                                            *)
LEMMA BackSession ==
    ASSUME AllInv, NEW c \in Client, cl[c].pc \notin {"idle", "over"},
           NEW s, NEW t \in Seq(FromClient),
           UNCHANGED <<setup, srv, link>>,
           cl' = [cl EXCEPT ![c] = Back(cl[c])], s2c' = [s2c EXCEPT ![c] = s],
           c2s' = [c2s EXCEPT ![c] = t],
           \/ UNCHANGED backlog
           \/ \E k \in Nat \ {0} : backlog' = Append(backlog, <<c, k>>),
           link[c] # "open" => t = <<>>,
           link[c] = "open" /\ PhaseOf(c) # 6 =>
             /\ Talk(PhaseOf(c), "select", cl[c].state, cl[c].stopped, s, t)
             /\ Queued(backlog', c, PhaseOf(c), Len(srv.streams), Connections(c),
                       "select", cl[c].next, s)
    PROVE  ProtocolInv'
<1>0. /\ cl[c] \in ClientRecord /\ cl[c].outcome = "none" /\ ~cl[c].closed
      /\ cl[c].stopped => cl[c].trouble
      /\ link[c] = "open" /\ PhaseOf(c) # 6 =>
           Talk(PhaseOf(c), cl[c].pc, cl[c].state, cl[c].stopped, s2c[c], c2s[c])
  BY InSession
<1>1. CASE cl[c].state # "IPERF_DONE"
  <2> DEFINE r == [cl[c] EXCEPT !.pc = "select"]
  <2>1. cl' = [cl EXCEPT ![c] = r]
    BY <1>1 DEF Back
  <2>2. /\ r \in ClientRecord /\ r.pc = "select" /\ r.accepted = cl[c].accepted
        /\ r.crossed = cl[c].crossed
        /\ r.trouble = cl[c].trouble /\ r.stopped = cl[c].stopped
        /\ r.outcome = "none" /\ ~r.closed
        /\ r.state = cl[c].state /\ r.next = cl[c].next
    BY <1>0 DEF ClientRecord, ClientPc
  <2> HIDE DEF r
  <2>3. /\ r.pc # "idle" /\ r.pc # "over" /\ (cl[c].trouble => r.trouble)
        /\ (r.stopped => r.trouble)
    BY <1>0, <2>2
  <2> QED
    BY <2>1, <2>2, <2>3, OneSession
<1>2. CASE cl[c].state = "IPERF_DONE"
  <2> DEFINE r == Over(cl[c], "done")
  <2>1. cl' = [cl EXCEPT ![c] = r]
    BY <1>2 DEF Back
  <2>2. /\ r \in ClientRecord /\ r.pc = "over" /\ r.accepted = cl[c].accepted
        /\ r.crossed = cl[c].crossed
        /\ r.trouble = cl[c].trouble /\ r.stopped = cl[c].stopped
        /\ r.outcome = "done"
        /\ r.state = cl[c].state /\ r.next = cl[c].next
    BY <1>0 DEF ClientRecord, ClientPc, Over
  <2> HIDE DEF r
  <2>3. r.trouble \/ link[c] # "open" \/ PhaseOf(c) = 6
    BY <1>0, <1>2, <2>2, TalkAlive
  <2>4. ASSUME link[c] = "open", PhaseOf(c) # 6
        PROVE  /\ Talk(PhaseOf(c), r.pc, r.state, r.stopped, s, t)
               /\ Queued(backlog', c, PhaseOf(c), Len(srv.streams), Connections(c),
                         r.pc, r.next, s)
    <3>1. Talk(PhaseOf(c), "over", r.state, r.stopped, s, t)
      BY <2>4, TalkOver
    <3>2. Queued(backlog', c, PhaseOf(c), Len(srv.streams), Connections(c),
                 "over", cl[c].next, s)
      BY <2>4, QueuedKeep
    <3> QED
      BY <2>2, <3>1, <3>2
  <2>5. /\ r.pc # "idle" /\ (cl[c].trouble => r.trouble)
        /\ (r.stopped => r.trouble)
    BY <1>0, <2>2
  <2> QED
    BY <2>1, <2>2, <2>3, <2>4, <2>5, OneSession
<1> QED
  BY <1>1, <1>2

(* What c2s is after a client has written *)
LEMMA Said ==
    ASSUME AllInv, NEW c \in Client, cl[c].pc \notin {"idle", "over"},
           NEW m \in FromClient, ToServer(c, <<m>>)
    PROVE  \E t \in Seq(FromClient) :
             /\ c2s' = [c2s EXCEPT ![c] = t]
             /\ link[c] # "open" => t = <<>>
             /\ link[c] = "open" => t = c2s[c] \o <<m>>
<1> DEFINE t == IF link[c] = "open" THEN c2s[c] \o <<m>> ELSE c2s[c]
<1>1. c2s[c] \in Seq(FromClient) /\ (link[c] # "open" => c2s[c] = <<>>)
  BY InSession
<1>2. t \in Seq(FromClient)
  BY <1>1, SendByte
<1>3. c2s' = [c2s EXCEPT ![c] = t]
  BY DEF ToServer
<1> QED
  BY <1>1, <1>2, <1>3

LEMMA CookieSession ==
    ASSUME AllInv, NEW c \in Client, SendCookie(c)
    PROVE  ProtocolInv'
<1>1. /\ cl[c].pc = "cookie" /\ ToServer(c, <<"cookie">>)
      /\ cl' = [cl EXCEPT ![c] = Back(cl[c])]
      /\ UNCHANGED <<setup, srv, backlog, s2c, link>>
  BY DEF SendCookie
<1>2. /\ s2c \in [Client -> Seq(Byte)] /\ c2s[c] \in Seq(FromClient)
      /\ link[c] = "open" /\ PhaseOf(c) # 6 =>
           /\ Talk(PhaseOf(c), "cookie", cl[c].state, cl[c].stopped, s2c[c], c2s[c])
           /\ Queued(backlog, c, PhaseOf(c), Len(srv.streams), Connections(c),
                     "cookie", cl[c].next, s2c[c])
  BY <1>1, InSession
<1>3. PICK t \in Seq(FromClient) :
        /\ c2s' = [c2s EXCEPT ![c] = t]
        /\ link[c] # "open" => t = <<>>
        /\ link[c] = "open" => t = c2s[c] \o <<"cookie">>
  <2>1. "cookie" \in FromClient
    BY DEF FromClient
  <2> QED
    BY <1>1, <2>1, Said
<1>4. s2c' = [s2c EXCEPT ![c] = s2c[c]]
  BY <1>1, <1>2
<1>5. ASSUME link[c] = "open", PhaseOf(c) # 6
      PROVE  /\ Talk(PhaseOf(c), "select", cl[c].state, cl[c].stopped, s2c[c], t)
             /\ Queued(backlog', c, PhaseOf(c), Len(srv.streams), Connections(c),
                       "select", cl[c].next, s2c[c])
  <2>1. Talk(PhaseOf(c), "select", cl[c].state, cl[c].stopped, s2c[c], t)
    BY <1>2, <1>3, <1>5, TalkCookie
  <2>2. s2c[c] = <<>>
    BY <1>2, <1>5 DEF Talk, Place
  <2> QED
    BY <1>1, <1>2, <1>5, <2>1, <2>2, QueuedKeep
<1> QED
  BY <1>1, <1>3, <1>4, <1>5, BackSession

LEMMA ReceiveSession ==
    ASSUME AllInv, NEW c \in Client, Receive(c)
    PROVE  ProtocolInv'
<1> DEFINE m == Head(s2c[c])
<1>1. /\ cl[c].pc = "select" /\ s2c[c] # <<>> /\ m \in Announcement \ {"DISPLAY_RESULTS"}
      /\ s2c' = [s2c EXCEPT ![c] = Tail(s2c[c])]
      /\ UNCHANGED <<setup, srv, backlog, c2s, link>>
  BY DEF Receive
<1>2. /\ s2c \in [Client -> Seq(Byte)] /\ c2s \in [Client -> Seq(FromClient)]
      /\ c2s[c] \in Seq(FromClient) /\ cl[c] \in ClientRecord
      /\ cl[c].outcome = "none" /\ ~cl[c].closed
      /\ cl[c].stopped => cl[c].trouble
      /\ link[c] # "open" => c2s[c] = <<>>
      /\ link[c] = "open" /\ PhaseOf(c) # 6 =>
           /\ Talk(PhaseOf(c), "select", cl[c].state, cl[c].stopped, s2c[c], c2s[c])
           /\ Queued(backlog, c, PhaseOf(c), Len(srv.streams), Connections(c),
                     "select", cl[c].next, s2c[c])
  BY <1>1, InSession
<1>3. PICK armed \in BOOLEAN :
        cl' = [cl EXCEPT ![c] = [cl[c] EXCEPT !.state = m, !.pc = Goes(m),
                                              !.armed = armed]]
  <2> DEFINE q == [cl[c] EXCEPT !.state = m]
             To(pc, armed) == [cl[c] EXCEPT !.state = m, !.pc = pc, !.armed = armed]
  <2>1. cl' = [cl EXCEPT ![c] =
                 CASE m = "PARAM_EXCHANGE" -> [q EXCEPT !.pc = "params"]
                   [] m = "CREATE_STREAMS" -> [q EXCEPT !.pc = "streams"]
                   [] m = "EXCHANGE_RESULTS" -> [q EXCEPT !.pc = "results"]
                   [] m = "TEST_START" -> [q EXCEPT !.armed = TRUE]
                   [] OTHER -> q]
    BY DEF Receive
  <2> HIDE DEF m
  <2>2. /\ [q EXCEPT !.pc = "params"] = To("params", cl[c].armed)
        /\ [q EXCEPT !.pc = "streams"] = To("streams", cl[c].armed)
        /\ [q EXCEPT !.pc = "results"] = To("results", cl[c].armed)
        /\ [q EXCEPT !.armed = TRUE] = To("select", TRUE)
        /\ q = To("select", cl[c].armed)
    BY <1>1, <1>2 DEF ClientRecord
  <2>3. cl[c].armed \in BOOLEAN
    BY <1>2 DEF ClientRecord
  <2>4. \E armed \in BOOLEAN : cl' = [cl EXCEPT ![c] = To(Goes(m), armed)]
    <3> HIDE DEF q, To
    <3> QED
      BY <2>1, <2>2, <2>3 DEF Goes
  <2> QED
    BY <2>4
<1> DEFINE r == [cl[c] EXCEPT !.state = m, !.pc = Goes(m), !.armed = armed]
<1>4. /\ Goes(m) \in {"params", "streams", "results", "select"} /\ m \in State
      /\ m # "DISPLAY_RESULTS"
  BY <1>1 DEF Goes, State
<1> HIDE DEF m
<1>5. /\ r \in ClientRecord /\ r.pc = Goes(m) /\ r.state = m
      /\ r.accepted = cl[c].accepted
      /\ r.crossed = cl[c].crossed /\ r.trouble = cl[c].trouble
      /\ r.stopped = cl[c].stopped /\ r.next = cl[c].next
      /\ r.outcome = "none" /\ ~r.closed
  BY <1>2, <1>4 DEF ClientRecord, ClientPc
<1>6. c2s' = [c2s EXCEPT ![c] = c2s[c]]
  BY <1>1, <1>2
<1>7. ASSUME link[c] = "open", PhaseOf(c) # 6
      PROVE  /\ Talk(PhaseOf(c), r.pc, r.state, r.stopped, Tail(s2c[c]), c2s[c])
             /\ Queued(backlog', c, PhaseOf(c), Len(srv.streams), Connections(c),
                       r.pc, r.next, Tail(s2c[c]))
  <2>1. Talk(PhaseOf(c), Goes(m), m, cl[c].stopped, Tail(s2c[c]), c2s[c])
    BY <1>1, <1>2, <1>4, <1>7, TalkReceive DEF m
  <2>2. /\ Talk(PhaseOf(c), "select", cl[c].state, cl[c].stopped, s2c[c], c2s[c])
        /\ Queued(backlog, c, PhaseOf(c), Len(srv.streams), Connections(c),
                  "select", cl[c].next, s2c[c])
    BY <1>2, <1>7
  <2>3. CASE PhaseOf(c) = 2
    <3>1. s2c[c] = <<"CREATE_STREAMS">>
      BY <1>1, <2>2, <2>3, TalkNext
    <3>2. m = "CREATE_STREAMS" /\ Goes(m) = "streams"
      BY <3>1, Pieces DEF Goes, m
    <3>3. /\ NoneOf(backlog, c) /\ Len(srv.streams) = 0 /\ cl[c].next = 1
          /\ InOrder(backlog, c, Len(srv.streams) + 1)
          /\ UpTo(backlog, c, Connections(c))
      BY <1>1, <2>2, <2>3 DEF Queued
    <3>4. Before(backlog, c, 1, 1)
      BY <3>3 DEF Before, UpTo, NoneOf
    <3>5. Len(srv.streams) + 1 = 1
      BY <3>3
    <3>6. Queued(backlog, c, 2, Len(srv.streams), Connections(c), "streams",
                 cl[c].next, Tail(s2c[c]))
      BY <3>3, <3>4, <3>5 DEF Queued
    <3> QED
      BY <1>1, <1>5, <2>1, <2>3, <3>2, <3>6
  <2>4. CASE PhaseOf(c) # 2
    <3>1. Queued(backlog, c, PhaseOf(c), Len(srv.streams), Connections(c),
                 Goes(m), cl[c].next, Tail(s2c[c]))
      BY <2>2, <2>4, QueuedKeep
    <3> QED
      BY <1>1, <1>5, <2>1, <3>1
  <2> QED
    BY <2>3, <2>4
<1>8. /\ r.pc # "idle" /\ r.pc # "over" /\ (cl[c].trouble => r.trouble)
      /\ (r.stopped => r.trouble) /\ cl' = [cl EXCEPT ![c] = r]
  BY <1>2, <1>3, <1>4, <1>5
<1> HIDE DEF r
<1> QED
  BY <1>1, <1>2, <1>5, <1>6, <1>7, <1>8, OneSession

(* A client fails: it was refused by somebody to blame, or the server has  *)
(* closed its end, or is about to.                                          *)
LEMMA FailSession ==
    ASSUME AllInv, NEW c \in Client, cl[c].pc \notin {"idle", "over"},
           NEW state \in State, Fails(c, state), UNCHANGED <<setup, srv, link, backlog>>,
           link[c] # "open" \/ PhaseOf(c) = 6
    PROVE  ProtocolInv'
<1> DEFINE q == Over(cl[c], "failed")
           r == [q EXCEPT !.state = state, !.closed = TRUE]
<1>1. cl[c] \in ClientRecord
  BY InSession
<1>2. /\ cl' = [cl EXCEPT ![c] = r] /\ s2c' = [s2c EXCEPT ![c] = <<>>]
      /\ UNCHANGED c2s \/ ToServer(c, <<"IPERF_DONE">>)
  BY DEF Fails
<1>3. /\ q \in ClientRecord /\ q.pc = "over" /\ q.accepted = cl[c].accepted
      /\ q.crossed = cl[c].crossed
      /\ q.trouble = cl[c].trouble /\ q.stopped = cl[c].stopped
      /\ q.next = cl[c].next
  BY <1>1, OverBack DEF Over, ClientRecord
<1> HIDE DEF q
<1>4. /\ r \in ClientRecord /\ r.pc = "over" /\ r.accepted = cl[c].accepted
      /\ r.crossed = cl[c].crossed
      /\ r.trouble = cl[c].trouble /\ r.stopped = cl[c].stopped
      /\ r.next = cl[c].next
  BY <1>3 DEF ClientRecord
<1> HIDE DEF r
<1> QED
  BY <1>2, <1>4, LeaveSession

LEMMA FailuresSession ==
    ASSUME AllInv, NEW c \in Client,
           Refused(c) \/ StreamRefused(c) \/ LinkLost(c) \/ GivesUp(c)
    PROVE  ProtocolInv'
<1>1. CASE Refused(c)
  <2>1. /\ cl[c].pc = "select" /\ s2c[c] # <<>> /\ Head(s2c[c]) \in Refusal
        /\ Fails(c, Head(s2c[c])) /\ UNCHANGED <<setup, srv, backlog, link>>
    BY <1>1 DEF Refused
  <2>2. ASSUME link[c] = "open", PhaseOf(c) # 6 PROVE FALSE
    <3>1. Talk(PhaseOf(c), "select", cl[c].state, cl[c].stopped, s2c[c], c2s[c])
      BY <2>1, <2>2, InSession
    <3>2. Head(s2c[c]) \in Announcement
      <4> DEFINE s == s2c[c]
      <4>1. \/ s = <<"PARAM_EXCHANGE">> \/ s = <<"CREATE_STREAMS">>
            \/ s = <<"TEST_START", "TEST_RUNNING">> \/ s = <<"TEST_RUNNING">>
            \/ s = <<"EXCHANGE_RESULTS">> \/ s = <<"DISPLAY_RESULTS">>
        BY <2>1, <3>1, TalkNext
      <4> HIDE DEF s
      <4>2. Head(s) \in Announcement
        BY <4>1, Pieces DEF Announcement
      <4> QED
        BY <4>2 DEF s
    <3> QED
      BY <2>1, <3>2 DEF Announcement, Refusal
  <2>3. Head(s2c[c]) \in State
    BY <2>1 DEF State
  <2> QED
    BY <2>1, <2>2, <2>3, FailSession
<1>2. CASE StreamRefused(c)
  <2>1. /\ cl[c].pc = "streams" /\ ~srv.listening /\ Fails(c, cl[c].state)
        /\ UNCHANGED <<setup, srv, backlog, link>>
    BY <1>2 DEF StreamRefused
  <2>2. ASSUME link[c] = "open", PhaseOf(c) # 6 PROVE FALSE
    <3>1. Talk(PhaseOf(c), "streams", cl[c].state, cl[c].stopped, s2c[c], c2s[c])
      BY <2>1, <2>2, InSession
    <3>2. PhaseOf(c) = 2
      BY <3>1, TalkStreams
    <3>3. srv.pc = "select"
      BY <3>2 DEF PhaseOf, Phase
    <3>4. srv.listening
      BY <3>3 DEF AllInv, ProtocolInv, ServerInv, Open
    <3> QED
      BY <2>1, <3>4
  <2>3. cl[c].state \in State
    BY <2>1, InSession DEF ClientRecord
  <2> QED
    BY <2>1, <2>2, <2>3, FailSession
<1>3. CASE LinkLost(c)
  <2>1. /\ cl[c].pc \notin {"idle", "over"} /\ link[c] = "shut" /\ Fails(c, cl[c].state)
        /\ UNCHANGED <<setup, srv, backlog, link>>
    BY <1>3 DEF LinkLost
  <2>2. cl[c].state \in State
    BY <2>1, InSession DEF ClientRecord
  <2> QED
    BY <2>1, <2>2, FailSession
<1>4. ~GivesUp(c)
  BY DEF GivesUp, AllInv, ProtocolInv, ServerInv
<1> QED
  BY <1>1, <1>2, <1>3, <1>4

LEMMA EndsSession ==
    ASSUME AllInv, NEW c \in Client,
           Finish(c) \/ Terminate(c) \/ TimesOut(c) \/ Vanish(c)
    PROVE  ProtocolInv'
<1>1. CASE Finish(c)
  <2> DEFINE q == Over(cl[c], "done")
             r == [q EXCEPT !.state = "IPERF_DONE", !.closed = TRUE]
  <2>1. /\ cl[c].pc = "select" /\ s2c[c] # <<>> /\ Head(s2c[c]) = "DISPLAY_RESULTS"
        /\ cl' = [cl EXCEPT ![c] = r] /\ s2c' = [s2c EXCEPT ![c] = <<>>]
        /\ ToServer(c, <<"IPERF_DONE">>) /\ UNCHANGED <<setup, srv, backlog, link>>
    BY <1>1 DEF Finish
  <2>2. cl[c] \in ClientRecord
    BY <2>1, InSession
  <2>3. /\ q \in ClientRecord /\ q.pc = "over" /\ q.accepted = cl[c].accepted
        /\ q.crossed = cl[c].crossed
        /\ q.trouble = cl[c].trouble /\ q.stopped = cl[c].stopped
        /\ q.next = cl[c].next /\ q.outcome = "done"
    BY <2>2, OverBack DEF Over, ClientRecord
  <2> HIDE DEF q
  <2>4. /\ r \in ClientRecord /\ r.pc = "over" /\ r.accepted = cl[c].accepted
        /\ r.crossed = cl[c].crossed
        /\ r.trouble = cl[c].trouble /\ r.stopped = cl[c].stopped
        /\ r.next = cl[c].next /\ r.outcome = "done"
    BY <2>3 DEF ClientRecord, State, Told
  <2> HIDE DEF r
  <2>5. ~Waits(backlog, c)
    <3>1. ASSUME Waits(backlog, c) PROVE FALSE
      <4>1. link[c] = "open" /\ PhaseOf(c) = 0
        BY <2>1, <3>1, InSession
      <4>2. Talk(PhaseOf(c), "select", cl[c].state, cl[c].stopped, s2c[c], c2s[c])
        BY <2>1, <4>1, InSession
      <4> QED
        BY <2>1, <4>1, <4>2, TalkNext
    <3> QED
      BY <3>1
  <2> QED
    BY <2>1, <2>4, <2>5, LeaveSession
<1>2. CASE Terminate(c)
  <2> DEFINE q == Over(cl[c], "failed")
             r == [q EXCEPT !.trouble = TRUE, !.closed = TRUE,
                            !.state = "CLIENT_TERMINATE"]
  <2>1. /\ cl[c].pc \notin {"idle", "over"}
        /\ cl' = [cl EXCEPT ![c] = r] /\ s2c' = [s2c EXCEPT ![c] = <<>>]
        /\ ToServer(c, <<"CLIENT_TERMINATE">>) /\ UNCHANGED <<setup, srv, backlog, link>>
    BY <1>2 DEF Terminate
  <2>2. cl[c] \in ClientRecord
    BY <2>1, InSession
  <2>3. /\ q \in ClientRecord /\ q.pc = "over" /\ q.accepted = cl[c].accepted
        /\ q.crossed = cl[c].crossed
        /\ q.stopped = cl[c].stopped /\ q.next = cl[c].next
    BY <2>2, OverBack DEF Over, ClientRecord
  <2> HIDE DEF q
  <2>4. /\ r \in ClientRecord /\ r.pc = "over" /\ r.accepted = cl[c].accepted
        /\ r.crossed = cl[c].crossed
        /\ r.trouble /\ r.stopped = cl[c].stopped /\ r.next = cl[c].next
    BY <2>3 DEF ClientRecord, State, Told
  <2> HIDE DEF r
  <2> QED
    BY <2>1, <2>4, LeaveSession
<1>3. CASE Vanish(c)
  <2> DEFINE q == Over(cl[c], "failed")
             r == [q EXCEPT !.trouble = TRUE]
  <2>1. /\ cl[c].pc \notin {"idle", "over"} /\ cl' = [cl EXCEPT ![c] = r]
        /\ UNCHANGED <<setup, srv, backlog, c2s, s2c, link>>
    BY <1>3 DEF Vanish
  <2>2. cl[c] \in ClientRecord /\ s2c \in [Client -> Seq(Byte)]
    BY <2>1, InSession
  <2>3. /\ q \in ClientRecord /\ q.pc = "over" /\ q.accepted = cl[c].accepted
        /\ q.crossed = cl[c].crossed
        /\ q.stopped = cl[c].stopped /\ q.next = cl[c].next
    BY <2>2, OverBack DEF Over, ClientRecord
  <2> HIDE DEF q
  <2>4. /\ r \in ClientRecord /\ r.pc = "over" /\ r.accepted = cl[c].accepted
        /\ r.crossed = cl[c].crossed
        /\ r.trouble /\ r.stopped = cl[c].stopped /\ r.next = cl[c].next
    BY <2>3 DEF ClientRecord
  <2>5. s2c' = [s2c EXCEPT ![c] = s2c[c]]
    BY <2>1, <2>2
  <2> HIDE DEF r
  <2> QED
    BY <2>1, <2>4, <2>5, LeaveSession
<1>4. CASE TimesOut(c)
  <2> DEFINE q == Over(cl[c], "failed")
             r == [q EXCEPT !.trouble = TRUE, !.closed = TRUE]
  <2>1. /\ cl[c].pc \notin {"idle", "over"}
        /\ cl' = [cl EXCEPT ![c] = r] /\ s2c' = [s2c EXCEPT ![c] = <<>>]
        /\ ToServer(c, <<"IPERF_DONE">>) /\ UNCHANGED <<setup, srv, backlog, link>>
    BY <1>4 DEF TimesOut, Overdue
  <2>2. cl[c] \in ClientRecord
    BY <2>1, InSession
  <2>3. /\ q \in ClientRecord /\ q.pc = "over" /\ q.accepted = cl[c].accepted
        /\ q.crossed = cl[c].crossed
        /\ q.stopped = cl[c].stopped /\ q.next = cl[c].next
    BY <2>2, OverBack DEF Over, ClientRecord
  <2> HIDE DEF q
  <2>4. /\ r \in ClientRecord /\ r.pc = "over" /\ r.accepted = cl[c].accepted
        /\ r.crossed = cl[c].crossed
        /\ r.trouble /\ r.stopped = cl[c].stopped /\ r.next = cl[c].next
    BY <2>3 DEF ClientRecord, State, Told
  <2> HIDE DEF r
  <2> QED
    BY <2>1, <2>4, LeaveSession
<1> QED
  BY <1>1, <1>2, <1>3, <1>4

(* A client goes on to another place, and nothing is read. *)
LEMMA StaySession ==
    ASSUME AllInv, NEW c \in Client, cl[c].pc \notin {"idle", "over"},
           NEW to \in ClientPc \ {"idle", "over"}, NEW state \in State,
           NEW next \in Nat,
           cl' = [cl EXCEPT ![c] =
                    [cl[c] EXCEPT !.pc = to, !.state = state, !.next = next]],
           NEW t \in Seq(FromClient), c2s' = [c2s EXCEPT ![c] = t],
           NEW s, s2c' = [s2c EXCEPT ![c] = s], UNCHANGED <<setup, srv, link>>,
           \/ UNCHANGED backlog
           \/ \E k \in Nat \ {0} : backlog' = Append(backlog, <<c, k>>),
           link[c] # "open" => t = <<>>,
           link[c] = "open" /\ PhaseOf(c) # 6 =>
             /\ Talk(PhaseOf(c), to, state, cl[c].stopped, s, t)
             /\ Queued(backlog', c, PhaseOf(c), Len(srv.streams), Connections(c),
                       to, next, s)
    PROVE  ProtocolInv'
<1> DEFINE r == [cl[c] EXCEPT !.pc = to, !.state = state, !.next = next]
<1>1. /\ cl[c] \in ClientRecord /\ cl[c].outcome = "none" /\ ~cl[c].closed
      /\ cl[c].stopped => cl[c].trouble
  BY InSession
<1>2. /\ r \in ClientRecord /\ r.pc = to /\ r.state = state /\ r.next = next
      /\ r.accepted = cl[c].accepted
      /\ r.crossed = cl[c].crossed /\ r.trouble = cl[c].trouble
      /\ r.stopped = cl[c].stopped /\ r.outcome = "none" /\ ~r.closed
  BY <1>1 DEF ClientRecord
<1>3. cl' = [cl EXCEPT ![c] = r]
  OBVIOUS
<1> HIDE DEF r
<1>4. r.pc # "idle" /\ r.pc # "over" /\ (r.stopped => r.trouble)
  BY <1>1, <1>2
<1> QED
  BY <1>2, <1>3, <1>4, OneSession

LEMMA WriteSession ==
    ASSUME AllInv, NEW c \in Client, SendLength(c) \/ SendBody(c) \/ SendEnd(c)
    PROVE  ProtocolInv'
<1>1. /\ UNCHANGED <<setup, srv, backlog, s2c, link>>
      /\ cl[c].pc \notin {"idle", "over"}
  BY DEF SendLength, SendBody, SendEnd
<1>2. /\ s2c \in [Client -> Seq(Byte)] /\ c2s[c] \in Seq(FromClient)
      /\ cl[c] \in ClientRecord /\ cl[c].next \in Nat /\ cl[c].state \in State
      /\ link[c] = "open" /\ PhaseOf(c) # 6 =>
           /\ Talk(PhaseOf(c), cl[c].pc, cl[c].state, cl[c].stopped, s2c[c], c2s[c])
           /\ Queued(backlog, c, PhaseOf(c), Len(srv.streams), Connections(c),
                     cl[c].pc, cl[c].next, s2c[c])
  BY <1>1, InSession DEF ClientRecord
<1>3. s2c' = [s2c EXCEPT ![c] = s2c[c]]
  BY <1>1, <1>2
<1>4. {"len", "json", "TEST_END"} \subseteq FromClient
  BY DEF FromClient, Told
<1>5. CASE SendLength(c)
  <2> DEFINE to == IF cl[c].pc = "params" THEN "paramsBody" ELSE "resultsBody"
  <2>1. /\ cl[c].pc \in {"params", "results"} /\ ToServer(c, <<"len">>)
        /\ cl' = [cl EXCEPT ![c] = [cl[c] EXCEPT !.pc = to]]
    BY <1>5 DEF SendLength
  <2>2. to \in ClientPc \ {"idle", "over"} /\ to \notin {"streams", "select"}
    BY DEF ClientPc
  <2>3. cl' = [cl EXCEPT ![c] = [cl[c] EXCEPT !.pc = to, !.state = cl[c].state,
                                              !.next = cl[c].next]]
    <3> HIDE DEF to
    <3>1. [cl[c] EXCEPT !.pc = to] = [cl[c] EXCEPT !.pc = to, !.state = cl[c].state,
                                                    !.next = cl[c].next]
      BY <1>2 DEF ClientRecord
    <3> QED
      BY <2>1, <3>1
  <2>4. PICK t \in Seq(FromClient) :
          /\ c2s' = [c2s EXCEPT ![c] = t]
          /\ link[c] # "open" => t = <<>>
          /\ link[c] = "open" => t = c2s[c] \o <<"len">>
    BY <1>1, <1>4, <2>1, Said
  <2>5. ASSUME link[c] = "open", PhaseOf(c) # 6
        PROVE  /\ Talk(PhaseOf(c), to, cl[c].state, cl[c].stopped, s2c[c], t)
               /\ Queued(backlog, c, PhaseOf(c), Len(srv.streams), Connections(c),
                         to, cl[c].next, s2c[c])
    <3>1. Talk(PhaseOf(c), to, cl[c].state, cl[c].stopped, s2c[c], t)
      BY <1>2, <2>1, <2>4, <2>5, TalkLength
    <3> HIDE DEF to
    <3> QED
      BY <1>2, <2>2, <2>5, <3>1, QueuedKeep
  <2> HIDE DEF to
  <2> QED
    BY <1>1, <1>2, <1>3, <2>2, <2>3, <2>4, <2>5, StaySession
<1>6. CASE SendBody(c) /\ cl[c].pc = "resultsBody"
  <2>1. /\ ToServer(c, <<"json">>)
        /\ cl' = [cl EXCEPT ![c] = [cl[c] EXCEPT !.pc = "getResults"]]
    BY <1>6 DEF SendBody
  <2>2. "getResults" \in ClientPc \ {"idle", "over"}
    BY DEF ClientPc
  <2>3. cl' = [cl EXCEPT ![c] = [cl[c] EXCEPT !.pc = "getResults",
                                     !.state = cl[c].state, !.next = cl[c].next]]
    <3>1. [cl[c] EXCEPT !.pc = "getResults"]
            = [cl[c] EXCEPT !.pc = "getResults", !.state = cl[c].state,
                            !.next = cl[c].next]
      BY <1>2 DEF ClientRecord
    <3> QED
      BY <2>1, <3>1
  <2>4. PICK t \in Seq(FromClient) :
          /\ c2s' = [c2s EXCEPT ![c] = t]
          /\ link[c] # "open" => t = <<>>
          /\ link[c] = "open" => t = c2s[c] \o <<"json">>
    BY <1>1, <1>4, <2>1, Said
  <2>5. ASSUME link[c] = "open", PhaseOf(c) # 6
        PROVE  /\ Talk(PhaseOf(c), "getResults", cl[c].state, cl[c].stopped, s2c[c], t)
               /\ Queued(backlog, c, PhaseOf(c), Len(srv.streams), Connections(c),
                         "getResults", cl[c].next, s2c[c])
    <3>1. Talk(PhaseOf(c), "getResults", cl[c].state, cl[c].stopped, s2c[c], t)
      BY <1>2, <1>6, <2>4, <2>5, TalkBody
    <3> QED
      BY <1>2, <2>5, <3>1, QueuedKeep
  <2> QED
    BY <1>1, <1>2, <1>3, <2>2, <2>3, <2>4, <2>5, StaySession
<1>7. CASE SendBody(c) /\ cl[c].pc = "paramsBody"
  <2>1. /\ ToServer(c, <<"json">>)
        /\ cl' = [cl EXCEPT ![c] = Back(cl[c])]
    BY <1>7 DEF SendBody
  <2>2. PICK t \in Seq(FromClient) :
          /\ c2s' = [c2s EXCEPT ![c] = t]
          /\ link[c] # "open" => t = <<>>
          /\ link[c] = "open" => t = c2s[c] \o <<"json">>
    BY <1>1, <1>4, <2>1, Said
  <2>3. ASSUME link[c] = "open", PhaseOf(c) # 6
        PROVE  /\ Talk(PhaseOf(c), "select", cl[c].state, cl[c].stopped, s2c[c], t)
               /\ Queued(backlog, c, PhaseOf(c), Len(srv.streams), Connections(c),
                         "select", cl[c].next, s2c[c])
    <3>1. Talk(PhaseOf(c), "select", cl[c].state, cl[c].stopped, s2c[c], t)
      BY <1>2, <1>7, <2>2, <2>3, TalkBody
    <3>2. PhaseOf(c) = 1
      BY <1>2, <1>7, <2>3 DEF Talk, Place
    <3> QED
      BY <1>2, <2>3, <3>1, <3>2, QueuedKeep
  <2> QED
    BY <1>1, <1>3, <2>1, <2>2, <2>3, BackSession
<1>8. CASE SendEnd(c)
  <2>1. /\ cl[c].pc = "ending" /\ ToServer(c, <<"TEST_END">>)
        /\ cl' = [cl EXCEPT ![c] = [cl[c] EXCEPT !.pc = "select", !.state = "TEST_END"]]
    BY <1>8 DEF SendEnd
  <2>2. "select" \in ClientPc \ {"idle", "over"} /\ "TEST_END" \in State
    BY DEF ClientPc, State, Told
  <2>3. cl' = [cl EXCEPT ![c] = [cl[c] EXCEPT !.pc = "select", !.state = "TEST_END",
                                              !.next = cl[c].next]]
    <3>1. [cl[c] EXCEPT !.pc = "select", !.state = "TEST_END"]
            = [cl[c] EXCEPT !.pc = "select", !.state = "TEST_END",
                            !.next = cl[c].next]
      BY <1>2 DEF ClientRecord
    <3> QED
      BY <2>1, <3>1
  <2>4. PICK t \in Seq(FromClient) :
          /\ c2s' = [c2s EXCEPT ![c] = t]
          /\ link[c] # "open" => t = <<>>
          /\ link[c] = "open" => t = c2s[c] \o <<"TEST_END">>
    BY <1>1, <1>4, <2>1, Said
  <2>5. ASSUME link[c] = "open", PhaseOf(c) # 6
        PROVE  /\ Talk(PhaseOf(c), "select", "TEST_END", cl[c].stopped, s2c[c], t)
               /\ Queued(backlog, c, PhaseOf(c), Len(srv.streams), Connections(c),
                         "select", cl[c].next, s2c[c])
    <3>1. Talk(PhaseOf(c), "select", "TEST_END", cl[c].stopped, s2c[c], t)
      BY <1>2, <2>1, <2>4, <2>5, TalkEnd
    <3>2. PhaseOf(c) = 3
      BY <1>2, <2>1, <2>5 DEF Talk, Place
    <3> QED
      BY <1>2, <2>5, <3>1, <3>2, QueuedKeep
  <2> QED
    BY <1>1, <1>2, <1>3, <2>2, <2>3, <2>4, <2>5, StaySession
<1>9. SendBody(c) => cl[c].pc \in {"paramsBody", "resultsBody"}
  BY DEF SendBody
<1> QED
  BY <1>5, <1>6, <1>7, <1>8, <1>9

LEMMA ConnectSession ==
    ASSUME AllInv, NEW c \in Client, ConnectStream(c)
    PROVE  ProtocolInv'
<1> DEFINE n == Len(srv.streams)
           top == Connections(c)
           next == cl[c].next
           b == Append(backlog, <<c, next>>)
<1>1. /\ cl[c].pc = "streams" /\ backlog' = b
      /\ cl' = [cl EXCEPT ![c] = IF cl[c].next = Connections(c) THEN Back(cl[c])
                                 ELSE [cl[c] EXCEPT !.next = cl[c].next + 1]]
      /\ UNCHANGED <<setup, srv, c2s, s2c, link>>
  BY DEF ConnectStream
<1>2. /\ s2c \in [Client -> Seq(Byte)] /\ c2s \in [Client -> Seq(FromClient)]
      /\ c2s[c] \in Seq(FromClient) /\ cl[c] \in ClientRecord
      /\ next \in Nat \ {0} /\ next <= top /\ top \in Nat \ {0}
      /\ link[c] # "open" => c2s[c] = <<>>
      /\ link[c] = "open" /\ PhaseOf(c) # 6 =>
           /\ Talk(PhaseOf(c), "streams", cl[c].state, cl[c].stopped, s2c[c], c2s[c])
           /\ Queued(backlog, c, PhaseOf(c), n, top, "streams", next, s2c[c])
  BY <1>1, InSession
<1>3. s2c' = [s2c EXCEPT ![c] = s2c[c]] /\ c2s' = [c2s EXCEPT ![c] = c2s[c]]
  BY <1>1, <1>2
<1>4. \E k \in Nat \ {0} : backlog' = Append(backlog, <<c, k>>)
  BY <1>1, <1>2
<1>5. backlog \in Seq(Connection) /\ n \in Nat
  <2>1. srv.streams \in Seq(Stream)
    BY DEF AllInv, TypeInv, ServerRecord
  <2> QED
    BY <2>1 DEF AllInv, TypeInv
<1>6. ASSUME link[c] = "open", PhaseOf(c) # 6
      PROVE  /\ Talk(PhaseOf(c), "select", cl[c].state, cl[c].stopped, s2c[c], c2s[c])
             /\ Talk(PhaseOf(c), "streams", cl[c].state, cl[c].stopped, s2c[c], c2s[c])
             /\ PhaseOf(c) = 2 /\ s2c[c] = <<>>
             /\ InOrder(b, c, n + 1) /\ UpTo(b, c, top)
             /\ Before(b, c, n + 1, next + 1)
  <2>1. /\ PhaseOf(c) = 2 /\ s2c[c] = <<>>
        /\ Talk(PhaseOf(c), "select", cl[c].state, cl[c].stopped, s2c[c], c2s[c])
    BY <1>2, <1>6, TalkStreams
  <2>2. /\ InOrder(backlog, c, n + 1) /\ UpTo(backlog, c, top)
        /\ Before(backlog, c, n + 1, next)
    BY <1>2, <1>6, <2>1 DEF Queued
  <2>3. n + 1 \in Nat /\ next \in Nat /\ top \in Nat
    BY <1>2, <1>5
  <2> HIDE DEF n, top, next
  <2>4. /\ InOrder(b, c, n + 1) /\ UpTo(b, c, top) /\ Before(b, c, n + 1, next + 1)
    BY <1>2, <1>5, <2>2, <2>3, AppendOwn
  <2> QED
    BY <1>2, <1>6, <2>1, <2>4 DEF n, top, next
<1> HIDE DEF b, n
<1>7. CASE next = top
  <2>1. cl' = [cl EXCEPT ![c] = Back(cl[c])]
    BY <1>1, <1>7
  <2>2. ASSUME link[c] = "open", PhaseOf(c) # 6
        PROVE  Queued(b, c, PhaseOf(c), n, top, "select", next, s2c[c])
    BY <1>6, <2>2 DEF Queued
  <2>3. cl[c].pc \notin {"idle", "over"} /\ UNCHANGED <<setup, srv, link>>
    BY <1>1
  <2>4. link[c] = "open" /\ PhaseOf(c) # 6 =>
          /\ Talk(PhaseOf(c), "select", cl[c].state, cl[c].stopped, s2c[c], c2s[c])
          /\ Queued(backlog', c, PhaseOf(c), Len(srv.streams), Connections(c),
                    "select", cl[c].next, s2c[c])
    BY <1>1, <1>6, <2>2 DEF n
  <2>5. c2s[c] \in Seq(FromClient) /\ (link[c] # "open" => c2s[c] = <<>>)
    BY <1>2
  <2> QED
    BY <1>3, <1>4, <2>1, <2>3, <2>4, <2>5, BackSession
<1>8. CASE next # top
  <2> DEFINE r == [cl[c] EXCEPT !.pc = "streams", !.state = cl[c].state,
                                !.next = next + 1]
  <2>1. cl' = [cl EXCEPT ![c] = r]
    <3>1. [cl[c] EXCEPT !.next = cl[c].next + 1] = r
      BY <1>1, <1>2 DEF ClientRecord
    <3> HIDE DEF r
    <3> QED
      BY <1>1, <1>8, <3>1
  <2>2. ASSUME link[c] = "open", PhaseOf(c) # 6
        PROVE  Queued(b, c, PhaseOf(c), n, top, "streams", next + 1, s2c[c])
    BY <1>6, <2>2 DEF Queued
  <2>3. /\ "streams" \in ClientPc \ {"idle", "over"} /\ cl[c].state \in State
        /\ next + 1 \in Nat /\ cl[c].pc \notin {"idle", "over"}
    BY <1>1, <1>2 DEF ClientPc, ClientRecord
  <2>4. link[c] = "open" /\ PhaseOf(c) # 6 =>
          /\ Talk(PhaseOf(c), "streams", cl[c].state, cl[c].stopped, s2c[c], c2s[c])
          /\ Queued(backlog', c, PhaseOf(c), Len(srv.streams), Connections(c),
                    "streams", next + 1, s2c[c])
    BY <1>1, <1>6, <2>2 DEF n
  <2>5. /\ c2s[c] \in Seq(FromClient) /\ (link[c] # "open" => c2s[c] = <<>>)
        /\ UNCHANGED <<setup, srv, link>>
    BY <1>1, <1>2
  <2> QED
    BY <1>3, <1>4, <2>1, <2>3, <2>4, <2>5, StaySession
<1> QED
  BY <1>7, <1>8

LEMMA WaitSession ==
    ASSUME AllInv, NEW c \in Client, Expire(c) \/ GetResults(c) \/ WakeUp(c)
    PROVE  ProtocolInv'
<1>1. UNCHANGED <<setup, srv, backlog, c2s, link>> /\ cl[c].pc \notin {"idle", "over"}
  BY DEF Expire, GetResults, WakeUp
<1>2. /\ s2c \in [Client -> Seq(Byte)] /\ c2s \in [Client -> Seq(FromClient)]
      /\ c2s[c] \in Seq(FromClient) /\ s2c[c] \in Seq(Byte)
      /\ cl[c] \in ClientRecord /\ cl[c].next \in Nat /\ cl[c].state \in State
      /\ link[c] # "open" => c2s[c] = <<>>
      /\ link[c] = "open" /\ PhaseOf(c) # 6 =>
           /\ Talk(PhaseOf(c), cl[c].pc, cl[c].state, cl[c].stopped, s2c[c], c2s[c])
           /\ Queued(backlog, c, PhaseOf(c), Len(srv.streams), Connections(c),
                     cl[c].pc, cl[c].next, s2c[c])
  BY <1>1, InSession DEF ClientRecord
<1>3. c2s' = [c2s EXCEPT ![c] = c2s[c]]
  BY <1>1, <1>2
<1>4. CASE Expire(c)
  <2>1. /\ cl[c].pc = "select" /\ cl[c].state = "TEST_RUNNING" /\ UNCHANGED s2c
        /\ cl' = [cl EXCEPT ![c] = [cl[c] EXCEPT !.pc = "ending"]]
    BY <1>4 DEF Expire
  <2>2. cl' = [cl EXCEPT ![c] = [cl[c] EXCEPT !.pc = "ending", !.state = cl[c].state,
                                              !.next = cl[c].next]]
    <3>1. [cl[c] EXCEPT !.pc = "ending"]
            = [cl[c] EXCEPT !.pc = "ending", !.state = cl[c].state,
                            !.next = cl[c].next]
      BY <1>2 DEF ClientRecord
    <3> QED
      BY <2>1, <3>1
  <2>3. s2c' = [s2c EXCEPT ![c] = s2c[c]] /\ "ending" \in ClientPc \ {"idle", "over"}
    BY <1>2, <2>1 DEF ClientPc
  <2>4. ASSUME link[c] = "open", PhaseOf(c) # 6
        PROVE  /\ Talk(PhaseOf(c), "ending", cl[c].state, cl[c].stopped, s2c[c], c2s[c])
               /\ Queued(backlog, c, PhaseOf(c), Len(srv.streams), Connections(c),
                         "ending", cl[c].next, s2c[c])
    <3>1. Talk(PhaseOf(c), "select", "TEST_RUNNING", cl[c].stopped, s2c[c], c2s[c])
      BY <1>2, <2>1, <2>4
    <3>2. Talk(PhaseOf(c), "ending", "TEST_RUNNING", cl[c].stopped, s2c[c], c2s[c])
      BY <3>1, TalkExpire
    <3> QED
      BY <1>2, <2>1, <2>4, <3>2, QueuedKeep
  <2> QED
    BY <1>1, <1>2, <1>3, <2>2, <2>3, <2>4, StaySession
<1>5. CASE GetResults(c)
  <2> DEFINE s == SubSeq(s2c[c], 3, Len(s2c[c]))
  <2>1. /\ cl[c].pc = "getResults" /\ Framed(s2c[c])
        /\ s2c' = [s2c EXCEPT ![c] = s] /\ cl' = [cl EXCEPT ![c] = Back(cl[c])]
    BY <1>5 DEF GetResults
  <2>2. ASSUME link[c] = "open", PhaseOf(c) # 6
        PROVE  /\ Talk(PhaseOf(c), "select", cl[c].state, cl[c].stopped, s, c2s[c])
               /\ Queued(backlog, c, PhaseOf(c), Len(srv.streams), Connections(c),
                         "select", cl[c].next, s)
    <3>1. Talk(PhaseOf(c), "select", cl[c].state, cl[c].stopped, s, c2s[c])
      BY <1>2, <2>1, <2>2, TalkResults
    <3>2. PhaseOf(c) # 2
      BY <1>2, <2>1, <2>2 DEF Talk, Place
    <3> HIDE DEF s
    <3> QED
      BY <1>2, <2>2, <3>1, <3>2, QueuedKeep
  <2> HIDE DEF s
  <2> QED
    BY <1>1, <1>2, <1>3, <2>1, <2>2, BackSession
<1>6. CASE WakeUp(c)
  <2>1. /\ cl[c].pc = "select" /\ UNCHANGED s2c /\ cl' = [cl EXCEPT ![c] = Back(cl[c])]
    BY <1>6 DEF WakeUp
  <2>2. s2c' = [s2c EXCEPT ![c] = s2c[c]]
    BY <1>2, <2>1
  <2>3. link[c] = "open" /\ PhaseOf(c) # 6 =>
          /\ Talk(PhaseOf(c), "select", cl[c].state, cl[c].stopped, s2c[c], c2s[c])
          /\ Queued(backlog', c, PhaseOf(c), Len(srv.streams), Connections(c),
                    "select", cl[c].next, s2c[c])
    BY <1>1, <1>2, <2>1
  <2>4. c2s[c] \in Seq(FromClient) /\ (link[c] # "open" => c2s[c] = <<>>)
    BY <1>2
  <2> QED
    BY <1>1, <1>3, <2>1, <2>2, <2>3, <2>4, BackSession
<1> QED
  BY <1>4, <1>5, <1>6

LEMMA StopSession ==
    ASSUME AllInv, NEW c \in Client, Stop(c)
    PROVE  ProtocolInv'
<1> DEFINE r == [cl[c] EXCEPT !.stopped = TRUE, !.trouble = TRUE,
                              !.state = "IPERF_DONE"]
<1>1. /\ cl[c].pc \notin {"idle", "over"} /\ cl' = [cl EXCEPT ![c] = r]
      /\ ToServer(c, <<"IPERF_DONE">>) /\ UNCHANGED <<setup, srv, backlog, s2c, link>>
  BY DEF Stop
<1>2. /\ cl[c] \in ClientRecord /\ cl[c].outcome = "none" /\ ~cl[c].closed
      /\ s2c \in [Client -> Seq(Byte)] /\ c2s[c] \in Seq(FromClient)
      /\ link[c] = "open" /\ PhaseOf(c) # 6 =>
           /\ Talk(PhaseOf(c), cl[c].pc, cl[c].state, cl[c].stopped, s2c[c], c2s[c])
           /\ Queued(backlog, c, PhaseOf(c), Len(srv.streams), Connections(c),
                     cl[c].pc, cl[c].next, s2c[c])
  BY <1>1, InSession
<1>3. /\ r \in ClientRecord /\ r.pc = cl[c].pc /\ r.accepted = cl[c].accepted
      /\ r.crossed = cl[c].crossed
      /\ r.trouble /\ r.stopped /\ r.next = cl[c].next /\ r.state = "IPERF_DONE"
      /\ r.outcome = "none" /\ ~r.closed
  BY <1>2 DEF ClientRecord, State, Told
<1> HIDE DEF r
<1>4. PICK t \in Seq(FromClient) :
        /\ c2s' = [c2s EXCEPT ![c] = t]
        /\ link[c] # "open" => t = <<>>
        /\ link[c] = "open" => t = c2s[c] \o <<"IPERF_DONE">>
  <2>1. "IPERF_DONE" \in FromClient
    BY DEF FromClient, Told
  <2> QED
    BY <1>1, <2>1, Said
<1>5. s2c' = [s2c EXCEPT ![c] = s2c[c]]
  BY <1>1, <1>2
<1>6. ASSUME link[c] = "open", PhaseOf(c) # 6
      PROVE  /\ Talk(PhaseOf(c), r.pc, r.state, r.stopped, s2c[c], t)
             /\ Queued(backlog', c, PhaseOf(c), Len(srv.streams), Connections(c),
                       r.pc, r.next, s2c[c])
  <2>1. Talk(PhaseOf(c), cl[c].pc, "IPERF_DONE", TRUE, s2c[c], t)
    BY <1>2, <1>4, <1>6, TalkStop
  <2> QED
    BY <1>1, <1>2, <1>3, <1>6, <2>1
<1>7. r.pc # "idle" /\ r.pc # "over"
  BY <1>1, <1>3
<1> QED
  BY <1>1, <1>3, <1>4, <1>5, <1>6, <1>7, OneSession

LEMMA DialSession ==
    ASSUME AllInv, NEW c \in Client, Dial(c)
    PROVE  ProtocolInv'
<1>1. /\ cl[c].pc = "idle" /\ UNCHANGED <<setup, srv, c2s, s2c>>
      /\ cl \in [Client -> ClientRecord] /\ cl[c] \in ClientRecord
      /\ backlog \in Seq(Connection) /\ link \in [Client -> {"none", "open", "shut"}]
      /\ c2s \in [Client -> Seq(FromClient)]
  BY DEF Dial, AllInv, TypeInv, ClientTypes, ProtocolInv
<1>2. IdleInv(c) /\ LinkInv(c) /\ FairInv(c)
  BY DEF AllInv, ProtocolInv
<1>3. /\ link[c] = "none" /\ s2c[c] = <<>> /\ c2s[c] = <<>> /\ NoneOf(backlog, c)
      /\ cl[c].next = 1 /\ cl[c].state = "NEW" /\ ~cl[c].accepted /\ ~cl[c].closed
      /\ ~cl[c].stopped /\ ~Served(c) /\ ~Waits(backlog, c)
      /\ cl[c].outcome = "none"
  BY <1>1, <1>2 DEF IdleInv, LinkInv, FairInv
<1>4. /\ ~Served(c)' /\ PhaseOf(c)' = 0 /\ ServerInv' /\ StreamsInv'
  BY <1>1, <1>3, ServerKeeps DEF AllInv, ProtocolInv, PhaseOf
<1>5. /\ cl'[c].pc # "idle"
      /\ \A d \in Client : d # c => cl'[d] = cl[d] /\ link'[d] = link[d]
      /\ UNCHANGED backlog \/ \E k \in Nat : backlog' = Append(backlog, <<c, k>>)
  <2>1. CASE srv.listening
    BY <1>1, <2>1 DEF Dial, ClientRecord
  <2>2. CASE ~srv.listening
    <3>1. cl' = [cl EXCEPT ![c] = Over(cl[c], "failed")] /\ UNCHANGED <<backlog, link>>
      BY <2>2 DEF Dial
    <3>2. Over(cl[c], "failed").pc = "over"
      BY <1>1 DEF Over, ClientRecord
    <3> QED
      BY <1>1, <3>1, <3>2
  <2> QED
    BY <2>1, <2>2
<1>6. IdleInv(c)'
  BY <1>5 DEF IdleInv
<1>7. LinkInv(c)' /\ FairInv(c)' /\ (link'[c] = "open" => OpenInv(c)')
  <2>1. CASE srv.listening
    <3>1. /\ cl' = [cl EXCEPT ![c] = [cl[c] EXCEPT !.pc = "cookie"]]
          /\ backlog' = Append(backlog, <<c, 0>>) /\ link' = [link EXCEPT ![c] = "open"]
      BY <2>1 DEF Dial
    <3>2. /\ cl'[c].pc = "cookie" /\ cl'[c].next = 1 /\ cl'[c].state = "NEW"
          /\ ~cl'[c].accepted /\ ~cl'[c].closed /\ cl'[c].stopped = FALSE
          /\ cl'[c].outcome = "none" /\ link'[c] = "open"
          /\ c2s'[c] = <<>> /\ s2c'[c] = <<>>
      BY <1>1, <1>3, <3>1 DEF ClientRecord
    <3>3. Single(backlog', c) /\ Waits(backlog', c)
      BY <1>1, <1>3, <3>1, AppendControl
    <3>4. Talk(0, "cookie", "NEW", FALSE, <<>>, <<>>)
      <4>1. \A x : ~Has(<<>>, x) /\ Once(<<>>, x)
        BY DEF Has, Once
      <4> QED
        BY <4>1 DEF Talk, Place, Running, Exact, Asked
    <3>5. Queued(backlog', c, 0, Len(srv'.streams), Connections(c)', "cookie", 1, <<>>)
      BY <3>3 DEF Queued
    <3>6. OpenInv(c)'
      BY <1>4, <3>2, <3>4, <3>5 DEF OpenInv
    <3>7. LinkInv(c)' /\ FairInv(c)'
      BY <1>4, <3>2, <3>3 DEF LinkInv, FairInv
    <3> QED
      BY <3>6, <3>7
  <2>2. CASE ~srv.listening
    <3>1. cl' = [cl EXCEPT ![c] = Over(cl[c], "failed")] /\ UNCHANGED <<backlog, link>>
      BY <2>2 DEF Dial
    <3>2. /\ cl'[c].pc = "over" /\ ~cl'[c].accepted /\ ~cl'[c].stopped
          /\ link'[c] = "none" /\ c2s'[c] = <<>> /\ ~Waits(backlog', c)
      <4>1. /\ Over(cl[c], "failed").pc = "over" /\ ~Over(cl[c], "failed").accepted
            /\ ~Over(cl[c], "failed").stopped
        BY <1>1, <1>3 DEF Over, ClientRecord
      <4> QED
        BY <1>1, <1>3, <3>1, <4>1
    <3> QED
      BY <1>4, <3>2 DEF LinkInv, FairInv
  <2> QED
    BY <2>1, <2>2
<1>8. ASSUME NEW d \in Client, d # c
      PROVE  /\ IdleInv(d)' /\ LinkInv(d)' /\ FairInv(d)'
             /\ link'[d] = "open" /\ PhaseOf(d)' # 6 => OpenInv(d)'
  BY <1>1, <1>5, <1>8, OthersKeep
<1> QED
  BY <1>1, <1>4, <1>6, <1>7, <1>8 DEF ProtocolInv, Sessions

LEMMA ClientProtocol ==
    ASSUME AllInv, NEW c \in Client, ClientMove(c)
    PROVE  ProtocolInv'
  BY CookieSession, ReceiveSession, FailuresSession, EndsSession, WriteSession,
     ConnectSession, WaitSession, StopSession, DialSession DEF ClientMove, ClientStep

-----------------------------------------------------------------------------
(* A step of the server *)

LEMMA ServerTyped ==
    ASSUME AllInv
    PROVE  /\ srv \in ServerRecord /\ backlog \in Seq(Connection) /\ setup \in Setups
           /\ cl \in [Client -> ClientRecord] /\ s2c \in [Client -> Seq(Byte)]
           /\ c2s \in [Client -> Seq(FromClient)]
           /\ link \in [Client -> {"none", "open", "shut"}]
           /\ srv.streams \in Seq(Stream) /\ Len(srv.streams) \in Nat
           /\ ServerInv /\ StreamsInv
           /\ Proper => Peer \in Client
  BY DEF AllInv, TypeInv, ClientTypes, DoneInv, ProtocolInv, ServerRecord, Proper,
         Serving, Peer, Connection

(* The server gives its client up, and may set its own state. *)
LEMMA GivingUp ==
    ASSUME AllInv, srv.pc \in Open, NEW state, srv' = [GiveUp EXCEPT !.state = state]
    PROVE  /\ srv'.pc = "cleanup" /\ srv'.ctrl = srv.ctrl /\ srv'.listening
           /\ srv'.streams = srv.streams /\ srv'.workers = srv.workers /\ ServerInv'
<1>1. /\ srv'.pc = "cleanup" /\ srv'.ctrl = srv.ctrl /\ srv'.listening = srv.listening
      /\ srv'.streams = srv.streams /\ srv'.workers = srv.workers
  BY ServerTyped DEF GiveUp, ServerRecord
<1>2. srv'.listening
  BY <1>1, ServerTyped DEF ServerInv
<1> QED
  BY <1>1, <1>2 DEF ServerInv

LEMMA OnlyGivingUp ==
    ASSUME AllInv, srv.pc \in Open, srv' = GiveUp
    PROVE  /\ srv'.pc = "cleanup" /\ srv'.ctrl = srv.ctrl /\ srv'.listening
           /\ srv'.streams = srv.streams /\ srv'.workers = srv.workers /\ ServerInv'
<1>1. srv' = [GiveUp EXCEPT !.state = srv.state]
  BY ServerTyped DEF GiveUp, ServerRecord
<1> QED
  BY <1>1, GivingUp

LEMMA ServerMoveInv ==
    ASSUME AllInv, ServerMove, srv'.pc # "gone"
    PROVE  ServerInv'
<1>0. /\ srv \in ServerRecord /\ ServerInv /\ backlog \in Seq(Connection)
  BY ServerTyped
<1>1. CASE Listen
  <2>1. /\ srv'.pc = "select" /\ srv'.state = "NEW" /\ srv'.listening
        /\ srv'.ctrl = srv.ctrl /\ ~Serving
    BY <1>0, <1>1 DEF Listen, ServerRecord, ServerInv
  <2> QED
    BY <2>1 DEF ServerInv, Serving
<1>2. CASE ListenFails
  <2>1. srv'.pc = "exited" /\ srv'.ctrl = srv.ctrl /\ ~Serving
    BY <1>0, <1>2 DEF ListenFails, ServerRecord, ServerInv
  <2> QED
    BY <2>1 DEF ServerInv, Serving, Open
<1>3. CASE Accept
  <2> DEFINE conn == Head(backlog)
  <2>1. conn \in Connection /\ conn # NULL
    <3>1. conn \in Connection
      BY <1>0, <1>3 DEF Accept
    <3> QED
      BY <3>1 DEF Connection, NULL
  <2>2. srv.listening /\ srv.state = "NEW"
    BY <1>0, <1>3 DEF Accept, ServerInv, Open
  <2>3. \/ /\ conn[2] = 0
           /\ srv' = [srv EXCEPT !.pc = "cookie", !.ctrl = conn]
        \/ srv' = [srv EXCEPT !.pc = "params", !.ctrl = conn,
                              !.state = "PARAM_EXCHANGE"]
    BY <1>3 DEF Accept
  <2> HIDE DEF conn
  <2>4. \/ /\ srv'.pc = "cookie" /\ srv'.ctrl = conn /\ srv'.listening /\ conn[2] = 0
           /\ srv'.state = "NEW"
        \/ /\ srv'.pc = "params" /\ srv'.ctrl = conn /\ srv'.listening
           /\ srv'.state = "PARAM_EXCHANGE"
    BY <1>0, <2>2, <2>3 DEF ServerRecord
  <2> QED
    BY <2>1, <2>4 DEF ServerInv, Serving, Proper
<1>4. CASE UNCHANGED srv
  BY <1>0, <1>4 DEF ServerInv, Serving, Proper
<1>5. CASE AcceptStream
  <2> DEFINE streams == Append(srv.streams,
                          [owner |-> Peer, conn |-> Head(backlog)[2],
                           id |-> NewId(Len(srv.streams)),
                           sender |-> ServerSends(Peer, Len(srv.streams) + 1)])
  <2>1. /\ \/ srv' = [srv EXCEPT !.streams = streams]
           \/ srv' = [srv EXCEPT !.state = "TEST_RUNNING", !.streams = streams,
                                 !.workers = TRUE, !.done = FALSE]
        /\ srv.pc = "select" /\ Proper /\ srv.state = "CREATE_STREAMS"
    BY <1>5 DEF AcceptStream, Starts
  <2> HIDE DEF streams
  <2>2. /\ srv'.pc = "select" /\ srv'.ctrl = srv.ctrl /\ srv'.listening = srv.listening
        /\ srv'.state \in {"CREATE_STREAMS", "TEST_RUNNING"}
    BY <1>0, <2>1 DEF ServerRecord
  <2> QED
    BY <1>0, <2>1, <2>2 DEF ServerInv, Serving, Proper, Open
<1>6. CASE HandleEnd
  <2>1. /\ srv'.pc = "results" /\ srv'.state = "EXCHANGE_RESULTS"
        /\ srv'.ctrl = srv.ctrl /\ srv'.listening = srv.listening
        /\ Proper /\ srv.pc = "select"
    BY <1>0, <1>6 DEF HandleEnd, ServerRecord
  <2> QED
    BY <1>0, <2>1 DEF ServerInv, Serving, Proper, Open
<1>7. CASE ReadCookie
  <2>1. /\ srv'.pc = "params" /\ srv'.state = "PARAM_EXCHANGE"
        /\ srv'.ctrl = srv.ctrl /\ srv'.listening = srv.listening
        /\ srv.pc = "cookie"
    BY <1>0, <1>7 DEF ReadCookie, ServerRecord
  <2> QED
    BY <1>0, <2>1 DEF ServerInv, Serving, Proper, Open
<1>8. CASE ReadParams
  <2> DEFINE held == Taken(srv.held, setup[Peer].asks)
  <2>1. /\ srv' = [srv EXCEPT !.pc = "select", !.state = "CREATE_STREAMS", !.held = held]
        /\ srv.pc = "params" /\ Proper
    BY <1>8 DEF ReadParams
  <2> HIDE DEF held
  <2>2. /\ srv'.pc = "select" /\ srv'.state = "CREATE_STREAMS"
        /\ srv'.ctrl = srv.ctrl /\ srv'.listening = srv.listening
    BY <1>0, <2>1 DEF ServerRecord
  <2> QED
    BY <1>0, <2>1, <2>2 DEF ServerInv, Serving, Proper, Open
<1>9. CASE ReadResults
  <2>1. /\ srv'.pc = "select" /\ srv'.state = "DISPLAY_RESULTS"
        /\ srv'.ctrl = srv.ctrl /\ srv'.listening = srv.listening
        /\ srv.pc = "results"
    BY <1>0, <1>9 DEF ReadResults, ServerRecord
  <2> QED
    BY <1>0, <2>1 DEF ServerInv, Serving, Proper, Open
<1>10. CASE GraceEnds
  <2>1. /\ srv'.pc = "cleanup" /\ srv'.listening = srv.listening /\ srv.pc = "select"
    BY <1>0, <1>10 DEF GraceEnds, Quiet, GiveUp, ServerRecord
  <2> QED
    BY <1>0, <2>1 DEF ServerInv, Open
<1>11. CASE Cleanup
  <2>1. srv'.pc = "reset" /\ srv'.ctrl = NULL /\ ~srv'.workers
    BY <1>0, <1>11 DEF Cleanup, ServerRecord
  <2> QED
    BY <2>1 DEF ServerInv, Serving, Open
<1>12. CASE Reset
  <2>1. srv'.pc = "listen" /\ srv'.ctrl = srv.ctrl /\ ~Serving
    BY <1>0, <1>12 DEF Reset, ResetTest, ServerRecord, ServerInv
  <2> QED
    BY <2>1 DEF ServerInv, Serving, Open
<1>13. CASE Killed
  <2>1. srv'.pc = "exited" /\ srv'.ctrl = NULL
    BY <1>0, <1>13 DEF Killed, ServerRecord
  <2> QED
    BY <2>1 DEF ServerInv, Serving, Open
<1>14. CASE RelistenFails \/ HandleDone
  <2>1. /\ srv.pc \in Open
        /\ \E state : srv' = [GiveUp EXCEPT !.state = state]
    BY <1>14 DEF RelistenFails, HandleDone, Open
  <2> QED
    BY <2>1, GivingUp
<1>15. CASE srv' = GiveUp /\ srv.pc \in Open
  BY <1>15, OnlyGivingUp
<1>16. ~ServerVanishes
  BY <1>0 DEF ServerVanishes, ServerRecord
<1> QED
  BY <1>1, <1>2, <1>3, <1>4, <1>5, <1>6, <1>7, <1>8, <1>9, <1>10, <1>11, <1>12,
     <1>13, <1>14, <1>15, <1>16
  DEF ServerMove, ServerStep, Deny, AcceptStranger, Handle, Read, ReadTimesOut,
      ReadGarbled, TimeOut, ReceiveTimesOut, Quiet, AcceptFails, NewStreamFails,
      IdleRestart, Open

LEMMA StreamsKeep ==
    ASSUME AllInv, UNCHANGED setup, srv'.ctrl = srv.ctrl,
           srv'.streams = srv.streams, srv'.workers = srv.workers,
           srv'.pc \in {"results", "cleanup", "select"},
           srv'.pc = "select" => Proper /\ srv'.state # "CREATE_STREAMS"
    PROVE  StreamsInv'
<1>1. Phase' # 2
  BY DEF Phase
<1>2. StreamsPaired
  BY ServerTyped DEF StreamsInv
<1>3. StreamsPaired'
  BY <1>2 DEF StreamsPaired, Proper, Serving, Peer, ClientSends, Connections
<1>4. srv'.pc = "select" => Serving'
  BY DEF Proper, Serving
<1> QED
  BY <1>1, <1>3, <1>4 DEF StreamsInv

(* Both sides agree on who sends on a stream. *)
LEMMA OneSends ==
    ASSUME setup \in Setups, NEW c \in Client, NEW i \in 1..Connections(c)
    PROVE  ServerSends(c, i) = ~ClientSends(c, i)
<1>1. setup[c].dir \in {"up", "down", "both"} /\ setup[c].streams \in Nat \ {0}
  BY SetupOf
<1>2. CASE setup[c].dir = "up"
  BY <1>1, <1>2 DEF ServerSends, ClientSends, Connections
<1>3. CASE setup[c].dir = "down"
  BY <1>1, <1>3 DEF ServerSends, ClientSends, Connections
<1>4. CASE setup[c].dir = "both"
  BY <1>1, <1>4 DEF ServerSends, ClientSends, Connections
<1> QED
  BY <1>1, <1>2, <1>3, <1>4

(* The connection of the client that is next is the one the server takes. *)
LEMMA NextStream ==
    ASSUME AllInv, AcceptStream
    PROVE  /\ Peer \in Client /\ PhaseOf(Peer) = 2 /\ Phase = 2
           /\ link[Peer] = "open" /\ OpenInv(Peer)
           /\ Head(backlog) = <<Peer, Len(srv.streams) + 1>>
           /\ InOrder(Tail(backlog), Peer, Len(srv.streams) + 2)
           /\ Len(srv.streams) + 1 \in 1..Connections(Peer) /\ ~srv.workers
           /\ Connections(Peer) \in Nat \ {0}
<1>1. /\ srv.pc = "select" /\ Proper /\ srv.state = "CREATE_STREAMS"
      /\ backlog # <<>> /\ Head(backlog)[1] = Peer
  BY DEF AcceptStream
<1> DEFINE c == Peer
           n == Len(srv.streams)
<1>2. c \in Client /\ backlog \in Seq(Connection) /\ n \in Nat /\ setup \in Setups
  BY <1>1, ServerTyped
<1>3. Served(c) /\ Phase = 2 /\ PhaseOf(c) = 2
  BY <1>1 DEF Served, Phase, PhaseOf
<1>4. link[c] = "open"
  BY <1>2, <1>3 DEF AllInv, ProtocolInv, LinkInv
<1>5. OpenInv(c)
  BY <1>2, <1>3, <1>4 DEF AllInv, ProtocolInv, Sessions
<1>6. InOrder(backlog, c, n + 1)
  BY <1>3, <1>5 DEF OpenInv, Queued
<1>7. Head(backlog) = <<c, n + 1>> /\ InOrder(Tail(backlog), c, (n + 1) + 1)
  <2>1. n + 1 \in Nat
    BY <1>2
  <2> HIDE DEF n, c
  <2>2. Head(backlog)[1] = c
    BY <1>1 DEF c
  <2> QED
    BY <1>1, <1>2, <1>6, <2>1, <2>2, TailOwn
<1>8. Connections(c) \in Nat \ {0}
  BY <1>2, SetupOf
<1>9. n < Connections(c) /\ ~srv.workers
  BY <1>1, <1>3, ServerTyped DEF StreamsInv
<1>10. (n + 1) + 1 = n + 2 /\ n + 1 \in 1..Connections(c)
  BY <1>2, <1>8, <1>9
<1> QED
  BY <1>2, <1>3, <1>4, <1>5, <1>7, <1>8, <1>9, <1>10

LEMMA AcceptStreamPaired ==
    ASSUME AllInv, AcceptStream
    PROVE  StreamsInv'
<1>0. PICK c \in Client : c = Peer
  BY NextStream
<1> DEFINE n == Len(srv.streams)
           new == [owner |-> c, conn |-> n + 1, id |-> NewId(n),
                   sender |-> ServerSends(c, n + 1)]
           streams == Append(srv.streams, new)
<1>1. /\ srv.pc = "select" /\ Proper /\ srv.state = "CREATE_STREAMS"
      /\ UNCHANGED setup
  BY DEF AcceptStream
<1>2. /\ n + 1 \in 1..Connections(c) /\ ~srv.workers
      /\ Connections(c) \in Nat \ {0} /\ Head(backlog)[2] = n + 1
  BY <1>0, NextStream
<1>3. srv \in ServerRecord /\ setup \in Setups /\ n \in Nat /\ srv.streams \in Seq(Stream)
  BY ServerTyped
<1>4. IF n + 1 = Connections(c)
        THEN srv' = [srv EXCEPT !.state = "TEST_RUNNING", !.streams = streams,
                                !.workers = TRUE, !.done = FALSE]
        ELSE srv' = [srv EXCEPT !.streams = streams]
  BY <1>0, <1>2 DEF AcceptStream, Starts
<1>5. /\ Len(streams) = n + 1 /\ DOMAIN streams = 1..(n + 1)
      /\ \A i \in 1..n : streams[i] = srv.streams[i] /\ i \in DOMAIN srv.streams
      /\ streams[n + 1] = new
  <2> HIDE DEF new
  <2> QED
    BY <1>3
<1>6. new = [owner |-> c, conn |-> n + 1, id |-> NewId((n + 1) - 1),
             sender |-> ~ClientSends(c, n + 1)]
  <2>1. (n + 1) - 1 = n
    BY <1>3
  <2>2. ServerSends(c, n + 1) = ~ClientSends(c, n + 1)
    BY <1>2, <1>3, OneSends
  <2> QED
    BY <2>1, <2>2
<1>7. \A i \in DOMAIN srv.streams :
        srv.streams[i] = [owner |-> c, conn |-> i, id |-> NewId(i - 1),
                          sender |-> ~ClientSends(c, i)]
  BY <1>0, <1>1, ServerTyped DEF StreamsInv, StreamsPaired
<1> HIDE DEF streams, new
<1>8. \A i \in DOMAIN streams :
        streams[i] = [owner |-> c, conn |-> i, id |-> NewId(i - 1),
                      sender |-> ~ClientSends(c, i)]
  <2> TAKE i \in DOMAIN streams
  <2>1. i \in 1..n \/ i = n + 1
    BY <1>3, <1>5
  <2>2. CASE i \in 1..n
    BY <1>5, <1>7, <2>2
  <2>3. CASE i = n + 1
    BY <1>5, <1>6, <2>3
  <2> QED
    BY <2>1, <2>2, <2>3
<1>9. /\ srv'.pc = "select" /\ srv'.ctrl = srv.ctrl /\ srv'.streams = streams
      /\ \/ n + 1 = Connections(c) /\ srv'.workers /\ srv'.state = "TEST_RUNNING"
         \/ n + 1 # Connections(c) /\ ~srv'.workers
  BY <1>1, <1>2, <1>3, <1>4 DEF ServerRecord
<1>10. Proper' /\ Serving' /\ Peer' = c /\ UNCHANGED setup
  BY <1>0, <1>1, <1>9 DEF Proper, Serving, Peer
<1>11. Connections(Peer)' = Connections(c)
  BY <1>10 DEF Connections
<1>12. StreamsPaired'
  <2>1. \A i \in DOMAIN srv'.streams :
          srv'.streams[i] = [owner |-> Peer', conn |-> i, id |-> NewId(i - 1),
                             sender |-> ~ClientSends(c, i)]
    BY <1>8, <1>9, <1>10
  <2>2. \A i : ClientSends(Peer, i)' = ClientSends(c, i)
    BY <1>10 DEF ClientSends
  <2>3. srv'.workers => Len(srv'.streams) = Connections(Peer)'
    BY <1>5, <1>9, <1>11
  <2>4. Peer' = c
    BY <1>10
  <2>5. \A i \in DOMAIN srv'.streams :
          srv'.streams[i] = [owner |-> Peer', conn |-> i, id |-> NewId(i - 1),
                             sender |-> ~ClientSends(Peer, i)']
    BY <2>1, <2>2
  <2> QED
    BY <2>3, <2>5 DEF StreamsPaired
<1>13. Phase' = 2 => ~srv'.workers /\ Len(srv'.streams) < Connections(Peer)'
  <2>1. Phase' = 2 => srv'.state = "CREATE_STREAMS"
    BY <1>9 DEF Phase
  <2> QED
    BY <1>2, <1>3, <1>5, <1>9, <1>11, <2>1
<1> QED
  BY <1>9, <1>10, <1>12, <1>13 DEF StreamsInv

LEMMA ServerMoveStreams ==
    ASSUME AllInv, ServerMove, srv'.pc # "gone"
    PROVE  StreamsInv'
<1>0. /\ srv \in ServerRecord /\ StreamsInv /\ ServerInv /\ setup \in Setups
      /\ UNCHANGED setup
  BY ServerTyped, ServerKeepsClients DEF AllInv
<1>1. CASE Listen
  <2>1. /\ srv'.ctrl = srv.ctrl /\ ~Serving /\ srv'.streams = srv.streams
        /\ srv'.workers = srv.workers /\ srv.pc = "listen"
    BY <1>0, <1>1 DEF Listen, ServerRecord, ServerInv
  <2> QED
    BY <1>0, <2>1 DEF StreamsInv, StreamsPaired, Proper, Serving
<1>2. CASE ListenFails
  <2>1. srv'.pc = "exited" /\ srv'.ctrl = srv.ctrl /\ ~Serving
    BY <1>0, <1>2 DEF ListenFails, ServerRecord, ServerInv
  <2> QED
    BY <2>1 DEF StreamsInv, StreamsPaired, Proper, Serving
<1>3. CASE Accept
  <2>1. /\ srv'.streams = srv.streams /\ srv'.workers = srv.workers
        /\ srv'.pc \in {"cookie", "params"} /\ srv.pc = "select" /\ ~Serving
    <3> DEFINE conn == Head(backlog)
    <3>1. /\ \/ srv' = [srv EXCEPT !.pc = "cookie", !.ctrl = conn]
             \/ srv' = [srv EXCEPT !.pc = "params", !.ctrl = conn,
                                   !.state = "PARAM_EXCHANGE"]
          /\ srv.pc = "select" /\ ~Serving
      BY <1>3 DEF Accept
    <3> HIDE DEF conn
    <3> QED
      BY <1>0, <3>1 DEF ServerRecord
  <2>2. srv.streams = <<>> /\ ~srv.workers
    BY <1>0, <2>1 DEF StreamsInv
  <2>3. StreamsPaired'
    BY <2>1, <2>2 DEF StreamsPaired
  <2>4. Phase' # 2
    BY <2>1 DEF Phase
  <2> QED
    BY <2>1, <2>2, <2>3, <2>4 DEF StreamsInv
<1>4. CASE UNCHANGED srv
  BY <1>0, <1>4, ServerKeeps
<1>5. CASE AcceptStream
  BY <1>5, AcceptStreamPaired
<1>6. CASE HandleEnd
  <2>1. /\ srv'.pc = "results" /\ srv'.ctrl = srv.ctrl
        /\ srv'.streams = srv.streams /\ srv'.workers = srv.workers
    BY <1>0, <1>6 DEF HandleEnd, ServerRecord
  <2> QED
    BY <1>0, <2>1, StreamsKeep
<1>7. CASE ReadCookie
  <2>1. /\ srv'.streams = srv.streams /\ srv'.workers = srv.workers
        /\ srv'.pc = "params" /\ srv.pc = "cookie"
    BY <1>0, <1>7 DEF ReadCookie, ServerRecord
  <2>2. srv.streams = <<>> /\ ~srv.workers
    BY <1>0, <2>1 DEF StreamsInv
  <2>3. StreamsPaired' /\ Phase' # 2
    BY <2>1, <2>2 DEF StreamsPaired, Phase
  <2> QED
    BY <2>1, <2>2, <2>3 DEF StreamsInv
<1>8. CASE ReadParams
  <2> DEFINE held == Taken(srv.held, setup[Peer].asks)
  <2>1. /\ srv' = [srv EXCEPT !.pc = "select", !.state = "CREATE_STREAMS", !.held = held]
        /\ srv.pc = "params" /\ Proper
    BY <1>8 DEF ReadParams
  <2> HIDE DEF held
  <2>2. /\ srv'.pc = "select" /\ srv'.ctrl = srv.ctrl
        /\ srv'.streams = srv.streams /\ srv'.workers = srv.workers
    BY <1>0, <2>1 DEF ServerRecord
  <2>3. srv.streams = <<>> /\ ~srv.workers /\ Len(<<>>) = 0
    BY <1>0, <2>1, Pieces DEF StreamsInv
  <2>4. StreamsPaired' /\ Serving'
    BY <2>1, <2>2, <2>3 DEF StreamsPaired, Serving, Proper
  <2>5. Connections(Peer)' \in Nat \ {0}
    <3>1. Peer' \in Client /\ setup' \in Setups
      BY <1>0, <2>1, <2>2, ServerTyped DEF Peer
    <3>2. Connections(Peer') \in Nat \ {0}
      BY <1>0, <3>1, SetupOf
    <3> QED
      BY <1>0, <3>2 DEF Connections
  <2> QED
    BY <2>2, <2>3, <2>4, <2>5 DEF StreamsInv
<1>9. CASE ReadResults
  <2>1. /\ srv'.pc = "select" /\ srv'.state = "DISPLAY_RESULTS"
        /\ srv'.ctrl = srv.ctrl /\ srv.pc = "results"
        /\ srv'.streams = srv.streams /\ srv'.workers = srv.workers
    BY <1>0, <1>9 DEF ReadResults, ServerRecord
  <2>2. Proper
    BY <1>0, <2>1 DEF ServerInv
  <2> QED
    BY <1>0, <2>1, <2>2, StreamsKeep
<1>10. CASE GraceEnds
  <2>1. srv'.pc = "cleanup" /\ srv'.ctrl = NULL
    BY <1>0, <1>10 DEF GraceEnds, GiveUp, ServerRecord
  <2> QED
    BY <2>1 DEF StreamsInv, StreamsPaired, Proper, Serving
<1>11. CASE Cleanup
  <2>1. srv'.pc = "reset" /\ srv'.ctrl = NULL
    BY <1>0, <1>11 DEF Cleanup, ServerRecord
  <2> QED
    BY <2>1 DEF StreamsInv, StreamsPaired, Proper, Serving
<1>12. CASE Reset
  <2>1. /\ srv'.ctrl = srv.ctrl /\ ~Serving /\ ~srv'.workers /\ srv'.streams = <<>>
    BY <1>0, <1>12 DEF Reset, ResetTest, ServerRecord, ServerInv
  <2> QED
    BY <2>1 DEF StreamsInv, StreamsPaired, Proper, Serving
<1>13. CASE Killed
  <2>1. srv'.pc = "exited" /\ srv'.ctrl = NULL
    BY <1>0, <1>13 DEF Killed, ServerRecord
  <2> QED
    BY <2>1 DEF StreamsInv, StreamsPaired, Proper, Serving
<1>14. CASE RelistenFails \/ HandleDone
  <2>1. /\ srv.pc \in Open
        /\ \E state : srv' = [GiveUp EXCEPT !.state = state]
    BY <1>14 DEF RelistenFails, HandleDone, Open
  <2> QED
    BY <1>0, <2>1, GivingUp, StreamsKeep
<1>15. CASE srv' = GiveUp /\ srv.pc \in Open
  BY <1>0, <1>15, OnlyGivingUp, StreamsKeep
<1>16. ~ServerVanishes
  BY <1>0 DEF ServerVanishes, ServerRecord
<1> QED
  BY <1>1, <1>2, <1>3, <1>4, <1>5, <1>6, <1>7, <1>8, <1>9, <1>10, <1>11, <1>12,
     <1>13, <1>14, <1>15, <1>16
  DEF ServerMove, ServerStep, Deny, AcceptStranger, Handle, Read, ReadTimesOut,
      ReadGarbled, TimeOut, ReceiveTimesOut, Quiet, AcceptFails, NewStreamFails,
      IdleRestart, Open

-----------------------------------------------------------------------------
(* A step of the server, for one client *)

(* The server reads or throws away what clients have sent. *)
LEMMA SentBytes ==
    ASSUME AllInv, ServerMove
    PROVE  c2s' \in [Client -> Seq(FromClient)]
<1>0. c2s \in [Client -> Seq(FromClient)] /\ (Proper => Peer \in Client)
  BY ServerTyped
<1>1. <<>> \in Seq(FromClient)
  OBVIOUS
<1>2. ASSUME NEW cs, Shut(cs) PROVE c2s' \in [Client -> Seq(FromClient)]
  BY <1>0, <1>1, <1>2 DEF Shut
<1>3. CASE UNCHANGED c2s
  BY <1>0, <1>3
<1>4. CASE ReadCookie
  <2> DEFINE t == c2s[Peer]
             u == IF Head(t) = "cookie" THEN Tail(t)
                  ELSE <<"cut">> \o SubSeq(t, 3, Len(t))
  <2>1. HasCookie(t) /\ c2s' = [c2s EXCEPT ![Peer] = u]
    BY <1>4 DEF ReadCookie, Bytes
  <2>2. Peer \in Client /\ t \in Seq(FromClient)
    BY <1>0, <1>4, ServerTyped DEF ReadCookie, ServerInv
  <2>3. t # <<>> /\ (Head(t) # "cookie" => Len(t) >= 2)
    BY <2>1, <2>2 DEF HasCookie
  <2> HIDE DEF t
  <2>4. u \in Seq(FromClient)
    <3>1. CASE Head(t) = "cookie"
      BY <2>2, <2>3, <3>1
    <3>2. CASE Head(t) # "cookie"
      BY <2>2, <2>3, <3>2, ReadTwo, CutByte
    <3> QED
      BY <3>1, <3>2
  <2> HIDE DEF u
  <2> QED
    BY <1>0, <2>1, <2>2, <2>4
<1>5. CASE ReadParams
  <2>1. Framed(c2s[Peer]) /\ Peer \in Client
    BY <1>0, <1>5 DEF ReadParams, Bytes
  <2> DEFINE u == SubSeq(c2s[Peer], 3, Len(c2s[Peer]))
  <2>2. u \in Seq(FromClient)
    <3>1. c2s[Peer] \in Seq(FromClient) /\ Len(c2s[Peer]) >= 2
      BY <1>0, <2>1 DEF Framed
    <3> QED
      BY <3>1, ReadTwo
  <2>3. PICK lost : c2s' = [c \in Client |-> IF c \in lost THEN <<>>
                                  ELSE IF c = Peer THEN u ELSE c2s[c]]
    <3>1. \A c : c = Peer => SubSeq(c2s[c], 3, Len(c2s[c])) = u
      OBVIOUS
    <3>2. \E lost : c2s' = [c \in Client |-> IF c \in lost THEN <<>>
                  ELSE IF c = Peer THEN SubSeq(c2s[c], 3, Len(c2s[c])) ELSE c2s[c]]
      BY <1>5 DEF ReadParams
    <3>3. PICK lost : c2s' = [c \in Client |-> IF c \in lost THEN <<>>
                  ELSE IF c = Peer THEN SubSeq(c2s[c], 3, Len(c2s[c])) ELSE c2s[c]]
      BY <3>2
    <3> HIDE DEF u
    <3>4. c2s' = [c \in Client |-> IF c \in lost THEN <<>>
                                   ELSE IF c = Peer THEN u ELSE c2s[c]]
      BY <3>1, <3>3
    <3> QED
      BY <3>4
  <2> HIDE DEF u
  <2> QED
    BY <1>0, <1>1, <2>2, <2>3
<1>6. CASE HandleEnd \/ HandleDone
  <2>1. \/ c2s' = [c2s EXCEPT ![Peer] = c2s[Peer]]
        \/ c2s[Peer] # <<>> /\ c2s' = [c2s EXCEPT ![Peer] = Tail(c2s[Peer])]
    BY <1>6 DEF HandleEnd, HandleDone, Bytes
  <2>2. Peer \in Client
    BY <1>0, <1>6 DEF HandleEnd, HandleDone
  <2>3. c2s[Peer] # <<>> => Tail(c2s[Peer]) \in Seq(FromClient)
    BY <1>0, <2>2
  <2> QED
    BY <1>0, <2>1, <2>2, <2>3
<1>7. CASE ReadResults
  <2> DEFINE u == SubSeq(c2s[Peer], 3, Len(c2s[Peer]))
  <2>1. Framed(c2s[Peer]) /\ c2s' = [c2s EXCEPT ![Peer] = u]
    BY <1>7 DEF ReadResults, Bytes
  <2>2. Peer \in Client
    BY <1>0, <1>7, ServerTyped DEF ReadResults, ServerInv
  <2>3. u \in Seq(FromClient)
    <3>1. c2s[Peer] \in Seq(FromClient) /\ Len(c2s[Peer]) >= 2
      BY <1>0, <2>1, <2>2 DEF Framed
    <3> QED
      BY <3>1, ReadTwo
  <2> HIDE DEF u
  <2> QED
    BY <1>0, <2>1, <2>2, <2>3
<1>8. CASE AcceptStream
  BY <1>2, <1>3, <1>8 DEF AcceptStream, Starts
<1> QED
  BY <1>2, <1>3, <1>4, <1>5, <1>6, <1>7, <1>8
  DEF ServerMove, ServerStep, Listen, Accept, Deny, AcceptStranger, Handle, Read,
      ReadTimesOut, ReadGarbled, TimeOut, ReceiveTimesOut, GraceEnds, Cleanup,
      Reset, ListenFails, AcceptFails, RelistenFails, NewStreamFails, IdleRestart,
      Killed, ServerVanishes

(* What has to be shown for one client *)
Fine(c) ==
    /\ IdleInv(c) /\ LinkInv(c) /\ FairInv(c)
    /\ link[c] = "open" /\ PhaseOf(c) # 6 => OpenInv(c)

(* A mark of the server is all that changes in a client. *)
Marks(c) ==
    /\ cl'[c].pc = cl[c].pc /\ cl'[c].next = cl[c].next /\ cl'[c].state = cl[c].state
    /\ cl'[c].stopped = cl[c].stopped /\ cl'[c].closed = cl[c].closed
    /\ cl'[c].accepted = cl[c].accepted /\ cl'[c].outcome = cl[c].outcome
    /\ cl[c].trouble => cl'[c].trouble
    /\ cl[c].crossed => cl'[c].crossed

LEMMA AllFine ==
    ASSUME AllInv, NEW c \in Client
    PROVE  Fine(c) /\ (Served(c) => link[c] = "open" /\ PhaseOf(c) = Phase)
  BY DEF AllInv, ProtocolInv, Sessions, Fine, LinkInv, PhaseOf

LEMMA TailWaits ==
    ASSUME NEW b \in Seq(Connection), b # <<>>, NEW c
    PROVE  /\ Waits(Tail(b), c) => Waits(b, c)
           /\ NoneOf(b, c) => NoneOf(Tail(b), c)
           /\ Head(b) # <<c, 0>> => (Waits(b, c) => Waits(Tail(b), c))
           /\ Head(b) = <<c, 0>> => Waits(b, c) /\ ~NoneOf(b, c)
           /\ \A k : Head(b) = <<c, k>> => ~NoneOf(b, c)
<1> DEFINE a == Tail(b)
<1>1. /\ Len(a) = Len(b) - 1 /\ Len(b) \in Nat /\ 1 \in 1..Len(b)
      /\ \A i \in 1..Len(a) : a[i] = b[i + 1] /\ i + 1 \in 1..Len(b)
      /\ \A i \in 2..Len(b) : a[i - 1] = b[i] /\ i - 1 \in 1..Len(a)
      /\ b[1] = Head(b)
  BY TailFacts
<1> HIDE DEF a
<1>2. Waits(a, c) => Waits(b, c)
  BY <1>1 DEF Waits
<1>3. NoneOf(b, c) => NoneOf(a, c)
  BY <1>1 DEF NoneOf
<1>4. Head(b) # <<c, 0>> => (Waits(b, c) => Waits(a, c))
  <2>1. \A i \in 1..Len(b) : i = 1 \/ i \in 2..Len(b)
    BY <1>1
  <2> QED
    BY <1>1, <2>1 DEF Waits
<1>5. Head(b) = <<c, 0>> => Waits(b, c) /\ ~NoneOf(b, c)
  BY <1>1 DEF Waits, NoneOf
<1>6. \A k : Head(b) = <<c, k>> => ~NoneOf(b, c)
  BY <1>1 DEF NoneOf
<1> QED
  BY <1>2, <1>3, <1>4, <1>5, <1>6 DEF a

LEMMA NothingWaits ==
    /\ \A c : ~Waits(<<>>, c) /\ NoneOf(<<>>, c) /\ Single(<<>>, c)
    /\ \A b, c : NoneOf(b, c) => ~Waits(b, c)
    /\ \A b, c : Waits(b, c) => ~NoneOf(b, c)
<1>1. \A c : ~Waits(<<>>, c) /\ NoneOf(<<>>, c) /\ Single(<<>>, c)
  BY DEF Waits, NoneOf, Single
<1>2. ASSUME NEW b, NEW c, Waits(b, c) PROVE ~NoneOf(b, c)
  <2>1. PICK i \in 1..Len(b) : b[i] = <<c, 0>>
    BY <1>2 DEF Waits
  <2>2. b[i][1] = c
    BY <2>1
  <2> QED
    BY <2>2 DEF NoneOf
<1> QED
  BY <1>1, <1>2

(* A client the server does not serve *)
LEMMA Bystander ==
    ASSUME AllInv, NEW d \in Client, UNCHANGED setup, ~Served(d), ~Served(d)',
           cl'[d] = cl[d], srv.pc = "exited" => srv'.pc = "exited",
           \/ /\ link'[d] = link[d] /\ c2s'[d] = c2s[d] /\ s2c'[d] = s2c[d]
              /\ \/ UNCHANGED backlog
                 \/ /\ backlog # <<>> /\ backlog' = Tail(backlog)
                    /\ Head(backlog) # <<d, 0>>
                 \/ backlog' = <<>> /\ ~Waits(backlog, d)
           \/ /\ link'[d] = "shut" /\ c2s'[d] = <<>> /\ Waits(backlog, d)
              /\ \/ backlog' = <<>>
                 \/ /\ backlog # <<>> /\ backlog' = Tail(backlog)
                    /\ Head(backlog) = <<d, 0>>
    PROVE  Fine(d)'
<1>0. /\ backlog \in Seq(Connection) /\ Fine(d)
      /\ IdleInv(d) /\ LinkInv(d) /\ FairInv(d)
      /\ PhaseOf(d) = 0 /\ PhaseOf(d)' = 0
  BY ServerTyped, AllFine DEF Fine, PhaseOf
<1>1. /\ link[d] = "open" <=> Waits(backlog, d)
      /\ link[d] = "open" => OpenInv(d)
      /\ link[d] = "open" => Single(backlog, d) /\ cl[d].next = 1
  BY <1>0 DEF LinkInv, Fine, OpenInv, Queued
<1>2. CASE link'[d] = link[d] /\ c2s'[d] = c2s[d] /\ s2c'[d] = s2c[d]
           /\ \/ UNCHANGED backlog
              \/ /\ backlog # <<>> /\ backlog' = Tail(backlog)
                 /\ Head(backlog) # <<d, 0>>
              \/ backlog' = <<>> /\ ~Waits(backlog, d)
  <2>1. /\ Waits(backlog', d) <=> Waits(backlog, d)
        /\ NoneOf(backlog, d) => NoneOf(backlog', d)
        /\ link[d] = "open" => Single(backlog', d)
    <3>1. CASE UNCHANGED backlog
      BY <1>1, <3>1
    <3>2. CASE /\ backlog # <<>> /\ backlog' = Tail(backlog)
               /\ Head(backlog) # <<d, 0>>
      <4>1. Single(backlog, d) => Head(backlog)[1] # d
        BY <1>0, <3>2, TailOwn
      <4>2. Single(backlog, d) => Single(backlog', d)
        BY <1>0, <3>2, <4>1, TailOther
      <4> QED
        BY <1>0, <1>1, <3>2, <4>2, TailWaits
    <3>3. CASE backlog' = <<>> /\ ~Waits(backlog, d)
      BY <1>1, <3>3, NothingWaits
    <3> QED
      BY <1>2, <3>1, <3>2, <3>3
  <2>2. IdleInv(d)' /\ LinkInv(d)' /\ FairInv(d)'
    BY <1>0, <1>2, <2>1 DEF IdleInv, LinkInv, FairInv, Blamed
  <2>3. ASSUME link'[d] = "open" PROVE OpenInv(d)'
    <3>1. /\ Talk(0, cl[d].pc, cl[d].state, cl[d].stopped, s2c[d], c2s[d])
          /\ Single(backlog', d) /\ cl[d].next = 1
      BY <1>0, <1>1, <1>2, <2>1, <2>3 DEF OpenInv
    <3>2. Queued(backlog', d, 0, Len(srv'.streams), Connections(d)', cl[d].pc,
                 cl[d].next, s2c[d])
      BY <3>1 DEF Queued
    <3> QED
      BY <1>0, <1>2, <3>1, <3>2 DEF OpenInv
  <2> QED
    BY <2>2, <2>3 DEF Fine
<1>3. CASE link'[d] = "shut" /\ c2s'[d] = <<>> /\ Waits(backlog, d)
           /\ \/ backlog' = <<>>
              \/ /\ backlog # <<>> /\ backlog' = Tail(backlog)
                 /\ Head(backlog) = <<d, 0>>
  <2>1. ~Waits(backlog', d) /\ ~NoneOf(backlog, d)
    <3>1. CASE backlog' = <<>>
      BY <1>3, <3>1, NothingWaits
    <3>2. CASE /\ backlog # <<>> /\ backlog' = Tail(backlog)
               /\ Head(backlog) = <<d, 0>>
      <4>1. NoneOf(backlog', d)
        <5>1. Head(backlog)[1] = d
          BY <3>2
        <5> QED
          BY <1>0, <1>1, <1>3, <3>2, <5>1, TailOwn
      <4> QED
        BY <1>3, <4>1, NothingWaits
    <3> QED
      BY <1>3, <3>1, <3>2
  <2>2. IdleInv(d)' /\ LinkInv(d)' /\ FairInv(d)'
    BY <1>0, <1>3, <2>1 DEF IdleInv, LinkInv, FairInv, Blamed
  <2> QED
    BY <1>3, <2>2 DEF Fine
<1> QED
  BY <1>2, <1>3

(* The client the server serves, before and after *)
LEMMA PeerKept ==
    ASSUME AllInv, NEW c \in Client, UNCHANGED setup, Served(c), Served(c)', Marks(c),
           link'[c] = link[c],
           \/ UNCHANGED backlog \/ backlog' = <<>>
           \/ backlog # <<>> /\ backlog' = Tail(backlog),
           Phase' # 6 => OpenInv(c)',
           Phase' = 6 /\ Phase # 6 => cl[c].pc = "over" \/ Blamed(c)'
    PROVE  Fine(c)'
<1>0. /\ backlog \in Seq(Connection) /\ ServerInv /\ link[c] = "open"
      /\ IdleInv(c) /\ LinkInv(c) /\ FairInv(c)
      /\ PhaseOf(c)' = Phase'
  BY ServerTyped, AllFine DEF Fine, PhaseOf
<1>1. ~Waits(backlog, c) /\ ~Waits(backlog', c)
  <2>1. ~Waits(backlog, c)
    BY <1>0 DEF LinkInv
  <2> QED
    BY <1>0, <2>1, TailWaits, NothingWaits
<1>2. cl'[c].pc # "idle"
  BY <1>0 DEF IdleInv, Marks
<1>3. Blamed(c) => Blamed(c)'
  <2>1. srv.pc # "exited"
    BY <1>0 DEF ServerInv, Served, Proper
  <2> QED
    BY <2>1 DEF Blamed, Marks
<1>4. IdleInv(c)' /\ LinkInv(c)'
  BY <1>0, <1>1, <1>2 DEF IdleInv, LinkInv, Marks
<1>5. FairInv(c)'
  BY <1>0, <1>1, <1>3 DEF FairInv, Marks
<1> QED
  BY <1>0, <1>4, <1>5 DEF Fine

(* The client the server served *)
LEMMA PeerLeft ==
    ASSUME AllInv, NEW c \in Client, UNCHANGED setup, Served(c), ~Served(c)', Marks(c),
           link'[c] = "shut", c2s'[c] = <<>>, UNCHANGED backlog \/ backlog' = <<>>,
           Phase # 6 => cl[c].pc = "over" \/ Blamed(c)'
    PROVE  Fine(c)'
<1>0. /\ ServerInv /\ link[c] = "open" /\ IdleInv(c) /\ LinkInv(c) /\ FairInv(c)
  BY ServerTyped, AllFine DEF Fine
<1>1. ~Waits(backlog', c)
  BY <1>0, NothingWaits DEF LinkInv
<1>2. cl'[c].pc # "idle"
  BY <1>0 DEF IdleInv, Marks
<1>3. Blamed(c) => Blamed(c)'
  <2>1. srv.pc # "exited"
    BY <1>0 DEF ServerInv, Served, Proper
  <2> QED
    BY <2>1 DEF Blamed, Marks
<1>4. IdleInv(c)' /\ LinkInv(c)'
  BY <1>0, <1>1, <1>2 DEF IdleInv, LinkInv, Marks
<1>5. FairInv(c)'
  BY <1>0, <1>1, <1>3 DEF FairInv, Marks
<1> QED
  BY <1>4, <1>5 DEF Fine

(* The client the server takes up *)
LEMMA PeerComes ==
    ASSUME AllInv, NEW c \in Client, UNCHANGED setup, ~Serving, Served(c)',
           backlog # <<>>, Head(backlog) = <<c, 0>>, backlog' = Tail(backlog),
           cl'[c] = [cl[c] EXCEPT !.accepted = TRUE], srv'.pc = "cookie",
           link'[c] = link[c], c2s'[c] = c2s[c], s2c'[c] = s2c[c]
    PROVE  Fine(c)'
<1>0. /\ backlog \in Seq(Connection) /\ cl[c] \in ClientRecord /\ ~Served(c)
      /\ Fine(c) /\ IdleInv(c) /\ LinkInv(c) /\ FairInv(c)
      /\ PhaseOf(c) = 0 /\ PhaseOf(c)' = 0 /\ Phase' = 0
  BY ServerTyped, AllFine DEF Fine, PhaseOf, Phase, Served, Proper
<1>1. Waits(backlog, c) /\ ~NoneOf(backlog, c)
  BY <1>0, TailWaits
<1>2. link[c] = "open" /\ OpenInv(c) /\ cl[c].pc # "idle"
  BY <1>0, <1>1 DEF LinkInv, Fine, IdleInv
<1>3. Single(backlog, c) /\ cl[c].next = 1
  BY <1>0, <1>2 DEF OpenInv, Queued
<1>4. NoneOf(backlog', c) /\ ~Waits(backlog', c) /\ Single(backlog', c)
  <2>1. Head(backlog)[1] = c
    OBVIOUS
  <2>2. NoneOf(backlog', c)
    BY <1>0, <1>3, <2>1, TailOwn
  <2>3. Single(backlog', c)
    BY <2>2 DEF NoneOf, Single
  <2> QED
    BY <2>2, <2>3, NothingWaits
<1>5. /\ cl'[c].pc = cl[c].pc /\ cl'[c].next = cl[c].next /\ cl'[c].state = cl[c].state
      /\ cl'[c].stopped = cl[c].stopped /\ cl'[c].closed = cl[c].closed
      /\ cl'[c].trouble = cl[c].trouble /\ cl'[c].outcome = cl[c].outcome
      /\ cl'[c].crossed = cl[c].crossed
  BY <1>0 DEF ClientRecord
<1>6. IdleInv(c)' /\ LinkInv(c)'
  BY <1>0, <1>2, <1>4, <1>5 DEF IdleInv, LinkInv
<1>7. FairInv(c)'
  BY <1>0, <1>1, <1>4, <1>5 DEF FairInv, Blamed
<1>8. OpenInv(c)'
  <2>1. Talk(0, cl[c].pc, cl[c].state, cl[c].stopped, s2c[c], c2s[c])
    BY <1>0, <1>2 DEF OpenInv
  <2>2. Queued(backlog', c, 0, Len(srv'.streams), Connections(c)', cl[c].pc,
               cl[c].next, s2c[c])
    BY <1>3, <1>4 DEF Queued
  <2> QED
    BY <1>0, <1>5, <2>1, <2>2 DEF OpenInv
<1> QED
  BY <1>6, <1>7, <1>8 DEF Fine

-----------------------------------------------------------------------------
(* The server goes on to the next phase: it has read what it waited for and *)
(* sends an announcement, and z is what is on the way to the client then.   *)

LEMMA Announces ==
    /\ \A m : <<>> \o <<m>> = <<m>>
    /\ \A m \in Byte, n \in Byte : <<>> \o <<m, n>> = <<m, n>>
    /\ \A m \in Byte, n \in Byte, k \in Byte : <<>> \o <<m, n, k>> = <<m, n, k>>
<1>1. \A x \in Seq(Byte) : <<>> \o x = x
  OBVIOUS
<1>2. \A m \in Byte, n \in Byte : <<m, n>> \in Seq(Byte)
  OBVIOUS
<1>3. \A m \in Byte, n \in Byte, k \in Byte : <<m, n, k>> \in Seq(Byte)
  OBVIOUS
<1> QED
  BY <1>1, <1>2, <1>3, Pieces

LEMMA TalkGreeted ==
    ASSUME NEW pc, NEW state, NEW stopped, NEW s, NEW t \in Seq(FromClient),
           Talk(0, pc, state, stopped, s, t), HasCookie(t),
           NEW z, pc # "over" => z = s \o <<"PARAM_EXCHANGE">>
    PROVE  Talk(1, pc, state, stopped, z,
                IF Head(t) = "cookie" THEN Tail(t) ELSE <<"cut">> \o SubSeq(t, 3, Len(t)))
<1> DEFINE u == IF Head(t) = "cookie" THEN Tail(t)
                ELSE <<"cut">> \o SubSeq(t, 3, Len(t))
<1>1. /\ u \in Seq(FromClient) /\ Has(t, "cookie") /\ ~Has(u, "cookie")
      /\ \A x \in {"json", "TEST_END"} : Has(u, x) => Has(t, x)
      /\ \A x \in {"cookie", "json", "TEST_END"} : Once(t, x) => Once(u, x)
  <2>0. Once(t, "cookie")
    BY DEF Talk, Asked
  <2>1. CASE Head(t) = "cookie"
    <3>1. t # <<>>
      BY DEF HasCookie
    <3> QED
      BY <2>0, <2>1, <3>1, ReadByte
  <2>2. CASE Head(t) # "cookie"
    <3>1. Len(t) >= 2 /\ t[2] = "cookie"
      BY <2>2 DEF HasCookie
    <3> QED
      BY <2>0, <2>2, <3>1, ReadTwo, CutByte
  <2> QED
    BY <2>1, <2>2
<1>2. ~Has(u, "json") /\ ~Has(u, "TEST_END") /\ pc \in {"select", "over"}
  BY <1>1 DEF Talk, Asked
<1>3. Asked(1, pc, z, u)
  BY <1>1, <1>2 DEF Talk, Asked
<1>4. ASSUME pc # "over"
      PROVE  /\ Place(1, pc, z) /\ Running(1, state, z, u)
             /\ ~stopped => Exact(1, pc, state, z, u)
  <2>1. s = <<>> /\ pc = "select" /\ state # "TEST_RUNNING"
    BY <1>2, <1>4 DEF Talk, Place, Running
  <2>2. z = <<"PARAM_EXCHANGE">>
    <3>1. z = <<>> \o <<"PARAM_EXCHANGE">>
      BY <1>4, <2>1
    <3> QED
      BY <3>1, Announces
  <2>3. ~stopped => state = "NEW" /\ t = <<"cookie">>
    BY <1>4, <2>1 DEF Talk, Exact
  <2>4. ~stopped => u = <<>>
    BY <2>3, Pieces
  <2> HIDE DEF u
  <2> QED
    BY <2>1, <2>2, <2>3, <2>4, Pieces DEF Place, Running, Exact
<1> HIDE DEF u
<1>5. Talk(1, pc, state, stopped, z, u)
  BY <1>3, <1>4 DEF Talk
<1> QED
  BY <1>5 DEF u

(* JSON has been read: the parameters in phase 1, the results in phase 4. *)
LEMMA TalkFramed ==
    ASSUME NEW q, NEW pc, NEW state, NEW stopped, NEW s, NEW t \in Seq(FromClient),
           Talk(q, pc, state, stopped, s, t), Framed(t)
    PROVE  /\ q \in {1, 4} /\ Has(t, "json")
           /\ SubSeq(t, 3, Len(t)) \in Seq(FromClient)
           /\ \A p, z : Asked(p, pc, z, SubSeq(t, 3, Len(t)))
           /\ pc # "over" => s = <<>> /\ state # "TEST_RUNNING"
           /\ pc # "over" /\ ~stopped =>
                /\ SubSeq(t, 3, Len(t)) = <<>>
                /\ state = IF q = 1 THEN "PARAM_EXCHANGE" ELSE "EXCHANGE_RESULTS"
<1> DEFINE u == SubSeq(t, 3, Len(t))
<1>0. Once(t, "json")
  BY DEF Talk, Asked
<1>1. /\ u \in Seq(FromClient) /\ Has(t, "json") /\ ~Has(u, "json")
      /\ \A x \in {"cookie", "TEST_END"} : Has(u, x) => Has(t, x)
      /\ \A x \in {"cookie", "json", "TEST_END"} : Once(t, x) => Once(u, x)
  <2>1. Len(t) >= 2 /\ t[2] = "json"
    BY DEF Framed
  <2> QED
    BY <1>0, <2>1, ReadTwo
<1>2. /\ q \in {1, 4}
      /\ \/ pc = "over"
         \/ q = 1 /\ pc = "select" /\ s = <<>>
         \/ q = 4 /\ pc = "getResults"
  BY <1>1 DEF Talk, Asked
<1>3. ~Has(u, "cookie") /\ ~Has(u, "TEST_END")
  BY <1>1, <1>2 DEF Talk, Asked
<1>4. \A p, z : Asked(p, pc, z, u)
  BY <1>1, <1>3 DEF Talk, Asked
<1>5. pc # "over" => s = <<>> /\ state # "TEST_RUNNING"
  <2> SUFFICES ASSUME pc # "over" PROVE s = <<>> /\ state # "TEST_RUNNING"
    OBVIOUS
  <2>1. state # "TEST_RUNNING"
    BY <1>2 DEF Talk, Running
  <2>2. q = 4 /\ pc = "getResults" => s = <<>>
    BY DEF Talk, Place
  <2> QED
    BY <1>2, <2>1, <2>2
<1>6. ASSUME pc # "over", ~stopped
      PROVE  /\ t = <<"len", "json">>
             /\ state = IF q = 1 THEN "PARAM_EXCHANGE" ELSE "EXCHANGE_RESULTS"
  BY <1>2, <1>5, <1>6 DEF Talk, Exact
<1>7. ASSUME pc # "over", ~stopped PROVE u = <<>>
  <2>1. t = <<"len", "json">> /\ Len(t) = 2
    BY <1>6, <1>7, Pieces
  <2> QED
    BY <2>1, Pieces
<1> QED
  BY <1>1, <1>2, <1>4, <1>5, <1>6, <1>7

LEMMA TalkCreate ==
    ASSUME NEW pc, NEW state, NEW stopped, NEW s, NEW t \in Seq(FromClient),
           Talk(1, pc, state, stopped, s, t), Framed(t),
           NEW z, pc # "over" => z = s \o <<"CREATE_STREAMS">>
    PROVE  /\ Talk(2, pc, state, stopped, z, SubSeq(t, 3, Len(t)))
           /\ pc # "over" => pc = "select" /\ z # <<>>
<1> DEFINE u == SubSeq(t, 3, Len(t))
<1>1. /\ Asked(2, pc, z, u) /\ (pc # "over" => s = <<>> /\ state # "TEST_RUNNING")
      /\ pc # "over" /\ ~stopped => u = <<>> /\ state = "PARAM_EXCHANGE"
      /\ Has(t, "json")
  BY TalkFramed
<1> HIDE DEF u
<1>2. pc # "over" => pc = "select"
  BY <1>1 DEF Talk, Asked
<1>3. pc # "over" => z = <<"CREATE_STREAMS">> /\ z # <<>>
  <2>1. pc # "over" => z = <<>> \o <<"CREATE_STREAMS">>
    BY <1>1
  <2>2. <<>> \o <<"CREATE_STREAMS">> = <<"CREATE_STREAMS">>
    BY Announces
  <2>3. <<"CREATE_STREAMS">> # <<>>
    OBVIOUS
  <2> QED
    BY <2>1, <2>2, <2>3
<1>4. ASSUME pc # "over"
      PROVE  /\ Place(2, pc, z) /\ Running(2, state, z, u)
             /\ ~stopped => Exact(2, pc, state, z, u)
  BY <1>1, <1>2, <1>3, <1>4 DEF Place, Running, Exact
<1>5. Talk(2, pc, state, stopped, z, u)
  BY <1>1, <1>4 DEF Talk
<1> QED
  BY <1>2, <1>3, <1>5 DEF u

LEMMA TalkStart ==
    ASSUME NEW pc, NEW state, NEW stopped, NEW s, NEW t \in Seq(FromClient),
           Talk(2, pc, state, stopped, s, t),
           NEW z, pc # "over" => /\ pc = "select" /\ s = <<>>
                                 /\ z = s \o <<"TEST_START", "TEST_RUNNING">>
    PROVE  Talk(3, pc, state, stopped, z, t)
<1>1. ~Has(t, "cookie") /\ ~Has(t, "json") /\ ~Has(t, "TEST_END")
  BY DEF Talk, Asked
<1>2. Asked(3, pc, z, t)
  BY <1>1 DEF Talk, Asked
<1>3. ASSUME pc # "over"
      PROVE  /\ Place(3, pc, z) /\ Running(3, state, z, t)
             /\ ~stopped => Exact(3, pc, state, z, t)
  <2>1. z = <<"TEST_START", "TEST_RUNNING">> /\ Len(z) = 2
    <3>1. "TEST_START" \in Byte /\ "TEST_RUNNING" \in Byte
      BY DEF Byte, State, Announcement
    <3> QED
      BY <1>3, <3>1, Announces, Pieces
  <2>2. state # "TEST_RUNNING"
    BY <1>3 DEF Talk, Running
  <2>3. ~stopped => state = "CREATE_STREAMS" /\ t = <<>>
    BY <1>3 DEF Talk, Exact
  <2> QED
    BY <1>3, <2>1, <2>2, <2>3 DEF Place, Running, Exact
<1> QED
  BY <1>2, <1>3 DEF Talk

LEMMA TalkExchange ==
    ASSUME NEW q, NEW pc, NEW state, NEW stopped, NEW s, NEW t \in Seq(FromClient),
           Talk(q, pc, state, stopped, s, t), t # <<>>, Head(t) = "TEST_END",
           NEW z, pc # "over" => z = s \o <<"EXCHANGE_RESULTS">>
    PROVE  q = 3 /\ Talk(4, pc, state, stopped, z, Tail(t))
<1> DEFINE u == Tail(t)
<1>0. Once(t, "TEST_END")
  BY DEF Talk, Asked
<1>1. /\ Has(t, "TEST_END") /\ ~Has(u, "TEST_END")
      /\ \A x : Has(u, x) => Has(t, x)
      /\ \A x : Once(t, x) => Once(u, x)
  BY <1>0, ReadByte
<1>2. q = 3 /\ (pc # "over" => pc = "select" /\ s = <<>>)
  BY <1>1 DEF Talk, Asked
<1>3. ~Has(u, "cookie") /\ ~Has(u, "json")
  BY <1>1, <1>2 DEF Talk, Asked
<1>4. Asked(4, pc, z, u)
  BY <1>1, <1>3 DEF Talk, Asked
<1>5. ASSUME pc # "over"
      PROVE  /\ Place(4, pc, z) /\ Running(4, state, z, u)
             /\ ~stopped => Exact(4, pc, state, z, u)
  <2>1. z = <<"EXCHANGE_RESULTS">> /\ z # <<>>
    <3>1. z = <<>> \o <<"EXCHANGE_RESULTS">>
      BY <1>2, <1>5
    <3>2. <<>> \o <<"EXCHANGE_RESULTS">> = <<"EXCHANGE_RESULTS">>
      BY Announces
    <3>3. <<"EXCHANGE_RESULTS">> # <<>>
      OBVIOUS
    <3> QED
      BY <3>1, <3>2, <3>3
  <2>2. state # "TEST_RUNNING"
    BY <1>1, <1>5 DEF Talk, Running
  <2>3. Len(s) = 0
    BY <1>2, <1>5, Pieces
  <2>4. ~stopped => state = "TEST_END" /\ t = <<"TEST_END">>
    BY <1>2, <1>5, <2>2, <2>3 DEF Talk, Exact
  <2>5. ~stopped => u = <<>>
    BY <2>4, Pieces
  <2> HIDE DEF u
  <2> QED
    BY <1>2, <1>5, <2>1, <2>2, <2>4, <2>5 DEF Place, Running, Exact
<1> QED
  BY <1>2, <1>4, <1>5 DEF Talk

LEMMA TalkDisplay ==
    ASSUME NEW pc, NEW state, NEW stopped, NEW s, NEW t \in Seq(FromClient),
           Talk(4, pc, state, stopped, s, t), Framed(t),
           NEW z, pc # "over" => z = s \o <<"len", "json", "DISPLAY_RESULTS">>
    PROVE  Talk(5, pc, state, stopped, z, SubSeq(t, 3, Len(t)))
<1> DEFINE u == SubSeq(t, 3, Len(t))
<1>1. /\ Asked(5, pc, z, u) /\ (pc # "over" => s = <<>> /\ state # "TEST_RUNNING")
      /\ pc # "over" /\ ~stopped => u = <<>> /\ state = "EXCHANGE_RESULTS"
      /\ Has(t, "json")
  BY TalkFramed
<1> HIDE DEF u
<1>2. pc # "over" => pc = "getResults"
  BY <1>1 DEF Talk, Asked
<1>3. pc # "over" => z = <<"len", "json", "DISPLAY_RESULTS">>
  <2>1. "len" \in Byte /\ "json" \in Byte /\ "DISPLAY_RESULTS" \in Byte
    BY DEF Byte, State, Announcement
  <2> QED
    BY <1>1, <2>1, Announces
<1>4. ASSUME pc # "over"
      PROVE  /\ Place(5, pc, z) /\ Running(5, state, z, u)
             /\ ~stopped => Exact(5, pc, state, z, u)
  BY <1>1, <1>2, <1>3, <1>4 DEF Place, Running, Exact
<1>5. Talk(5, pc, state, stopped, z, u)
  BY <1>1, <1>4 DEF Talk
<1> QED
  BY <1>5 DEF u

(* What a client has sent that is still there and was not stopped gives the *)
(* server no reason to give it up.                                          *)
LEMMA TalkProper ==
    ASSUME NEW q, NEW pc, NEW state, NEW stopped, NEW s, NEW t \in Seq(FromClient),
           Talk(q, pc, state, stopped, s, t), pc # "over", ~stopped
    PROVE  /\ q \in {2, 3, 5} => t = <<>> \/ Head(t) = "TEST_END"
           /\ q \in {1, 4} => ~Garbled(t)
<1>1. Exact(q, pc, state, s, t)
  BY DEF Talk
<1>2. q \in {2, 3, 5} => t = <<>> \/ t = <<"TEST_END">>
  BY <1>1 DEF Exact
<1>3. q \in {1, 4} => t = <<>> \/ t = <<"len">> \/ t = <<"len", "json">>
  BY <1>1 DEF Exact
<1>4. /\ ~Garbled(<<>>) /\ ~Garbled(<<"len">>) /\ ~Garbled(<<"len", "json">>)
      /\ Head(<<"TEST_END">>) = "TEST_END"
  BY DEF Garbled
<1> QED
  BY <1>2, <1>3, <1>4

-----------------------------------------------------------------------------
(* The steps of the server *)

LEMMA WaitingWaits ==
    ASSUME NEW c \in Client
    PROVE  backlog \in Seq(Connection) => (c \in Waiting <=> Waits(backlog, c))
<1> SUFFICES ASSUME backlog \in Seq(Connection)
             PROVE  c \in Waiting <=> Waits(backlog, c)
  OBVIOUS
<1>1. DOMAIN backlog = 1..Len(backlog)
  OBVIOUS
<1>2. c \in Waiting <=> \E i \in DOMAIN backlog : backlog[i] = <<c, 0>>
  BY DEF Waiting, Elements
<1> QED
  BY <1>1, <1>2 DEF Waits

(* Marking a client *)
LEMMA Marked1 ==
    ASSUME AllInv, NEW c \in Client,
           \/ cl' = [cl EXCEPT ![c].trouble = TRUE]
           \/ cl' = [cl EXCEPT ![c].crossed = TRUE]
           \/ cl' = [cl EXCEPT ![c].finished = TRUE]
           \/ UNCHANGED cl
    PROVE  /\ Marks(c) /\ \A d \in Client : d # c => cl'[d] = cl[d]
           /\ cl' = [cl EXCEPT ![c].trouble = TRUE] => cl'[c].trouble
           /\ cl' = [cl EXCEPT ![c].crossed = TRUE] => cl'[c].crossed
<1>1. cl \in [Client -> ClientRecord] /\ cl[c] \in ClientRecord
  BY ServerTyped
<1>2. /\ cl' = [cl EXCEPT ![c].trouble = TRUE] => cl'[c].trouble
      /\ cl' = [cl EXCEPT ![c].crossed = TRUE] => cl'[c].crossed
  BY <1>1 DEF ClientRecord
<1>3. CASE UNCHANGED cl
  BY <1>2, <1>3 DEF Marks
<1>4. CASE ~UNCHANGED cl
  <2>1. PICK r \in {[cl[c] EXCEPT !.trouble = TRUE], [cl[c] EXCEPT !.crossed = TRUE],
                    [cl[c] EXCEPT !.finished = TRUE]} : cl' = [cl EXCEPT ![c] = r]
    BY <1>4
  <2>2. /\ r.pc = cl[c].pc /\ r.next = cl[c].next /\ r.state = cl[c].state
        /\ r.stopped = cl[c].stopped /\ r.closed = cl[c].closed
        /\ r.accepted = cl[c].accepted /\ r.outcome = cl[c].outcome
        /\ (cl[c].trouble => r.trouble) /\ (cl[c].crossed => r.crossed)
    BY <1>1 DEF ClientRecord
  <2>3. cl'[c] = r /\ \A d \in Client : d # c => cl'[d] = cl[d]
    BY <1>1, <2>1
  <2> QED
    BY <1>2, <2>2, <2>3 DEF Marks
<1> QED
  BY <1>3, <1>4

(* Nobody is served, and nothing is done for anybody. *)
LEMMA NobodyServed ==
    ASSUME AllInv, ~Proper, ~Proper', srv.pc # "exited",
           UNCHANGED <<setup, cl, backlog, c2s, s2c, link>>
    PROVE  \A d \in Client : Fine(d)'
<1> TAKE d \in Client
<1>1. ~Served(d) /\ ~Served(d)'
  BY DEF Served
<1> QED
  BY <1>1, Bystander

LEMMA IdleMoves ==
    ASSUME AllInv,
           \/ Listen \/ ListenFails \/ Reset \/ IdleRestart
           \/ (AcceptFails \/ ReadTimesOut) /\ ~Proper
    PROVE  \A d \in Client : Fine(d)'
<1>0. srv \in ServerRecord /\ ServerInv
  BY ServerTyped
<1>1. srv.pc # "exited" /\ UNCHANGED <<setup, cl, backlog, c2s, s2c, link>>
  BY DEF Listen, ListenFails, Reset, IdleRestart, AcceptFails, ReadTimesOut, Late
<1>2. ~Proper
  BY <1>0 DEF Listen, ListenFails, Reset, IdleRestart, ServerInv, Proper
<1>3. srv'.ctrl = srv.ctrl
  <2>1. CASE Listen \/ ListenFails
    BY <1>0, <2>1 DEF Listen, ListenFails, ServerRecord
  <2>2. CASE Reset
    BY <1>0, <2>2 DEF Reset, ResetTest, ServerRecord
  <2>3. CASE srv' = GiveUp
    BY <1>0, <2>3 DEF GiveUp, ServerRecord
  <2> QED
    BY <2>1, <2>2, <2>3 DEF IdleRestart, AcceptFails, ReadTimesOut
<1>4. ~Proper'
  BY <1>2, <1>3 DEF Proper, Serving
<1> QED
  BY <1>1, <1>2, <1>4, NobodyServed

(* The server gives up the client it serves. *)
LEMMA GaveUp ==
    ASSUME AllInv, NEW c \in Client, Served(c), srv'.ctrl = srv.ctrl,
           srv'.pc = "cleanup", UNCHANGED <<setup, link>>,
           \A d \in Client : d # c => cl'[d] = cl[d] /\ c2s'[d] = c2s[d] /\ s2c'[d] = s2c[d],
           \/ UNCHANGED backlog
           \/ backlog # <<>> /\ backlog' = Tail(backlog) /\ Head(backlog)[1] = c,
           Marks(c), Phase # 6 => cl[c].pc = "over" \/ Blamed(c)'
    PROVE  \A d \in Client : Fine(d)'
<1>1. Served(c)' /\ Phase' = 6
  BY DEF Served, Proper, Serving, Peer, Phase
<1>2. Fine(c)'
  BY <1>1, PeerKept
<1>3. ASSUME NEW d \in Client, d # c PROVE Fine(d)'
  <2>1. ~Served(d) /\ ~Served(d)' /\ srv.pc # "exited"
    BY <1>1, <1>3, ServerTyped DEF Served, ServerInv, Proper
  <2>2. Head(backlog)[1] = c => Head(backlog) # <<d, 0>>
    BY <1>3
  <2> QED
    BY <1>3, <2>1, <2>2, Bystander
<1> QED
  BY <1>2, <1>3

(* What the server finds in a session that nobody has stopped *)
LEMMA InPhase ==
    ASSUME AllInv, NEW c \in Client, Served(c), Phase # 6
    PROVE  /\ c2s[c] \in Seq(FromClient) /\ link[c] = "open" /\ OpenInv(c)
           /\ cl[c].stopped => cl[c].trouble
           /\ cl[c].closed => cl[c].pc = "over"
           /\ Talk(Phase, cl[c].pc, cl[c].state, cl[c].stopped, s2c[c], c2s[c])
           /\ Queued(backlog, c, Phase, Len(srv.streams), Connections(c), cl[c].pc,
                     cl[c].next, s2c[c])
<1>1. Fine(c) /\ link[c] = "open" /\ PhaseOf(c) = Phase
  BY AllFine
<1>2. OpenInv(c) /\ LinkInv(c) /\ FairInv(c)
  BY <1>1 DEF Fine
<1>3. c2s[c] \in Seq(FromClient)
  BY ServerTyped
<1> QED
  BY <1>1, <1>2, <1>3 DEF OpenInv, LinkInv, FairInv

LEMMA GiveUpMoves ==
    ASSUME AllInv,
           \/ RelistenFails \/ NewStreamFails \/ HandleDone \/ ReadGarbled
           \/ ReceiveTimesOut
           \/ (AcceptFails \/ ReadTimesOut) /\ Proper
    PROVE  \A d \in Client : Fine(d)'
<1>0. /\ srv \in ServerRecord /\ ServerInv /\ cl \in [Client -> ClientRecord]
      /\ c2s \in [Client -> Seq(FromClient)] /\ s2c \in [Client -> Seq(Byte)]
  BY ServerTyped
<1>1. PICK c \in Client : Proper /\ Peer = c
  BY ServerTyped DEF AcceptFails, RelistenFails, NewStreamFails, HandleDone, ReadGarbled,
                     ReceiveTimesOut, Quiet
<1>2. Served(c) /\ srv.pc \in Open
  BY <1>1 DEF Served, Open, AcceptFails, RelistenFails, NewStreamFails, HandleDone, ReadGarbled,
              ReceiveTimesOut, Quiet, ReadTimesOut
<1>3. srv'.ctrl = srv.ctrl /\ srv'.pc = "cleanup"
  <2>1. CASE RelistenFails \/ HandleDone
    <3>1. \E state : srv' = [GiveUp EXCEPT !.state = state]
      BY <2>1 DEF RelistenFails, HandleDone
    <3> QED
      BY <1>2, <3>1, GivingUp
  <2>2. CASE srv' = GiveUp
    BY <1>2, <2>2, OnlyGivingUp
  <2> QED
    BY <2>1, <2>2 DEF AcceptFails, NewStreamFails, ReadGarbled,
                             ReceiveTimesOut, ReadTimesOut
<1>4. /\ UNCHANGED <<setup, link>>
      /\ \/ UNCHANGED backlog
         \/ backlog # <<>> /\ backlog' = Tail(backlog) /\ Head(backlog)[1] = c
  BY <1>1 DEF AcceptFails, RelistenFails, NewStreamFails, HandleDone, ReadGarbled,
              ReceiveTimesOut, ReadTimesOut
<1>5. \A d \in Client : d # c => c2s'[d] = c2s[d] /\ s2c'[d] = s2c[d]
  <2>1. UNCHANGED s2c \/ \E bytes : ToClient(c, bytes)
    BY <1>1 DEF AcceptFails, RelistenFails, NewStreamFails, HandleDone, ReadGarbled,
                ReceiveTimesOut, ReadTimesOut
  <2>2. UNCHANGED c2s \/ \E t : c2s' = [c2s EXCEPT ![c] = t]
    BY <1>1 DEF AcceptFails, RelistenFails, NewStreamFails, HandleDone, ReadGarbled,
                ReceiveTimesOut, ReadTimesOut
  <2> QED
    BY <1>0, <2>1, <2>2 DEF ToClient
<1>6. \/ UNCHANGED cl \/ cl' = [cl EXCEPT ![c].trouble = TRUE]
      \/ cl' = [cl EXCEPT ![c].crossed = TRUE]
  BY <1>1 DEF AcceptFails, RelistenFails, NewStreamFails, HandleDone, ReadGarbled,
              ReceiveTimesOut, ReadTimesOut, Late
<1>7. /\ Marks(c) /\ \A d \in Client : d # c => cl'[d] = cl[d]
      /\ cl' = [cl EXCEPT ![c].trouble = TRUE] => cl'[c].trouble
      /\ cl' = [cl EXCEPT ![c].crossed = TRUE] => cl'[c].crossed
  BY <1>6, Marked1
<1>8. ASSUME Phase # 6 PROVE cl[c].pc = "over" \/ Blamed(c)'
  <2>1. CASE \/ cl' = [cl EXCEPT ![c].trouble = TRUE]
             \/ cl' = [cl EXCEPT ![c].crossed = TRUE]
    BY <1>7, <2>1 DEF Blamed
  <2>2. CASE UNCHANGED cl /\ (ReadTimesOut \/ ReceiveTimesOut)
    <3>1. cl[c].pc = "over" \/ cl'[c].trouble
      <4>1. Late
        BY <2>2 DEF ReadTimesOut, ReceiveTimesOut
      <4> QED
        BY <1>1, <1>7, <4>1 DEF Late
    <3> QED
      BY <3>1 DEF Blamed
  <2>3. CASE UNCHANGED cl /\ (HandleDone \/ ReadGarbled)
    <3> SUFFICES ASSUME cl[c].pc # "over", ~cl[c].stopped PROVE FALSE
      <4>1. cl[c].stopped => cl'[c].trouble
        BY <1>2, <1>8, <2>3, InPhase
      <4> QED
        BY <4>1 DEF Blamed
    <3>1. /\ Talk(Phase, cl[c].pc, cl[c].state, cl[c].stopped, s2c[c], c2s[c])
          /\ c2s[c] \in Seq(FromClient) /\ ~cl[c].closed
      BY <1>2, <1>8, InPhase
    <3>2. /\ Phase \in {2, 3, 5} => c2s[c] = <<>> \/ Head(c2s[c]) = "TEST_END"
          /\ Phase \in {1, 4} => ~Garbled(c2s[c])
      BY <3>1, TalkProper
    <3>3. CASE HandleDone
      <4>1. srv.pc = "select" /\ Serving
        BY <3>3 DEF HandleDone, Proper
      <4>2. Phase \in {2, 3, 5}
        BY <1>0, <4>1 DEF ServerInv, Phase
      <4>3. IF c2s[c] = <<>> THEN cl[c].closed ELSE Head(c2s[c]) # "TEST_END"
        BY <1>1, <3>3 DEF HandleDone, Bytes
      <4> QED
        BY <3>1, <3>2, <4>2, <4>3
    <3>4. CASE ReadGarbled
      <4>1. Garbled(c2s[c]) /\ srv.pc \in {"params", "results"}
        BY <1>1, <3>4 DEF ReadGarbled, Bytes
      <4>2. Phase \in {1, 4}
        BY <4>1 DEF Phase
      <4> QED
        BY <3>2, <4>1, <4>2
    <3> QED
      BY <2>3, <3>3, <3>4
  <2> QED
    BY <1>1, <1>6, <2>1, <2>2, <2>3 DEF AcceptFails, RelistenFails, NewStreamFails
<1> QED
  BY <1>2, <1>3, <1>4, <1>5, <1>7, <1>8, GaveUp

LEMMA AcceptMove ==
    ASSUME AllInv, Accept
    PROVE  \A d \in Client : Fine(d)'
<1>0. /\ srv \in ServerRecord /\ ServerInv /\ cl \in [Client -> ClientRecord]
      /\ backlog \in Seq(Connection)
  BY ServerTyped
<1>1. /\ srv.pc = "select" /\ ~Serving /\ backlog # <<>> /\ backlog' = Tail(backlog)
      /\ UNCHANGED <<setup, c2s, s2c, link>>
  BY DEF Accept
<1>2. PICK c \in Client, k \in Nat : Head(backlog) = <<c, k>>
  <2>1. Head(backlog) \in Connection
    BY <1>0, <1>1
  <2> QED
    BY <2>1 DEF Connection
<1>3. ~Proper /\ \A d \in Client : ~Served(d)
  BY <1>1 DEF Proper, Served
<1> DEFINE conn == Head(backlog)
<1>a. IF conn[2] = 0
        THEN /\ srv' = [srv EXCEPT !.pc = "cookie", !.ctrl = conn]
             /\ cl' = [cl EXCEPT ![conn[1]].accepted = TRUE]
        ELSE /\ srv' = [srv EXCEPT !.pc = "params", !.ctrl = conn,
                                   !.state = "PARAM_EXCHANGE"]
             /\ UNCHANGED cl
  BY DEF Accept
<1>b. conn = <<c, k>>
  BY <1>2
<1> HIDE DEF conn
<1>d. conn[1] = c /\ conn[2] = k
  BY <1>b
<1>4. CASE k = 0
  <2>1. /\ srv' = [srv EXCEPT !.pc = "cookie", !.ctrl = <<c, 0>>]
        /\ cl' = [cl EXCEPT ![c].accepted = TRUE]
    <3>1. /\ srv' = [srv EXCEPT !.pc = "cookie", !.ctrl = conn]
          /\ cl' = [cl EXCEPT ![conn[1]].accepted = TRUE]
      BY <1>a, <1>d, <1>4
    <3>2. conn = <<c, 0>>
      BY <1>b, <1>4
    <3> QED
      BY <1>d, <3>1, <3>2
  <2>2. srv'.pc = "cookie" /\ srv'.ctrl = <<c, 0>>
    BY <1>0, <2>1 DEF ServerRecord
  <2>3. Served(c)' /\ Peer' = c
    BY <2>2 DEF Served, Proper, Serving, Peer, NULL
  <2>4. cl'[c] = [cl[c] EXCEPT !.accepted = TRUE]
        /\ \A d \in Client : d # c => cl'[d] = cl[d]
    BY <1>0, <2>1
  <2>5. Fine(c)'
    <3>1. Head(backlog) = <<c, 0>>
      BY <1>2, <1>4
    <3> QED
      BY <1>1, <2>2, <2>3, <2>4, <3>1, PeerComes
  <2>6. ASSUME NEW d \in Client, d # c PROVE Fine(d)'
    <3>1. ~Served(d)' /\ Head(backlog) # <<d, 0>> /\ srv.pc # "exited"
      BY <1>1, <1>2, <2>3, <2>6 DEF Served
    <3> QED
      BY <1>1, <1>3, <2>4, <2>6, <3>1, Bystander
  <2> QED
    BY <2>5, <2>6
<1>5. CASE k # 0
  <2>1. /\ srv' = [srv EXCEPT !.pc = "params", !.ctrl = <<c, k>>,
                              !.state = "PARAM_EXCHANGE"]
        /\ UNCHANGED cl
    <3>1. /\ srv' = [srv EXCEPT !.pc = "params", !.ctrl = conn,
                                !.state = "PARAM_EXCHANGE"]
          /\ UNCHANGED cl
      BY <1>a, <1>d, <1>5
    <3> QED
      BY <1>b, <3>1
  <2>2. srv'.ctrl = <<c, k>>
    BY <1>0, <2>1 DEF ServerRecord
  <2>3. \A d \in Client : ~Served(d)'
    BY <1>5, <2>2 DEF Served, Proper
  <2>4. ASSUME NEW d \in Client PROVE Fine(d)'
    <3>1. ~Served(d)' /\ Head(backlog) # <<d, 0>> /\ srv.pc # "exited"
      BY <1>1, <1>2, <1>5, <2>3
    <3> QED
      BY <1>1, <1>3, <2>1, <3>1, Bystander
  <2> QED
    BY <2>4
<1> QED
  BY <1>4, <1>5

(* A connection is turned away, and closed if it is a control connection. *)
LEMMA TurnedAway ==
    ASSUME AllInv, NEW c \in Client, Served(c), NEW d0 \in Client, NEW k \in Nat,
           backlog # <<>>, Head(backlog) = <<d0, k>>, backlog' = Tail(backlog),
           UNCHANGED <<setup, cl>>, srv'.ctrl = srv.ctrl, srv'.streams = srv.streams,
           IF k = 0 THEN ToClient(d0, <<"ACCESS_DENIED">>) /\ Shut({d0})
           ELSE UNCHANGED <<c2s, s2c, link>>,
           d0 = c => Phase \notin {0, 2},
           Phase' = Phase \/ Phase' = 6, Phase' # Phase => Blamed(c)'
    PROVE  \A d \in Client : Fine(d)'
<1>0. /\ ServerInv /\ cl \in [Client -> ClientRecord] /\ setup \in Setups
      /\ backlog \in Seq(Connection) /\ Len(srv.streams) \in Nat
      /\ c2s \in [Client -> Seq(FromClient)] /\ s2c \in [Client -> Seq(Byte)]
      /\ link \in [Client -> {"none", "open", "shut"}]
  BY ServerTyped
<1>1. Served(c)' /\ Peer = c /\ Peer' = c /\ srv.pc # "exited"
  BY <1>0 DEF Served, Proper, Serving, Peer, ServerInv
<1>2. ~Waits(backlog, c) /\ IdleInv(c)
  BY AllFine DEF Fine, LinkInv
<1>3. k = 0 => d0 # c
  BY <1>0, <1>2, TailWaits
<1>4. \A d \in Client : d # d0 \/ k # 0 =>
        link'[d] = link[d] /\ c2s'[d] = c2s[d] /\ s2c'[d] = s2c[d]
  BY <1>0 DEF Shut, ToClient
<1>5. k = 0 => link'[d0] = "shut" /\ c2s'[d0] = <<>>
  BY <1>0 DEF Shut
<1>6. Fine(c)'
  <2>1. link'[c] = link[c] /\ c2s'[c] = c2s[c] /\ s2c'[c] = s2c[c]
    BY <1>3, <1>4
  <2>2. ASSUME Phase' # 6 PROVE OpenInv(c)'
    <3>1. Phase' = Phase /\ Phase # 6
      BY <2>2
    <3> DEFINE n == Len(srv.streams)
               top == Connections(c)
    <3>2. /\ Talk(Phase, cl[c].pc, cl[c].state, cl[c].stopped, s2c[c], c2s[c])
          /\ Queued(backlog, c, Phase, n, top, cl[c].pc, cl[c].next, s2c[c])
      BY <3>1, InPhase
    <3>3. d0 # c
      <4>1. d0 = c => ~NoneOf(backlog, c)
        BY <1>0, TailWaits
      <4> QED
        BY <3>2, <4>1 DEF Queued
    <3>4. n + 1 \in Nat /\ top \in Int /\ cl[c].next \in Nat
      <4>1. cl[c].next \in Nat
        BY <1>0 DEF ClientRecord
      <4> QED
        BY <1>0, <4>1, SetupOf
    <3> HIDE DEF n, top
    <3>5. /\ NoneOf(backlog, c) => NoneOf(backlog', c)
          /\ Single(backlog, c) => Single(backlog', c)
          /\ InOrder(backlog, c, n + 1) => InOrder(backlog', c, n + 1)
          /\ UpTo(backlog, c, top) => UpTo(backlog', c, top)
          /\ Before(backlog, c, n + 1, cl[c].next) => Before(backlog', c, n + 1, cl[c].next)
      <4>1. Head(backlog)[1] # c
        BY <3>3
      <4> QED
        BY <1>0, <3>4, <4>1, TailOther
    <3>6. Queued(backlog', c, Phase, n, top, cl[c].pc, cl[c].next, s2c[c])
      BY <3>2, <3>5 DEF Queued
    <3>7. PhaseOf(c)' = Phase /\ Connections(c)' = top /\ Len(srv'.streams) = n
      BY <1>1, <3>1 DEF PhaseOf, Connections, n, top
    <3> QED
      BY <2>1, <3>2, <3>6, <3>7 DEF OpenInv
  <2>3. Marks(c)
    BY DEF Marks
  <2> QED
    BY <1>1, <2>1, <2>2, <2>3, PeerKept
<1>7. ASSUME NEW d \in Client, d # c PROVE Fine(d)'
  <2>1. ~Served(d) /\ ~Served(d)'
    BY <1>1, <1>7 DEF Served
  <2>2. CASE d = d0 /\ k = 0
    <3>1. Head(backlog) = <<d, 0>> /\ Waits(backlog, d)
      BY <1>0, <2>2, TailWaits
    <3> QED
      BY <1>1, <1>5, <2>1, <2>2, <3>1, Bystander
  <2>3. CASE d # d0 \/ k # 0
    <3>1. Head(backlog) # <<d, 0>>
      BY <2>3
    <3> QED
      BY <1>1, <1>4, <2>1, <2>3, <3>1, Bystander
  <2> QED
    BY <2>2, <2>3
<1> QED
  BY <1>6, <1>7

LEMMA DenyMoves ==
    ASSUME AllInv, Deny \/ AcceptStranger
    PROVE  \A d \in Client : Fine(d)'
<1>0. srv \in ServerRecord /\ ServerInv /\ backlog \in Seq(Connection)
  BY ServerTyped
<1>1. /\ srv.pc = "select" /\ backlog # <<>> /\ backlog' = Tail(backlog)
      /\ UNCHANGED <<setup, cl>> /\ Serving
  BY DEF Deny, AcceptStranger, Proper
<1>2. PICK c \in Client : Peer = c /\ Served(c)
  BY <1>0, <1>1, ServerTyped DEF Served, ServerInv
<1>3. PICK d0 \in Client, k \in Nat : Head(backlog) = <<d0, k>>
  <2>1. Head(backlog) \in Connection
    BY <1>0, <1>1
  <2> QED
    BY <2>1 DEF Connection
<1>4. IF k = 0 THEN ToClient(d0, <<"ACCESS_DENIED">>) /\ Shut({d0})
      ELSE UNCHANGED <<c2s, s2c, link>>
  <2> DEFINE conn == Head(backlog)
  <2>1. IF conn[2] = 0 THEN ToClient(conn[1], <<"ACCESS_DENIED">>) /\ Shut({conn[1]})
        ELSE UNCHANGED <<c2s, s2c, link>>
    <3>1. CASE Deny
      BY <3>1 DEF Deny
    <3>2. CASE AcceptStranger
      BY <3>2 DEF AcceptStranger
    <3> QED
      BY <3>1, <3>2
  <2>2. conn = <<d0, k>>
    BY <1>3
  <2> HIDE DEF conn
  <2>3. conn[1] = d0 /\ conn[2] = k
    BY <2>2
  <2> QED
    BY <2>1, <2>3
<1>5. d0 = c => Phase \notin {0, 2}
  <2>1. CASE Deny
    BY <1>1, <2>1 DEF Deny, Phase
  <2>2. CASE AcceptStranger
    BY <1>2, <1>3, <2>2 DEF AcceptStranger
  <2> QED
    BY <2>1, <2>2
<1>6. /\ srv'.ctrl = srv.ctrl /\ srv'.streams = srv.streams
      /\ Phase' = Phase \/ (Phase' = 6 /\ Blamed(c)')
  <2>1. CASE UNCHANGED srv
    BY <2>1 DEF Phase
  <2>2. CASE AcceptStranger /\ srv' = GiveUp /\ SockoptsFail(srv.held)
    <3>1. srv'.pc = "cleanup" /\ srv'.ctrl = srv.ctrl /\ srv'.streams = srv.streams
      BY <1>1, <2>2, OnlyGivingUp DEF Open
    <3>2. "TOS" \in setup[c].asks
      BY <1>1, <1>2, <2>2 DEF AllInv, HeldInv, SockoptsFail, Kept, Serving
    <3> QED
      BY <1>1, <3>1, <3>2 DEF Phase, Blamed
  <2> QED
    BY <2>1, <2>2 DEF Deny, AcceptStranger
<1> QED
  BY <1>1, <1>2, <1>3, <1>4, <1>5, <1>6, TurnedAway

(* Every control connection is closed. *)
LEMMA AllLeave ==
    ASSUME AllInv, UNCHANGED <<setup, cl>>, backlog' = <<>>,
           Shut(Waiting \cup (IF Proper THEN {Peer} ELSE {})),
           srv'.ctrl = NULL, srv.pc # "exited",
           UNCHANGED s2c \/ (Proper /\ \E bytes : ToClient(Peer, bytes)),
           Proper /\ Phase # 6 => srv'.pc = "exited"
    PROVE  \A d \in Client : Fine(d)'
<1>0. /\ s2c \in [Client -> Seq(Byte)] /\ backlog \in Seq(Connection)
  BY ServerTyped
<1> TAKE d \in Client
<1>1. ~Served(d)'
  BY DEF Served, Proper, Serving
<1>2. d \in Waiting <=> Waits(backlog, d)
  BY <1>0, WaitingWaits
<1>3. CASE Served(d)
  <2>1. link'[d] = "shut" /\ c2s'[d] = <<>>
    BY <1>3 DEF Shut, Served
  <2>2. Marks(d)
    BY DEF Marks
  <2>3. Phase # 6 => Blamed(d)'
    BY <1>3 DEF Served, Blamed
  <2> QED
    BY <1>1, <1>3, <2>1, <2>2, <2>3, PeerLeft
<1>4. CASE ~Served(d)
  <2>1. s2c'[d] = s2c[d]
    BY <1>0, <1>4 DEF Served, ToClient
  <2>2. CASE Waits(backlog, d)
    <3>1. link'[d] = "shut" /\ c2s'[d] = <<>>
      BY <1>2, <2>2 DEF Shut
    <3> QED
      BY <1>1, <1>4, <2>2, <3>1, Bystander
  <2>3. CASE ~Waits(backlog, d)
    <3>1. link'[d] = link[d] /\ c2s'[d] = c2s[d]
      BY <1>2, <1>4, <2>3 DEF Shut, Served
    <3> QED
      BY <1>1, <1>4, <2>1, <2>3, <3>1, Bystander
  <2> QED
    BY <2>2, <2>3
<1> QED
  BY <1>3, <1>4

LEMMA EndMoves ==
    ASSUME AllInv, Cleanup \/ Killed \/ GraceEnds
    PROVE  \A d \in Client : Fine(d)'
<1>0. srv \in ServerRecord /\ cl \in [Client -> ClientRecord]
  BY ServerTyped
<1>1. CASE Cleanup
  <2>1. srv'.ctrl = NULL /\ srv.pc = "cleanup"
    BY <1>0, <1>1 DEF Cleanup, ServerRecord
  <2>2. Phase = 6
    BY <2>1 DEF Phase
  <2>3. /\ UNCHANGED <<setup, cl, s2c>> /\ backlog' = <<>>
        /\ Shut(Waiting \cup (IF Proper THEN {Peer} ELSE {}))
    BY <1>1 DEF Cleanup
  <2> QED
    BY <2>1, <2>2, <2>3, AllLeave
<1>2. CASE Killed
  <2>1. srv'.ctrl = NULL /\ srv.pc # "exited" /\ srv'.pc = "exited"
    BY <1>0, <1>2 DEF Killed, ServerRecord
  <2>2. /\ UNCHANGED <<setup, cl>> /\ backlog' = <<>>
        /\ Shut(Waiting \cup (IF Proper THEN {Peer} ELSE {}))
        /\ UNCHANGED s2c \/ (Proper /\ ToClient(Peer, <<"SERVER_TERMINATE">>))
    BY <1>2 DEF Killed
  <2> QED
    BY <2>1, <2>2, AllLeave
<1>3. CASE GraceEnds
  <2>1. /\ srv.pc = "select" /\ Proper /\ Shut({Peer}) /\ Late
        /\ UNCHANGED <<setup, backlog, s2c>>
    BY <1>3 DEF GraceEnds, Quiet
  <2>2. srv'.ctrl = NULL
    BY <1>0, <1>3 DEF GraceEnds, GiveUp, ServerRecord
  <2>3. PICK c \in Client : Peer = c
    BY <2>1, ServerTyped
  <2>4. \A d \in Client : ~Served(d)' /\ (Served(d) <=> d = c)
    BY <2>1, <2>2, <2>3 DEF Served, Proper, Serving
  <2>5. UNCHANGED cl \/ cl' = [cl EXCEPT ![c].trouble = TRUE]
    BY <2>1, <2>3 DEF Late
  <2>6. /\ Marks(c) /\ \A d \in Client : d # c => cl'[d] = cl[d]
        /\ cl' = [cl EXCEPT ![c].trouble = TRUE] => cl'[c].trouble
    BY <2>5, Marked1
  <2>7. cl[c].pc = "over" \/ cl'[c].trouble
    BY <2>1, <2>3, <2>6 DEF Late
  <2>8. Fine(c)'
    <3>1. link'[c] = "shut" /\ c2s'[c] = <<>>
      BY <2>1, <2>3 DEF Shut
    <3>2. cl[c].pc = "over" \/ Blamed(c)'
      BY <2>7 DEF Blamed
    <3> QED
      BY <2>1, <2>4, <2>6, <3>1, <3>2, PeerLeft
  <2>9. ASSUME NEW d \in Client, d # c PROVE Fine(d)'
    <3>1. link'[d] = link[d] /\ c2s'[d] = c2s[d] /\ s2c'[d] = s2c[d]
      BY <2>1, <2>3, <2>9 DEF Shut
    <3>2. srv.pc # "exited"
      BY <2>1
    <3> QED
      BY <2>1, <2>4, <2>6, <2>9, <3>1, <3>2, Bystander
  <2> QED
    BY <2>8, <2>9
<1> QED
  BY <1>1, <1>2, <1>3

(* The clients that are not served, in a move for the one that is: those    *)
(* whose control connection waits lose it when the backlog does.            *)
LEMMA Onlookers ==
    ASSUME AllInv, NEW c \in Client, Served(c), srv'.ctrl = srv.ctrl, UNCHANGED setup,
           NEW lost, NEW d \in Client, d # c, cl'[d] = cl[d],
           \/ lost = Waiting /\ backlog' = <<>>
           \/ /\ lost = {}
              /\ \/ UNCHANGED backlog
                 \/ /\ backlog # <<>> /\ backlog' = Tail(backlog)
                    /\ Head(backlog)[1] = c,
           link'[d] = IF d \in lost THEN "shut" ELSE link[d],
           c2s'[d] = IF d \in lost THEN <<>> ELSE c2s[d], s2c'[d] = s2c[d]
    PROVE  Fine(d)'
<1>0. backlog \in Seq(Connection)
  BY ServerTyped
<1>1. ~Served(d) /\ ~Served(d)' /\ srv.pc # "exited"
  BY ServerTyped DEF Served, ServerInv, Proper, Serving, Peer
<1>2. d \in Waiting <=> Waits(backlog, d)
  BY <1>0, WaitingWaits
<1>3. CASE d \in lost
  <2>1. /\ link'[d] = "shut" /\ c2s'[d] = <<>> /\ Waits(backlog, d) /\ backlog' = <<>>
    BY <1>2, <1>3
  <2> QED
    BY <1>1, <2>1, Bystander
<1>4. CASE d \notin lost
  <2>1. /\ link'[d] = link[d] /\ c2s'[d] = c2s[d] /\ s2c'[d] = s2c[d]
        /\ \/ UNCHANGED backlog
           \/ backlog # <<>> /\ backlog' = Tail(backlog) /\ Head(backlog) # <<d, 0>>
           \/ backlog' = <<>> /\ ~Waits(backlog, d)
    <3>1. Head(backlog)[1] = c => Head(backlog) # <<d, 0>>
      OBVIOUS
    <3> QED
      BY <1>2, <1>4, <3>1
  <2> QED
    BY <1>1, <2>1, Bystander
<1> QED
  BY <1>3, <1>4

(* The served client goes from one phase to the next. *)
LEMMA Advances ==
    ASSUME AllInv, NEW c \in Client, Served(c), srv'.ctrl = srv.ctrl, UNCHANGED setup,
           Phase' # 6, Marks(c), link'[c] = link[c],
           \/ UNCHANGED backlog \/ backlog' = <<>>
           \/ backlog # <<>> /\ backlog' = Tail(backlog),
           Talk(Phase', cl[c].pc, cl[c].state, cl[c].stopped, s2c'[c], c2s'[c]),
           Queued(backlog', c, Phase', Len(srv'.streams), Connections(c), cl[c].pc,
                  cl[c].next, s2c'[c])
    PROVE  Fine(c)'
<1>1. Served(c)'
  BY DEF Served, Proper, Serving, Peer
<1>2. PhaseOf(c)' = Phase' /\ Connections(c)' = Connections(c)
  BY <1>1 DEF PhaseOf, Connections
<1>3. OpenInv(c)'
  BY <1>2 DEF OpenInv, Marks
<1> QED
  BY <1>1, <1>3, PeerKept

(* What the served client finds on the way to it *)
LEMMA ToPeer ==
    ASSUME AllInv, NEW c \in Client, Served(c), Phase # 6, NEW bytes, ToClient(c, bytes)
    PROVE  /\ cl[c].pc # "over" => s2c'[c] = s2c[c] \o bytes
           /\ \A d \in Client : d # c => s2c'[d] = s2c[d]
<1>1. s2c \in [Client -> Seq(Byte)]
  BY ServerTyped
<1>2. cl[c].closed => cl[c].pc = "over"
  BY InPhase
<1> QED
  BY <1>1, <1>2 DEF ToClient

LEMMA CookieMove ==
    ASSUME AllInv, ReadCookie
    PROVE  \A d \in Client : Fine(d)'
<1>0. /\ srv \in ServerRecord /\ c2s \in [Client -> Seq(FromClient)]
      /\ backlog \in Seq(Connection)
  BY ServerTyped
<1>1. PICK c \in Client : Peer = c /\ Served(c)
  BY ServerTyped DEF ReadCookie, ServerInv, Served
<1> DEFINE t == c2s[c]
           u == IF Head(t) = "cookie" THEN Tail(t) ELSE <<"cut">> \o SubSeq(t, 3, Len(t))
<1>2. /\ srv.pc = "cookie" /\ HasCookie(t) /\ ToClient(c, <<"PARAM_EXCHANGE">>)
      /\ UNCHANGED <<setup, cl, backlog, link>> /\ c2s' = [c2s EXCEPT ![c] = u]
  BY <1>1 DEF ReadCookie, Bytes
<1>3. srv'.ctrl = srv.ctrl /\ srv'.pc = "params"
  BY <1>0 DEF ReadCookie, ServerRecord
<1>4. Phase = 0 /\ Phase' = 1
  BY <1>2, <1>3 DEF Phase
<1>5. /\ cl[c].pc # "over" => s2c'[c] = s2c[c] \o <<"PARAM_EXCHANGE">>
      /\ \A d \in Client : d # c => s2c'[d] = s2c[d]
  <2>1. Phase # 6 /\ ToClient(c, <<"PARAM_EXCHANGE">>)
    BY <1>2, <1>4
  <2> HIDE DEF t, u
  <2> QED
    BY <1>1, <2>1, ToPeer
<1>6. /\ Talk(0, cl[c].pc, cl[c].state, cl[c].stopped, s2c[c], t)
      /\ Queued(backlog, c, 0, Len(srv.streams), Connections(c), cl[c].pc,
                cl[c].next, s2c[c])
      /\ t \in Seq(FromClient)
  <2>1. Phase # 6
    BY <1>4
  <2> QED
    BY <1>1, <1>4, <2>1, InPhase
<1> HIDE DEF t, u
<1>7. Talk(1, cl[c].pc, cl[c].state, cl[c].stopped, s2c'[c], u)
  BY <1>2, <1>5, <1>6, TalkGreeted DEF u
<1>8. Queued(backlog', c, 1, Len(srv'.streams), Connections(c), cl[c].pc,
             cl[c].next, s2c'[c])
  <2>1. ~Waits(backlog, c)
    BY <1>1, AllFine DEF Fine, LinkInv
  <2>2. Single(backlog, c) /\ cl[c].next = 1
    BY <1>6 DEF Queued
  <2>3. NoneOf(backlog, c)
    <3> SUFFICES ASSUME NEW i \in 1..Len(backlog), backlog[i][1] = c PROVE FALSE
      BY DEF NoneOf
    <3>1. backlog[i] \in Connection /\ backlog[i][2] = 0
      BY <1>0, <2>2 DEF Single
    <3>2. backlog[i] = <<c, 0>>
      BY <3>1 DEF Connection
    <3> QED
      BY <2>1, <3>2 DEF Waits
  <2> QED
    BY <1>2, <2>2, <2>3 DEF Queued
<1>9. c2s'[c] = u /\ link'[c] = link[c]
  BY <1>0, <1>2
<1>10. Marks(c)
  BY <1>2 DEF Marks
<1>11. Fine(c)'
  BY <1>1, <1>2, <1>3, <1>4, <1>7, <1>8, <1>9, <1>10, Advances
<1>12. ASSUME NEW d \in Client, d # c PROVE Fine(d)'
  <2>1. c2s'[d] = c2s[d]
    BY <1>0, <1>2, <1>12
  <2>2. d \notin {}
    OBVIOUS
  <2> QED
    BY <1>1, <1>2, <1>3, <1>5, <1>12, <2>1, <2>2, Onlookers
<1> QED
  BY <1>11, <1>12

(* The server asks for the results, and sends its own. *)
LEMMA ResultsMoves ==
    ASSUME AllInv, HandleEnd \/ ReadResults
    PROVE  \A d \in Client : Fine(d)'
<1>0. /\ srv \in ServerRecord /\ c2s \in [Client -> Seq(FromClient)] /\ ServerInv
  BY ServerTyped
<1>1. PICK c \in Client : Peer = c /\ Served(c)
  BY ServerTyped DEF HandleEnd, ReadResults, ServerInv, Served
<1> DEFINE t == c2s[c]
           u == IF HandleEnd THEN Tail(t) ELSE SubSeq(t, 3, Len(t))
           bytes == IF HandleEnd THEN <<"EXCHANGE_RESULTS">>
                    ELSE <<"len", "json", "DISPLAY_RESULTS">>
<1>2. ~(HandleEnd /\ ReadResults)
  BY DEF HandleEnd, ReadResults
<1>3. /\ ToClient(c, bytes) /\ UNCHANGED <<setup, backlog, link>>
      /\ c2s' = [c2s EXCEPT ![c] = u]
  BY <1>1, <1>2 DEF HandleEnd, ReadResults, Bytes
<1>4. /\ srv'.ctrl = srv.ctrl /\ srv'.streams = srv.streams
      /\ Phase \in {2, 3, 4, 5} /\ Phase' \in {4, 5}
      /\ HandleEnd => Phase \in {2, 3, 5} /\ Phase' = 4
      /\ ReadResults => Phase = 4 /\ Phase' = 5
  <2>1. CASE HandleEnd
    <3>1. srv.pc = "select" /\ Serving
      BY <2>1 DEF HandleEnd, Proper
    <3>2. Phase \in {2, 3, 5}
      BY <1>0, <3>1 DEF Phase, ServerInv
    <3>3. srv'.ctrl = srv.ctrl /\ srv'.streams = srv.streams /\ srv'.pc = "results"
      BY <1>0, <2>1 DEF HandleEnd, ServerRecord
    <3>4. Phase' = 4
      BY <3>3 DEF Phase
    <3> QED
      BY <1>2, <2>1, <3>2, <3>3, <3>4
  <2>2. CASE ReadResults
    <3>1. /\ srv.pc = "results" /\ srv'.ctrl = srv.ctrl /\ srv'.streams = srv.streams
          /\ srv'.pc = "select" /\ srv'.state = "DISPLAY_RESULTS"
      BY <1>0, <2>2 DEF ReadResults, ServerRecord
    <3>2. Phase = 4 /\ Phase' = 5
      BY <3>1 DEF Phase
    <3> QED
      BY <1>2, <2>2, <3>1, <3>2
  <2> QED
    BY <2>1, <2>2
<1>5. Phase # 6 /\ Phase' # 6
  BY <1>4
<1>6. /\ cl[c].pc # "over" => s2c'[c] = s2c[c] \o bytes
      /\ \A d \in Client : d # c => s2c'[d] = s2c[d]
  BY <1>1, <1>3, <1>5, ToPeer
<1>7. /\ Talk(Phase, cl[c].pc, cl[c].state, cl[c].stopped, s2c[c], t)
      /\ Queued(backlog, c, Phase, Len(srv.streams), Connections(c), cl[c].pc,
                cl[c].next, s2c[c])
      /\ t \in Seq(FromClient)
  BY <1>1, <1>5, InPhase
<1>8. /\ Talk(Phase', cl[c].pc, cl[c].state, cl[c].stopped, s2c'[c], u)
      /\ Phase \in {3, 4}
  <2>1. CASE HandleEnd
    <3>1. t # <<>> /\ Head(t) = "TEST_END"
      BY <1>1, <2>1 DEF HandleEnd, Bytes
    <3>2. u = Tail(t) /\ bytes = <<"EXCHANGE_RESULTS">>
      BY <2>1
    <3> HIDE DEF t, u, bytes
    <3>3. cl[c].pc # "over" => s2c'[c] = s2c[c] \o <<"EXCHANGE_RESULTS">>
      BY <1>6, <3>2
    <3>4. Phase = 3 /\ Talk(4, cl[c].pc, cl[c].state, cl[c].stopped, s2c'[c], Tail(t))
      BY <1>7, <3>1, <3>3, TalkExchange
    <3> QED
      BY <1>4, <2>1, <3>2, <3>4
  <2>2. CASE ReadResults
    <3>1. Framed(t)
      BY <1>1, <2>2 DEF ReadResults, Bytes
    <3>2. u = SubSeq(t, 3, Len(t)) /\ bytes = <<"len", "json", "DISPLAY_RESULTS">>
      BY <1>2, <2>2
    <3>3. Phase = 4 /\ Phase' = 5
      BY <1>4, <2>2
    <3> HIDE DEF t, u, bytes
    <3>4. Talk(5, cl[c].pc, cl[c].state, cl[c].stopped, s2c'[c], SubSeq(t, 3, Len(t)))
      BY <1>6, <1>7, <3>1, <3>2, <3>3, TalkDisplay
    <3> QED
      BY <3>2, <3>3, <3>4
  <2> QED
    BY <2>1, <2>2
<1> HIDE DEF t, u, bytes
<1>9. Queued(backlog', c, Phase', Len(srv'.streams), Connections(c), cl[c].pc,
             cl[c].next, s2c'[c])
  BY <1>3, <1>4, <1>7, <1>8 DEF Queued
<1>10. c2s'[c] = u /\ link'[c] = link[c]
  BY <1>0, <1>3
<1>11. Marks(c) /\ \A d \in Client : d # c => cl'[d] = cl[d]
  <2>1. UNCHANGED cl \/ cl' = [cl EXCEPT ![c].finished = TRUE]
    BY <1>1 DEF HandleEnd, ReadResults
  <2> QED
    BY <2>1, Marked1
<1>12. Fine(c)'
  <2>1. Talk(Phase', cl[c].pc, cl[c].state, cl[c].stopped, s2c'[c], c2s'[c])
    BY <1>8, <1>10
  <2> QED
    BY <1>1, <1>3, <1>4, <1>5, <1>9, <1>10, <1>11, <2>1, Advances
<1>13. ASSUME NEW d \in Client, d # c PROVE Fine(d)'
  <2>1. c2s'[d] = c2s[d]
    BY <1>0, <1>3, <1>13
  <2>2. d \notin {}
    OBVIOUS
  <2> QED
    BY <1>1, <1>3, <1>4, <1>6, <1>11, <1>13, <2>1, <2>2, Onlookers
<1> QED
  BY <1>12, <1>13

LEMMA NoneIsOrdered ==
    ASSUME NEW b, NEW c, NoneOf(b, c)
    PROVE  /\ \A low : InOrder(b, c, low)
           /\ \A top : UpTo(b, c, top)
  BY DEF NoneOf, InOrder, UpTo

LEMMA ParamsMove ==
    ASSUME AllInv, ReadParams
    PROVE  \A d \in Client : Fine(d)'
<1>0. /\ srv \in ServerRecord /\ c2s \in [Client -> Seq(FromClient)]
      /\ link \in [Client -> {"none", "open", "shut"}]
      /\ backlog \in Seq(Connection) /\ ServerInv /\ StreamsInv
  BY ServerTyped
<1>1. PICK c \in Client : Peer = c /\ Served(c)
  BY ServerTyped DEF ReadParams, Served
<1> DEFINE t == c2s[c]
           u == SubSeq(t, 3, Len(t))
           held == Taken(srv.held, setup[c].asks)
           lost == IF Relisten(held) THEN Waiting ELSE {}
<1>2. /\ srv.pc = "params" /\ Framed(t) /\ UNCHANGED <<setup, cl>>
      /\ ToClient(c, <<"CREATE_STREAMS">>)
      /\ srv' = [srv EXCEPT !.pc = "select", !.state = "CREATE_STREAMS", !.held = held]
      /\ backlog' = IF Relisten(held) THEN <<>> ELSE backlog
      /\ link' = [d \in Client |-> IF d \in lost THEN "shut" ELSE link[d]]
  BY <1>1 DEF ReadParams, Bytes
<1>3. \A d \in Client :
        c2s'[d] = IF d \in lost THEN <<>>
                  ELSE IF d = c THEN SubSeq(c2s[d], 3, Len(c2s[d])) ELSE c2s[d]
  BY <1>1 DEF ReadParams
<1>4. \/ lost = Waiting /\ backlog' = <<>>
      \/ lost = {} /\ UNCHANGED backlog
  BY <1>2
<1>5. c \notin lost
  <2>1. ~Waits(backlog, c)
    BY <1>1, AllFine DEF Fine, LinkInv
  <2>2. c \notin Waiting
    BY <1>0, <2>1, WaitingWaits
  <2> HIDE DEF lost
  <2> QED
    BY <1>4, <2>2
<1>6. c2s'[c] = u /\ link'[c] = link[c]
  <2>1. link'[c] = link[c]
    BY <1>2, <1>5
  <2>2. c2s'[c] = SubSeq(c2s[c], 3, Len(c2s[c]))
    <3> HIDE DEF lost
    <3> QED
      BY <1>3, <1>5
  <2> QED
    BY <2>1, <2>2
<1>7. /\ srv'.ctrl = srv.ctrl /\ srv'.pc = "select" /\ srv'.state = "CREATE_STREAMS"
      /\ srv'.streams = srv.streams /\ srv.streams = <<>>
  <2>1. srv.streams = <<>>
    BY <1>0, <1>2 DEF StreamsInv
  <2> HIDE DEF held
  <2> QED
    BY <1>0, <1>2, <2>1 DEF ServerRecord
<1>8. Phase = 1 /\ Phase' = 2
  BY <1>2, <1>7 DEF Phase
<1>9. /\ cl[c].pc # "over" => s2c'[c] = s2c[c] \o <<"CREATE_STREAMS">>
      /\ \A d \in Client : d # c => s2c'[d] = s2c[d]
  <2>1. Phase # 6 /\ ToClient(c, <<"CREATE_STREAMS">>)
    BY <1>2, <1>8
  <2> HIDE DEF t, u
  <2> QED
    BY <1>1, <2>1, ToPeer
<1>10. /\ Talk(1, cl[c].pc, cl[c].state, cl[c].stopped, s2c[c], t)
       /\ NoneOf(backlog, c) /\ cl[c].next = 1 /\ t \in Seq(FromClient)
  <2>1. Phase # 6
    BY <1>8
  <2>2. Queued(backlog, c, 1, Len(srv.streams), Connections(c), cl[c].pc,
               cl[c].next, s2c[c])
    BY <1>1, <1>8, <2>1, InPhase
  <2> QED
    BY <1>1, <1>8, <2>1, <2>2, InPhase DEF Queued
<1>11. /\ Talk(2, cl[c].pc, cl[c].state, cl[c].stopped, s2c'[c], u)
       /\ cl[c].pc # "over" => cl[c].pc = "select" /\ s2c'[c] # <<>>
  <2>1. Framed(t)
    BY <1>2
  <2> HIDE DEF t
  <2> QED
    BY <1>9, <1>10, <2>1, TalkCreate
<1>12. Queued(backlog', c, 2, Len(srv'.streams), Connections(c), cl[c].pc,
              cl[c].next, s2c'[c])
  <2>1. NoneOf(backlog', c)
    BY <1>2, <1>10, NothingWaits
  <2>2. Len(srv'.streams) = 0
    BY <1>7
  <2>3. cl[c].pc # "streams"
    BY <1>11
  <2> QED
    BY <1>10, <2>1, <2>2, <2>3, NoneIsOrdered DEF Queued
<1>13. Marks(c)
  BY <1>2 DEF Marks
<1> HIDE DEF t, u, held, lost
<1>14. Fine(c)'
  <2>1. Talk(Phase', cl[c].pc, cl[c].state, cl[c].stopped, s2c'[c], c2s'[c])
    BY <1>6, <1>8, <1>11
  <2>2. Queued(backlog', c, Phase', Len(srv'.streams), Connections(c), cl[c].pc,
               cl[c].next, s2c'[c])
    BY <1>8, <1>12
  <2>3. Phase' # 6
    BY <1>8
  <2> QED
    BY <1>1, <1>2, <1>4, <1>6, <1>7, <1>13, <2>1, <2>2, <2>3, Advances
<1>15. ASSUME NEW d \in Client, d # c PROVE Fine(d)'
  <2>1. link'[d] = IF d \in lost THEN "shut" ELSE link[d]
    BY <1>2
  <2>2. c2s'[d] = IF d \in lost THEN <<>> ELSE c2s[d]
    BY <1>3, <1>15
  <2>3. cl'[d] = cl[d] /\ s2c'[d] = s2c[d] /\ UNCHANGED setup /\ srv'.ctrl = srv.ctrl
    BY <1>2, <1>7, <1>9, <1>15
  <2> QED
    BY <1>1, <1>4, <1>15, <2>1, <2>2, <2>3, Onlookers
<1> QED
  BY <1>14, <1>15

(* One stream more, and the last of them starts the test. *)
LEMMA StreamMove ==
    ASSUME AllInv, AcceptStream
    PROVE  \A d \in Client : Fine(d)'
<1>0. /\ srv \in ServerRecord /\ c2s \in [Client -> Seq(FromClient)]
      /\ link \in [Client -> {"none", "open", "shut"}] /\ setup \in Setups
      /\ s2c \in [Client -> Seq(Byte)] /\ cl \in [Client -> ClientRecord]
      /\ backlog \in Seq(Connection) /\ srv.streams \in Seq(Stream)
  BY ServerTyped
<1>1. PICK c \in Client : Peer = c /\ Served(c)
  BY ServerTyped DEF AcceptStream, Served
<1> DEFINE n == Len(srv.streams)
           top == Connections(c)
           fresh == Relisten(srv.held) /\ n + 1 = top
           lost == IF fresh THEN Waiting ELSE {}
<1>2. /\ Phase = 2 /\ Head(backlog) = <<c, n + 1>> /\ n + 1 \in 1..top
      /\ InOrder(Tail(backlog), c, n + 2) /\ top \in Nat \ {0} /\ n \in Nat
      /\ backlog # <<>>
  <2>1. backlog # <<>>
    BY DEF AcceptStream
  <2> QED
    BY <1>0, <1>1, <2>1, NextStream
<1>3. /\ Talk(2, cl[c].pc, cl[c].state, cl[c].stopped, s2c[c], c2s[c])
      /\ InOrder(backlog, c, n + 1) /\ UpTo(backlog, c, top)
      /\ cl[c].pc = "streams" => Before(backlog, c, n + 1, cl[c].next)
      /\ cl[c].pc = "select" => s2c[c] = <<>>
      /\ cl[c].next \in Nat
  <2>1. Phase # 6
    BY <1>2
  <2>2. Queued(backlog, c, 2, n, top, cl[c].pc, cl[c].next, s2c[c])
    BY <1>1, <1>2, <2>1, InPhase
  <2>3. Talk(2, cl[c].pc, cl[c].state, cl[c].stopped, s2c[c], c2s[c])
    BY <1>1, <1>2, <2>1, InPhase
  <2>4. ~NoneOf(backlog, c)
    BY <1>0, <1>2, TailWaits
  <2>5. cl[c].next \in Nat
    BY <1>0 DEF ClientRecord
  <2> QED
    BY <2>2, <2>3, <2>4, <2>5 DEF Queued
<1>4. PICK new \in Stream :
        IF n + 1 = top
          THEN /\ srv' = [srv EXCEPT !.state = "TEST_RUNNING",
                                     !.streams = Append(srv.streams, new),
                                     !.workers = TRUE, !.done = FALSE]
               /\ ToClient(c, <<"TEST_START", "TEST_RUNNING">>)
               /\ Shut(lost)
          ELSE /\ srv' = [srv EXCEPT !.streams = Append(srv.streams, new)]
               /\ UNCHANGED <<c2s, s2c, link>>
  <2> DEFINE new == [owner |-> c, conn |-> Head(backlog)[2], id |-> NewId(n),
                     sender |-> ServerSends(c, n + 1)]
  <2>1. new \in Stream
    <3>1. ServerSends(c, n + 1) \in BOOLEAN
      BY DEF ServerSends
    <3>2. NewId(n) \in Nat
      BY <1>2 DEF NewId
    <3>3. Head(backlog)[2] \in Nat
      BY <1>2
    <3> QED
      BY <3>1, <3>2, <3>3 DEF Stream
  <2>2. IF n + 1 = top THEN Starts(Append(srv.streams, new), lost)
        ELSE /\ srv' = [srv EXCEPT !.streams = Append(srv.streams, new)]
             /\ UNCHANGED <<c2s, s2c, link>>
    BY <1>1 DEF AcceptStream
  <2> HIDE DEF new
  <2> QED
    BY <1>1, <2>1, <2>2 DEF Starts
<1>5. /\ UNCHANGED <<setup, cl>>
      /\ backlog' = IF fresh THEN <<>> ELSE Tail(backlog)
  BY <1>1 DEF AcceptStream
<1>6. /\ srv'.ctrl = srv.ctrl /\ srv'.pc = "select" /\ Len(srv'.streams) = n + 1
      /\ srv'.state = IF n + 1 = top THEN "TEST_RUNNING" ELSE "CREATE_STREAMS"
  <2>1. srv.pc = "select" /\ srv.state = "CREATE_STREAMS"
    BY DEF AcceptStream
  <2>2. Len(Append(srv.streams, new)) = n + 1
    BY <1>0, <1>4
  <2> DEFINE more == Append(srv.streams, new)
  <2>3. srv'.streams = more /\ srv'.ctrl = srv.ctrl /\ srv'.pc = srv.pc
        /\ srv'.state = IF n + 1 = top THEN "TEST_RUNNING" ELSE srv.state
    <3> HIDE DEF more, n, top, lost
    <3> QED
      BY <1>0, <1>4 DEF ServerRecord, more
  <2> QED
    BY <2>1, <2>2, <2>3
<1>7. Phase' = IF n + 1 = top THEN 3 ELSE 2
  BY <1>6 DEF Phase
<1>8. \/ lost = Waiting /\ backlog' = <<>>
      \/ lost = {} /\ backlog' = Tail(backlog)
  BY <1>5
<1>9. c \notin lost
  <2>1. ~Waits(backlog, c)
    BY <1>1, AllFine DEF Fine, LinkInv
  <2>2. c \notin Waiting
    BY <1>0, <2>1, WaitingWaits
  <2> HIDE DEF lost
  <2> QED
    BY <1>8, <2>2
<1>10. \A d \in Client : /\ link'[d] = IF d \in lost THEN "shut" ELSE link[d]
                         /\ c2s'[d] = IF d \in lost THEN <<>> ELSE c2s[d]
  <2>1. CASE n + 1 = top
    BY <1>4, <2>1 DEF Shut
  <2>2. CASE n + 1 # top
    BY <1>4, <2>2
  <2> QED
    BY <2>1, <2>2
<1>11. /\ n + 1 = top /\ cl[c].pc # "over"
            => s2c'[c] = s2c[c] \o <<"TEST_START", "TEST_RUNNING">>
       /\ n + 1 # top => s2c'[c] = s2c[c]
       /\ \A d \in Client : d # c => s2c'[d] = s2c[d]
  <2>1. CASE n + 1 = top
    <3>1. ToClient(c, <<"TEST_START", "TEST_RUNNING">>) /\ Phase # 6
      BY <1>2, <1>4, <2>1
    <3> HIDE DEF n, top
    <3> QED
      BY <1>1, <2>1, <3>1, ToPeer
  <2>2. CASE n + 1 # top
    BY <1>4, <2>2
  <2> QED
    BY <2>1, <2>2
<1>12. c2s'[c] = c2s[c] /\ link'[c] = link[c]
  BY <1>9, <1>10
<1>13. Head(backlog)[1] = c /\ Len(srv'.streams) + 1 = n + 2 /\ (n + 1) + 1 = n + 2
  BY <1>2, <1>6
<1> HIDE DEF n, top, fresh, lost
<1>14. n + 1 = top => NoneOf(backlog', c) /\ cl[c].pc # "streams"
  <2> SUFFICES ASSUME n + 1 = top PROVE NoneOf(backlog', c) /\ cl[c].pc # "streams"
    OBVIOUS
  <2>1. n + 1 \in Nat
    BY <1>2
  <2>2. NoneOf(Tail(backlog), c)
    BY <1>0, <1>2, <1>3, <1>13, <2>1, LastOfAll
  <2>3. NoneOf(backlog', c)
    BY <1>5, <2>2, NothingWaits
  <2>4. cl[c].pc # "streams"
    <3> SUFFICES ASSUME Before(backlog, c, n + 1, cl[c].next) PROVE FALSE
      BY <1>3
    <3>1. PICK i \in 1..Len(backlog) : backlog[i] = <<c, n + 1>>
      <4>1. Head(backlog) = backlog[1] /\ 1 \in 1..Len(backlog)
        BY <1>0, <1>2, TailFacts
      <4> QED
        BY <1>2, <4>1
    <3>2. n + 1 <= cl[c].next - 1
      <4>1. backlog[i][1] = c /\ backlog[i][2] = n + 1
        BY <3>1
      <4> QED
        BY <4>1 DEF Before, UpTo
    <3>3. cl[c].next <= top
      <4>1. cl[c].next \in 1..Connections(c)
        BY TypesFollow DEF AllInv, TypeOK
      <4>2. cl[c].next \in 1..top
        BY <4>1 DEF top
      <4> QED
        BY <1>2, <4>2
    <3> QED
      BY <1>2, <1>3, <3>2, <3>3
  <2> QED
    BY <2>3, <2>4
<1>15. Talk(Phase', cl[c].pc, cl[c].state, cl[c].stopped, s2c'[c], c2s'[c])
  <2>1. CASE n + 1 = top
    <3>1. cl[c].pc # "over" => cl[c].pc = "select" /\ s2c[c] = <<>>
      <4>1. cl[c].pc # "over" => Place(2, cl[c].pc, s2c[c])
        BY <1>3 DEF Talk
      <4>2. cl[c].pc # "over" => cl[c].pc \in {"select", "streams"}
        BY <4>1 DEF Place
      <4> QED
        BY <1>3, <1>14, <2>1, <4>2
    <3>2. cl[c].pc # "over" =>
            s2c'[c] = s2c[c] \o <<"TEST_START", "TEST_RUNNING">>
      BY <1>11, <2>1
    <3>3. Talk(3, cl[c].pc, cl[c].state, cl[c].stopped, s2c'[c], c2s[c])
      BY <1>0, <1>3, <3>1, <3>2, TalkStart
    <3> QED
      BY <1>7, <1>12, <2>1, <3>3
  <2>2. CASE n + 1 # top
    BY <1>3, <1>7, <1>11, <1>12, <2>2
  <2> QED
    BY <2>1, <2>2
<1>16. Queued(backlog', c, Phase', Len(srv'.streams), top, cl[c].pc, cl[c].next, s2c'[c])
  <2>1. CASE n + 1 = top
    BY <1>7, <1>14, <2>1 DEF Queued
  <2>2. CASE n + 1 # top
    <3>1. backlog' = Tail(backlog)
      BY <1>5, <2>2 DEF fresh
    <3>2. UpTo(backlog', c, top)
      <4>1. top \in Int
        BY <1>2
      <4>2. UpTo(Tail(backlog), c, top)
        BY <1>0, <1>2, <1>3, <1>13, <4>1, TailOwn
      <4> QED
        BY <3>1, <4>2
    <3>3. cl[c].pc = "streams" => Before(backlog', c, n + 2, cl[c].next)
      <4>1. n + 1 \in Nat
        BY <1>2
      <4>2. cl[c].pc = "streams" => Before(Tail(backlog), c, (n + 1) + 1, cl[c].next)
        BY <1>0, <1>2, <1>3, <1>13, <4>1, TailOwn
      <4> QED
        BY <1>13, <3>1, <4>2
    <3>4. Phase' = 2 /\ s2c'[c] = s2c[c] /\ InOrder(backlog', c, n + 2)
      BY <1>2, <1>7, <1>11, <2>2, <3>1
    <3> QED
      BY <1>3, <1>13, <3>2, <3>3, <3>4 DEF Queued
  <2> QED
    BY <2>1, <2>2
<1>17. Marks(c)
  BY <1>5 DEF Marks
<1>18. Fine(c)'
  <2>1. Phase' # 6
    BY <1>7
  <2>2. \/ backlog' = <<>>
        \/ backlog # <<>> /\ backlog' = Tail(backlog)
    BY <1>2, <1>5
  <2> QED
    BY <1>1, <1>5, <1>6, <1>12, <1>15, <1>16, <1>17, <2>1, <2>2, Advances DEF top
<1>19. ASSUME NEW d \in Client, d # c PROVE Fine(d)'
  <2>1. \/ lost = Waiting /\ backlog' = <<>>
        \/ /\ lost = {} /\ backlog # <<>> /\ backlog' = Tail(backlog)
           /\ Head(backlog)[1] = c
    BY <1>2, <1>8, <1>13
  <2>2. /\ cl'[d] = cl[d] /\ s2c'[d] = s2c[d] /\ UNCHANGED setup /\ srv'.ctrl = srv.ctrl
        /\ link'[d] = IF d \in lost THEN "shut" ELSE link[d]
        /\ c2s'[d] = IF d \in lost THEN <<>> ELSE c2s[d]
    BY <1>5, <1>6, <1>10, <1>11, <1>19
  <2> QED
    BY <1>1, <1>19, <2>1, <2>2, Onlookers
<1> QED
  BY <1>18, <1>19

LEMMA ServerFine ==
    ASSUME AllInv, ServerMove, srv'.pc # "gone"
    PROVE  \A d \in Client : Fine(d)'
<1>1. CASE \/ Listen \/ ListenFails \/ Reset \/ IdleRestart
           \/ (AcceptFails \/ ReadTimesOut) /\ ~Proper
  BY <1>1, IdleMoves
<1>2. CASE \/ RelistenFails \/ NewStreamFails \/ HandleDone \/ ReadGarbled
           \/ ReceiveTimesOut
           \/ (AcceptFails \/ ReadTimesOut) /\ Proper
  BY <1>2, GiveUpMoves
<1>3. CASE Accept
  BY <1>3, AcceptMove
<1>4. CASE Deny \/ AcceptStranger
  BY <1>4, DenyMoves
<1>5. CASE Cleanup \/ Killed \/ GraceEnds
  BY <1>5, EndMoves
<1>6. CASE ReadCookie
  BY <1>6, CookieMove
<1>7. CASE HandleEnd \/ ReadResults
  BY <1>7, ResultsMoves
<1>8. CASE ReadParams
  BY <1>8, ParamsMove
<1>9. CASE AcceptStream
  BY <1>9, StreamMove
<1>10. ~ServerVanishes
  BY ServerTyped DEF ServerVanishes, ServerRecord
<1>11. \/ Listen \/ ListenFails \/ Reset \/ IdleRestart \/ AcceptFails
       \/ ReadTimesOut \/ RelistenFails \/ NewStreamFails \/ HandleDone
       \/ ReadGarbled \/ ReceiveTimesOut \/ Accept \/ Deny \/ AcceptStranger
       \/ Cleanup \/ Killed \/ GraceEnds \/ ReadCookie \/ HandleEnd
       \/ ReadResults \/ ReadParams \/ AcceptStream
  BY <1>10 DEF ServerMove, ServerStep, Handle, Read, TimeOut
<1>12. CASE AcceptFails \/ ReadTimesOut
  BY <1>1, <1>2, <1>12
<1> QED
  BY <1>1, <1>2, <1>3, <1>4, <1>5, <1>6, <1>7, <1>8, <1>9, <1>11, <1>12

LEMMA ServerProtocol ==
    ASSUME AllInv, ServerMove, srv'.pc # "gone"
    PROVE  ProtocolInv'
<1>1. c2s' \in [Client -> Seq(FromClient)] /\ ServerInv' /\ StreamsInv'
  BY SentBytes, ServerMoveInv, ServerMoveStreams
<1>2. \A d \in Client : Fine(d)'
  BY ServerFine
<1> QED
  BY <1>1, <1>2 DEF ProtocolInv, Sessions, Fine

LEMMA InitProtocol == Init => ProtocolInv
<1> SUFFICES ASSUME Init PROVE ProtocolInv
  OBVIOUS
<1>1. /\ srv.pc = "listen" /\ srv.state = "NEW" /\ srv.ctrl = NULL
      /\ srv.streams = <<>> /\ ~srv.workers /\ backlog = <<>>
  BY DEF Init
<1>2. \A c \in Client :
        /\ cl[c].pc = "idle" /\ cl[c].state = "NEW" /\ cl[c].next = 1
        /\ ~cl[c].closed /\ ~cl[c].stopped /\ ~cl[c].accepted
        /\ cl[c].outcome = "none" /\ link[c] = "none"
        /\ c2s[c] = <<>> /\ s2c[c] = <<>>
  BY DEF Init
<1>3. ~Serving /\ ~Proper /\ \A c : ~Served(c)
  BY <1>1 DEF Serving, Proper, Served
<1>4. c2s \in [Client -> Seq(FromClient)]
  <2>1. <<>> \in Seq(FromClient)
    OBVIOUS
  <2> QED
    BY <2>1 DEF Init
<1>5. ServerInv /\ StreamsInv
  BY <1>1, <1>3 DEF ServerInv, StreamsInv, StreamsPaired, Open
<1>6. Sessions
  BY <1>2 DEF Sessions
<1>7. \A c \in Client : ~Waits(backlog, c) /\ NoneOf(backlog, c)
  BY <1>1, NothingWaits
<1>8. \A c \in Client : IdleInv(c) /\ LinkInv(c) /\ FairInv(c)
  BY <1>2, <1>3, <1>7 DEF IdleInv, LinkInv, FairInv
<1> QED
  BY <1>4, <1>5, <1>6, <1>8 DEF ProtocolInv

LEMMA ProtocolStep ==
    ASSUME AllInv, [Next]_vars, srv'.pc # "gone"
    PROVE  ProtocolInv'
<1>1. ASSUME NEW c \in Client, ClientMove(c) PROVE ProtocolInv'
  BY <1>1, ClientProtocol
<1>2. CASE ServerMove
  BY <1>2, ServerProtocol
<1>3. CASE UNCHANGED vars
  <2>1. UNCHANGED <<setup, cl, srv, backlog, c2s, s2c, link>>
    BY <1>3 DEF vars
  <2>2. ProtocolInv
    BY DEF AllInv
  <2>3. ServerInv' /\ StreamsInv' /\ c2s' \in [Client -> Seq(FromClient)]
    BY <2>1, <2>2, ServerKeeps DEF ProtocolInv
  <2>4. ASSUME NEW c \in Client
        PROVE  Served(c)' = Served(c) /\ Phase' = Phase /\ PhaseOf(c)' = PhaseOf(c)
    BY <2>1 DEF Served, Proper, Serving, Peer, Phase, PhaseOf
  <2>5. \A c \in Client : IdleInv(c)' /\ LinkInv(c)' /\ FairInv(c)'
    BY <2>1, <2>2, <2>4 DEF ProtocolInv, IdleInv, LinkInv, FairInv, Blamed
  <2>6. Sessions'
    BY <2>1, <2>2, <2>4 DEF ProtocolInv, Sessions, OpenInv, Connections
  <2> QED
    BY <2>3, <2>5, <2>6 DEF ProtocolInv
<1> QED
  BY <1>1, <1>2, <1>3 DEF Next, ClientMove, ServerMove

(* A server that has vanished serves nobody, and it stays away. *)
LEMMA GoneStep ==
    ASSUME TypeInv, [Next]_vars, srv.pc = "gone" => ~Serving
    PROVE  /\ srv'.pc = "gone" => ~Serving'
           /\ srv'.pc # "gone" => srv.pc # "gone"
<1>1. srv \in ServerRecord
  BY DEF TypeInv
<1>2. CASE UNCHANGED srv
  BY <1>2 DEF Serving
<1>3. CASE ServerVanishes
  <2>1. srv'.pc = "gone" /\ srv'.ctrl = NULL
    BY <1>1, <1>3 DEF ServerVanishes, ServerRecord
  <2> QED
    BY <2>1 DEF Serving
<1>4. CASE ServerMove /\ ~ServerVanishes /\ srv' # srv
  <2>1. srv.pc # "gone"
    BY <1>4 DEF ServerMove, ServerStep, Listen, Accept, Deny, AcceptStream,
                AcceptStranger, Handle, HandleEnd, HandleDone, Read, ReadCookie,
                ReadParams, ReadResults, ReadTimesOut, ReadGarbled, TimeOut,
                ReceiveTimesOut, GraceEnds, Quiet, Cleanup, Reset, ListenFails,
                AcceptFails, RelistenFails, NewStreamFails, IdleRestart, Killed
  <2>2. srv'.pc # "gone"
    <3>1. CASE AcceptStream
      <4>1. \E streams : \/ srv' = [srv EXCEPT !.streams = streams]
                         \/ srv' = [srv EXCEPT !.state = "TEST_RUNNING",
                                 !.streams = streams, !.workers = TRUE, !.done = FALSE]
        BY <3>1 DEF AcceptStream, Starts
      <4> QED
        BY <1>1, <2>1, <4>1 DEF ServerRecord
    <3>2. CASE Accept
      <4>1. \E conn : \/ srv' = [srv EXCEPT !.pc = "cookie", !.ctrl = conn]
                      \/ srv' = [srv EXCEPT !.pc = "params", !.ctrl = conn,
                                            !.state = "PARAM_EXCHANGE"]
        BY <3>2 DEF Accept
      <4> QED
        BY <1>1, <4>1 DEF ServerRecord
    <3>3. CASE ReadParams
      <4>1. \E held : srv' = [srv EXCEPT !.pc = "select", !.state = "CREATE_STREAMS",
                                         !.held = held]
        BY <3>3 DEF ReadParams
      <4> QED
        BY <1>1, <4>1 DEF ServerRecord
    <3>4. CASE RelistenFails \/ HandleDone
      <4>1. \E state : srv' = [GiveUp EXCEPT !.state = state]
        BY <3>4 DEF RelistenFails, HandleDone
      <4> QED
        BY <1>1, <4>1 DEF GiveUp, ServerRecord
    <3>5. CASE srv' = GiveUp
      BY <1>1, <3>5 DEF GiveUp, ServerRecord
    <3>6. CASE Listen \/ ListenFails \/ Cleanup \/ Reset \/ Killed \/ GraceEnds
      BY <1>1, <3>6 DEF Listen, ListenFails, Cleanup, Reset, ResetTest, Killed,
                        GraceEnds, GiveUp, ServerRecord
    <3>7. CASE HandleEnd \/ ReadCookie \/ ReadResults
      BY <1>1, <3>7 DEF HandleEnd, ReadCookie, ReadResults, ServerRecord
    <3> QED
      BY <1>4, <3>1, <3>2, <3>3, <3>4, <3>5, <3>6, <3>7
      DEF ServerMove, ServerStep, Deny, AcceptStranger, Handle, Read, ReadTimesOut,
          ReadGarbled, TimeOut, ReceiveTimesOut, AcceptFails, NewStreamFails,
          IdleRestart
  <2> QED
    BY <2>1, <2>2
<1>5. ASSUME NEW c \in Client, ClientMove(c) PROVE UNCHANGED srv
  BY <1>5 DEF ClientMove, ClientStep, Dial, SendCookie, Receive, Finish, Refused,
      SendLength, SendBody, ConnectStream, StreamRefused, Expire, SendEnd, GetResults,
      WakeUp, LinkLost, GivesUp, TimesOut, Stop, Terminate, Vanish
<1> QED
  BY <1>2, <1>3, <1>4, <1>5 DEF Next, ClientMove, ServerMove, vars

(* Until the server vanishes everything holds; after that it serves nobody. *)
KeptInv ==
    /\ TypeInv /\ HeldInv /\ DoneInv
    /\ srv.pc = "gone" => ~Serving
    /\ srv.pc # "gone" => ProtocolInv

(* Together with what SessionProofs shows, the invariant is inductive. *)
LEMMA InductiveInvariant == Spec => []KeptInv
<1>1. Init => KeptInv
  <2>1. Init => srv.pc # "gone"
    BY DEF Init
  <2> QED
    BY <2>1, InitTypes, InitDone, InitProtocol DEF KeptInv
<1>2. KeptInv /\ [Next]_vars => KeptInv'
  <2> SUFFICES ASSUME KeptInv, [Next]_vars PROVE KeptInv'
    OBVIOUS
  <2>1. TypeInv' /\ HeldInv' /\ DoneInv'
    BY StepTypes, HeldStep, DoneStep DEF KeptInv
  <2>2. /\ srv'.pc = "gone" => ~Serving'
        /\ srv'.pc # "gone" => AllInv
    BY GoneStep DEF KeptInv, AllInv
  <2> QED
    BY <2>1, <2>2, ProtocolStep DEF KeptInv
<1> QED
  BY <1>1, <1>2, PTL DEF Spec

-----------------------------------------------------------------------------
(* What the invariant says to somebody who uses the program *)

(* The streams of a server are the connections of the client it serves, in  *)
(* the order the client made them, each sent on by one end: iperf_accept    *)
(* and the loop of iperf_run_server never take a stranger's connection, a   *)
(* connection twice or one out of turn, and start no thread before all are  *)
(* there.                                                                   *)
THEOREM StreamsArePaired == Spec => []StreamsPaired
<1>1. KeptInv => StreamsPaired
  BY DEF KeptInv, ProtocolInv, StreamsInv, StreamsPaired, Proper
<1> QED
  BY <1>1, InductiveInvariant, PTL

(* A client that the server has accepted fails only when it was stopped,    *)
(* killed, slow or cut off, or the server was, whatever the other clients   *)
(* do meanwhile, but for two things iperf_accept and iperf_tcp_accept do    *)
(* with somebody else's connection: one that fails while it is accepted     *)
(* ends the session, and one that is denied ends a session with a TOS.      *)
THEOREM OthersDoNoHarm == Spec => []IntruderHarmless
<1>1. KeptInv => IntruderHarmless
  <2> SUFFICES ASSUME KeptInv, NEW c \in Client, cl[c].accepted,
                      cl[c].outcome = "failed", srv.pc # "gone"
               PROVE  Blamed(c)
    BY DEF IntruderHarmless, Blamed
  <2> QED
    BY DEF KeptInv, ProtocolInv, FairInv
<1> QED
  BY <1>1, InductiveInvariant, PTL

LEMMA Ranks ==
    /\ Rank["NEW"] = 0 /\ Rank["PARAM_EXCHANGE"] = 1 /\ Rank["CREATE_STREAMS"] = 2
    /\ Rank["TEST_START"] = 3 /\ Rank["TEST_RUNNING"] = 4 /\ Rank["TEST_END"] = 4
    /\ Rank["EXCHANGE_RESULTS"] = 5 /\ Rank["DISPLAY_RESULTS"] = 6
  BY DEF Rank

(* The announcements in q are those of the ranks from low to high. *)
Announced(q, low, high) ==
    LET said == {i \in DOMAIN q : q[i] \in Announcement}
    IN /\ \A i, j \in said : i < j => Rank[q[i]] < Rank[q[j]]
       /\ {Rank[q[i]] : i \in said} = low..high

LEMMA AnnouncedNone ==
    ASSUME NEW s, s = <<>>, NEW a, NEW b, Rank[a] \in Nat, Rank[b] = Rank[a]
    PROVE  Announced(s, Rank[a] + 1, Rank[b])
<1>1. {i \in DOMAIN s : s[i] \in Announcement} = {}
  OBVIOUS
<1>2. (Rank[a] + 1)..Rank[b] = {}
  OBVIOUS
<1> QED
  BY <1>1, <1>2 DEF Announced

LEMMA AnnouncedOne ==
    ASSUME NEW s, NEW m \in Announcement, s = <<m>>, NEW a, Rank[a] \in Nat,
           Rank[m] = Rank[a] + 1
    PROVE  Announced(s, Rank[a] + 1, Rank[m])
<1> DEFINE said == {i \in DOMAIN s : s[i] \in Announcement}
<1>1. said = {1} /\ s[1] = m
  OBVIOUS
<1>2. (Rank[a] + 1)..Rank[m] = {Rank[m]}
  OBVIOUS
<1>3. {Rank[s[i]] : i \in said} = (Rank[a] + 1)..Rank[m]
  BY <1>1, <1>2
<1>4. \A i, j \in said : i < j => Rank[s[i]] < Rank[s[j]]
  BY <1>1
<1> QED
  BY <1>3, <1>4 DEF Announced

LEMMA AnnouncedTest ==
    Announced(<<"TEST_START", "TEST_RUNNING">>, 3, 4)
<1> DEFINE q == <<"TEST_START", "TEST_RUNNING">>
           said == {i \in DOMAIN q : q[i] \in Announcement}
<1>1. said = {1, 2} /\ q[1] = "TEST_START" /\ q[2] = "TEST_RUNNING"
  BY DEF Announcement
<1> HIDE DEF q
<1>2. {Rank[q[i]] : i \in said} = 3..4
  <2>1. {Rank[q[i]] : i \in said} = {3, 4}
    BY <1>1, Ranks
  <2>2. 3..4 = {3, 4}
    OBVIOUS
  <2> QED
    BY <2>1, <2>2
<1>3. \A i, j \in said : i < j => Rank[q[i]] < Rank[q[j]]
  BY <1>1, Ranks
<1> QED
  BY <1>2, <1>3 DEF Announced, q

LEMMA AnnouncedLast ==
    Announced(<<"len", "json", "DISPLAY_RESULTS">>, 6, 6)
<1> DEFINE q == <<"len", "json", "DISPLAY_RESULTS">>
           said == {i \in DOMAIN q : q[i] \in Announcement}
<1>1. said = {3} /\ q[3] = "DISPLAY_RESULTS"
  BY DEF Announcement
<1> HIDE DEF q
<1>2. {Rank[q[i]] : i \in said} = 6..6
  <2>1. {Rank[q[i]] : i \in said} = {6}
    BY <1>1, Ranks
  <2>2. 6..6 = {6}
    OBVIOUS
  <2> QED
    BY <2>1, <2>2
<1>3. \A i, j \in said : i < j => Rank[q[i]] < Rank[q[j]]
  BY <1>1
<1> QED
  BY <1>2, <1>3 DEF Announced, q

(* In every phase the client has read what it has not still to read. *)
LEMMA PhaseAnnounced ==
    ASSUME NEW q, NEW pc, NEW state, NEW s, NEW t, NEW to,
           Place(q, pc, s), Exact(q, pc, state, s, t),
           to = CASE q = 0 -> "NEW" [] q = 1 -> "PARAM_EXCHANGE"
                  [] q = 2 -> "CREATE_STREAMS" [] q = 3 -> "TEST_RUNNING"
                  [] q = 4 -> "EXCHANGE_RESULTS" [] OTHER -> "DISPLAY_RESULTS"
    PROVE  Announced(s, Rank[state] + 1, Rank[to])
<1>0. /\ "PARAM_EXCHANGE" \in Announcement /\ "CREATE_STREAMS" \in Announcement
      /\ "TEST_RUNNING" \in Announcement /\ "EXCHANGE_RESULTS" \in Announcement
      /\ "DISPLAY_RESULTS" \in Announcement
  BY DEF Announcement
<1>1. CASE q = 0
  <2>1. s = <<>> /\ state = "NEW" /\ to = "NEW"
    BY <1>1 DEF Place, Exact
  <2>2. Rank[state] \in Nat /\ Rank[to] = Rank[state]
    BY <2>1, Ranks
  <2> QED
    BY <2>1, <2>2, AnnouncedNone
<1>2. CASE q = 1
  <2>1. /\ to = "PARAM_EXCHANGE"
        /\ \/ s = <<"PARAM_EXCHANGE">> /\ state = "NEW"
           \/ s = <<>> /\ state = "PARAM_EXCHANGE"
    BY <1>2, Pieces DEF Place, Exact
  <2>2. CASE s = <<"PARAM_EXCHANGE">> /\ state = "NEW"
    <3>1. Rank[state] = 0 /\ Rank[to] = 1
      BY <2>1, <2>2, Ranks
    <3>2. Rank[state] \in Nat /\ Rank[to] = Rank[state] + 1
      BY <3>1
    <3> QED
      BY <1>0, <2>1, <2>2, <3>2, AnnouncedOne
  <2>3. CASE s = <<>> /\ state = "PARAM_EXCHANGE"
    <3>1. Rank[state] \in Nat
      BY <2>3, Ranks
    <3> QED
      BY <2>1, <2>3, <3>1, AnnouncedNone
  <2> QED
    BY <2>1, <2>2, <2>3
<1>3. CASE q = 2
  <2>1. /\ to = "CREATE_STREAMS"
        /\ \/ s = <<"CREATE_STREAMS">> /\ state = "PARAM_EXCHANGE"
           \/ s = <<>> /\ state = "CREATE_STREAMS"
    BY <1>3, Pieces DEF Place, Exact
  <2>2. CASE s = <<"CREATE_STREAMS">> /\ state = "PARAM_EXCHANGE"
    <3>1. Rank[state] = 1 /\ Rank[to] = 2
      BY <2>1, <2>2, Ranks
    <3>2. Rank[state] \in Nat /\ Rank[to] = Rank[state] + 1
      BY <3>1
    <3> QED
      BY <1>0, <2>1, <2>2, <3>2, AnnouncedOne
  <2>3. CASE s = <<>> /\ state = "CREATE_STREAMS"
    <3>1. Rank[state] \in Nat
      BY <2>3, Ranks
    <3> QED
      BY <2>1, <2>3, <3>1, AnnouncedNone
  <2> QED
    BY <2>1, <2>2, <2>3
<1>4. CASE q = 3
  <2>1. /\ to = "TEST_RUNNING"
        /\ \/ s = <<"TEST_START", "TEST_RUNNING">> /\ state = "CREATE_STREAMS"
           \/ s = <<"TEST_RUNNING">> /\ state = "TEST_START"
           \/ s = <<>> /\ state \in {"TEST_RUNNING", "TEST_END"}
    <3>1. to = "TEST_RUNNING"
      BY <1>4
    <3>2. CASE s = <<"TEST_START", "TEST_RUNNING">>
      <4>1. s # <<>> /\ Len(s) = 2
        BY <3>2, Pieces
      <4> QED
        BY <1>4, <3>1, <3>2, <4>1 DEF Exact
    <3>3. CASE s = <<"TEST_RUNNING">>
      <4>1. s # <<>> /\ Len(s) = 1
        BY <3>3, Pieces
      <4> QED
        BY <1>4, <3>1, <3>3, <4>1 DEF Exact
    <3>4. CASE s = <<>>
      <4>1. Len(s) = 0
        BY <3>4
      <4> QED
        BY <1>4, <3>1, <3>4, <4>1 DEF Exact
    <3> QED
      BY <1>4, <3>2, <3>3, <3>4 DEF Place
  <2>2. CASE s = <<"TEST_START", "TEST_RUNNING">> /\ state = "CREATE_STREAMS"
    <3>1. Rank[state] + 1 = 3 /\ Rank[to] = 4
      BY <2>1, <2>2, Ranks
    <3> QED
      BY <2>2, <3>1, AnnouncedTest
  <2>3. CASE s = <<"TEST_RUNNING">> /\ state = "TEST_START"
    <3>1. Rank[state] = 3 /\ Rank[to] = 4
      BY <2>1, <2>3, Ranks
    <3>2. Rank[state] \in Nat /\ Rank[to] = Rank[state] + 1
      BY <3>1
    <3> QED
      BY <1>0, <2>1, <2>3, <3>2, AnnouncedOne
  <2>4. CASE s = <<>> /\ state \in {"TEST_RUNNING", "TEST_END"}
    <3>1. Rank[state] = 4 /\ Rank[to] = 4
      BY <2>1, <2>4, Ranks
    <3> QED
      BY <2>4, <3>1, AnnouncedNone
  <2> QED
    BY <2>1, <2>2, <2>3, <2>4
<1>5. CASE q = 4
  <2>1. /\ to = "EXCHANGE_RESULTS"
        /\ \/ s = <<"EXCHANGE_RESULTS">> /\ state = "TEST_END"
           \/ s = <<>> /\ state = "EXCHANGE_RESULTS"
    BY <1>5, Pieces DEF Place, Exact
  <2>2. CASE s = <<"EXCHANGE_RESULTS">> /\ state = "TEST_END"
    <3>1. Rank[state] = 4 /\ Rank[to] = 5
      BY <2>1, <2>2, Ranks
    <3>2. Rank[state] \in Nat /\ Rank[to] = Rank[state] + 1
      BY <3>1
    <3> QED
      BY <1>0, <2>1, <2>2, <3>2, AnnouncedOne
  <2>3. CASE s = <<>> /\ state = "EXCHANGE_RESULTS"
    <3>1. Rank[state] \in Nat
      BY <2>3, Ranks
    <3> QED
      BY <2>1, <2>3, <3>1, AnnouncedNone
  <2> QED
    BY <2>1, <2>2, <2>3
<1>6. CASE q = 5
  <2>1. /\ to = "DISPLAY_RESULTS" /\ state = "EXCHANGE_RESULTS"
        /\ \/ s = <<"len", "json", "DISPLAY_RESULTS">>
           \/ s = <<"DISPLAY_RESULTS">>
    BY <1>6 DEF Place, Exact
  <2> QED
    BY <1>0, <2>1, Ranks, AnnouncedOne, AnnouncedLast
<1> QED
  BY <1>1, <1>2, <1>3, <1>4, <1>5, <1>6 DEF Place

(* A client nobody has stopped and the server it talks to are in step: the  *)
(* states the client has read, and those on their way to it, are the ones   *)
(* iperf_set_send_state has gone through, in order and without a gap.       *)
THEOREM ClientAndServerInStep == Spec => []InStep
<1>1. KeptInv => InStep
  <2> SUFFICES ASSUME AllInv, srv.pc \notin {"cleanup", "reset"}, Proper,
                      cl[Peer].pc # "over", ~cl[Peer].stopped
               PROVE  Announced(s2c[Peer], Rank[cl[Peer].state] + 1, Rank[srv.state])
    BY DEF InStep, Announced, KeptInv, AllInv, Proper
  <2>1. PICK c \in Client : Peer = c /\ Served(c)
    BY ServerTyped DEF Served
  <2>2. /\ Phase # 6
        /\ srv.state = CASE Phase = 0 -> "NEW" [] Phase = 1 -> "PARAM_EXCHANGE"
                         [] Phase = 2 -> "CREATE_STREAMS" [] Phase = 3 -> "TEST_RUNNING"
                         [] Phase = 4 -> "EXCHANGE_RESULTS"
                         [] OTHER -> "DISPLAY_RESULTS"
    <3>1. srv.pc \in ServerPc /\ Serving /\ ServerInv
      BY ServerTyped DEF ServerRecord, Proper
    <3>2. srv.pc \in {"select", "cookie", "params", "results"}
      BY <3>1 DEF ServerInv, ServerPc
    <3> QED
      BY <3>1, <3>2 DEF ServerInv, Phase
  <2>3. /\ Place(Phase, cl[c].pc, s2c[c])
        /\ Exact(Phase, cl[c].pc, cl[c].state, s2c[c], c2s[c])
    BY <2>1, <2>2, InPhase DEF Talk
  <2>4. Announced(s2c[c], Rank[cl[c].state] + 1, Rank[srv.state])
    BY <2>2, <2>3, PhaseAnnounced
  <2> QED
    BY <2>1, <2>4
<1> QED
  BY <1>1, InductiveInvariant, PTL
=============================================================================
