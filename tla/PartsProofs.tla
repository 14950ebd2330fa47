---------------------------- MODULE PartsProofs ----------------------------
(***************************************************************************)
(* Theorems about the parts that can be understood alone: what the socket  *)
(* functions leave behind, for every set of options, what the entry fields *)
(* launch, for any number of runs, which statistics the output monitor     *)
(* keeps, for any rates, and that the reports of the two hosts agree, for  *)
(* any number of streams.                                                  *)
(***************************************************************************)
EXTENDS Sockets, Form, Monitor, Report, SequenceTheorems, FiniteSetTheorems,
        WellFoundedInduction, TLAPS

-----------------------------------------------------------------------------
(* A chain of calls leads from what is held before it to what is held after *)
(* it, and whichever of its calls fails leaves only what is in leaves.      *)

Resource == {"local", "remote", "addr", "fd", "listener", "stream", "result",
             "file", "mapping", "diskfile"}
Calls == [gains : SUBSET Resource, drops : SUBSET Resource,
          undo : SUBSET Resource, may : SUBSET {"ok", "failed"}]

Step(call, before, after, leaves) ==
    /\ "ok" \in call.may => after = (before \ call.drops) \cup call.gains
    /\ "failed" \in call.may => before \ call.undo \subseteq leaves

(* held[i] is what is held when i calls of the chain are over *)
Along(chain, held, from, to, leaves) ==
    /\ held[0] = from /\ held[Len(chain)] = to
    /\ \A i \in 1..Len(chain) : Step(chain[i], held[i - 1], held[i], leaves)

Leads(chain, from, to, leaves) ==
    /\ chain \in Seq(Calls)
    /\ \E held \in [0..Len(chain) -> SUBSET Resource] :
         Along(chain, held, from, to, leaves)

(* No calls, one call, and one chain behind another *)
LEMMA NoCall ==
    ASSUME NEW a \in SUBSET Resource, NEW leaves
    PROVE  Leads(<<>>, a, a, leaves)
<1>1. <<>> \in Seq(Calls) /\ Len(<<>>) = 0 OBVIOUS
<1>2. [i \in 0..0 |-> a] \in [0..Len(<<>>) -> SUBSET Resource] BY <1>1
<1>3. Along(<<>>, [i \in 0..0 |-> a], a, a, leaves) BY <1>1 DEF Along
<1> QED BY <1>1, <1>2, <1>3 DEF Leads

LEMMA OneCall ==
    ASSUME NEW call \in Calls, NEW a \in SUBSET Resource, NEW b \in SUBSET Resource,
           NEW leaves, Step(call, a, b, leaves)
    PROVE  Leads(<<call>>, a, b, leaves)
<1> DEFINE held == [i \in 0..1 |-> IF i = 0 THEN a ELSE b]
<1>1. <<call>> \in Seq(Calls) /\ Len(<<call>>) = 1 OBVIOUS
<1>2. held \in [0..Len(<<call>>) -> SUBSET Resource] BY <1>1
<1>3. held[0] = a /\ held[1] = b OBVIOUS
<1>4. ASSUME NEW i \in 1..1
      PROVE  Step(<<call>>[i], held[i - 1], held[i], leaves)
    <2>1. i = 1 /\ <<call>>[1] = call OBVIOUS
    <2>2. i - 1 = 0 BY <2>1
    <2> QED BY <2>1, <2>2, <1>3
<1>5. Along(<<call>>, held, a, b, leaves)
    <2> HIDE DEF held
    <2> QED BY <1>1, <1>3, <1>4 DEF Along
<1> QED BY <1>1, <1>2, <1>5 DEF Leads

LEMMA Behind ==
    ASSUME NEW s, NEW t, NEW a, NEW b, NEW c, NEW leaves,
           Leads(s, a, b, leaves), Leads(t, b, c, leaves)
    PROVE  Leads(s \o t, a, c, leaves)
<1>1. s \in Seq(Calls) /\ t \in Seq(Calls) BY DEF Leads
<1>2. PICK f \in [0..Len(s) -> SUBSET Resource] : Along(s, f, a, b, leaves)
    BY DEF Leads
<1>3. PICK g \in [0..Len(t) -> SUBSET Resource] : Along(t, g, b, c, leaves)
    BY DEF Leads
<1> DEFINE n == Len(s)
           m == Len(t)
           st == s \o t
           h == [i \in 0..(n + m) |-> IF i <= n THEN f[i] ELSE g[i - n]]
<1>4. n \in Nat /\ m \in Nat /\ st \in Seq(Calls) /\ Len(st) = n + m BY <1>1
<1>5. h \in [0..(n + m) -> SUBSET Resource] BY <1>4
<1>6. h[0] = a /\ h[n] = b BY <1>4, <1>2 DEF Along
<1>7. h[n + m] = c
    <2>1. CASE m = 0 BY <2>1, <1>2, <1>3, <1>4 DEF Along
    <2>2. CASE m > 0
        <3>1. n + m \in 0..(n + m) /\ ~(n + m <= n) /\ (n + m) - n = m BY <2>2, <1>4
        <3> QED BY <3>1, <1>3 DEF Along
    <2> QED BY <2>1, <2>2, <1>4
<1>8. ASSUME NEW i \in 1..(n + m)
      PROVE  Step(st[i], h[i - 1], h[i], leaves)
    <2>1. CASE i <= n
        <3>1. st[i] = s[i] BY <2>1, <1>1
        <3>2. h[i - 1] = f[i - 1] /\ h[i] = f[i] BY <2>1, <1>4
        <3>3. Step(s[i], f[i - 1], f[i], leaves) BY <2>1, <1>2, <1>4 DEF Along
        <3> QED BY <3>1, <3>2, <3>3
    <2>2. CASE i > n
        <3>1. i - n \in 1..m BY <2>2, <1>4
        <3>2. st[i] = t[i - n] BY <2>2, <1>1, <1>4
        <3>3. h[i] = g[i - n] BY <2>2, <1>4
        <3>4. h[i - 1] = g[(i - n) - 1]
            <4>1. CASE i - 1 = n
                <5>1. (i - n) - 1 = 0 BY <4>1, <1>4
                <5>2. g[0] = b BY <1>3 DEF Along
                <5> QED BY <4>1, <5>1, <5>2, <1>6
            <4>2. CASE i - 1 # n
                <5>1. i - 1 \in 0..(n + m) /\ ~(i - 1 <= n) /\ (i - 1) - n = (i - n) - 1
                    BY <4>2, <2>2, <1>4
                <5> QED BY <5>1
            <4> QED BY <4>1, <4>2
        <3>5. Step(t[i - n], g[(i - n) - 1], g[i - n], leaves) BY <3>1, <1>3 DEF Along
        <3> QED BY <3>2, <3>3, <3>4, <3>5
    <2> QED BY <2>1, <2>2, <1>4
<1>9. Along(st, h, a, c, leaves)
    <2> HIDE DEF h, st
    <2> QED BY <1>4, <1>6, <1>7, <1>8 DEF Along
<1> HIDE DEF h
<1> QED BY <1>4, <1>5, <1>9 DEF Leads

LEMMA IfCalled ==
    ASSUME NEW condition, NEW calls, NEW a \in SUBSET Resource, NEW leaves,
           condition => Leads(calls, a, a, leaves)
    PROVE  Leads(When(condition, calls), a, a, leaves)
BY NoCall DEF When

(* The kinds of call *)
LEMMA Getting ==
    ASSUME NEW r \in Resource, NEW undo \in SUBSET Resource,
           NEW a \in SUBSET Resource, NEW leaves, a \ undo \subseteq leaves
    PROVE  Leads(<<Get(r, undo)>>, a, a \cup {r}, leaves)
<1>1. Get(r, undo) \in Calls BY DEF Get, Call, Calls
<1>2. Step(Get(r, undo), a, a \cup {r}, leaves) BY DEF Step, Get, Call
<1> QED BY <1>1, <1>2, OneCall

LEMMA Trying ==
    ASSUME NEW undo \in SUBSET Resource, NEW a \in SUBSET Resource, NEW leaves,
           a \ undo \subseteq leaves
    PROVE  Leads(<<Try(undo)>>, a, a, leaves)
<1>1. Try(undo) \in Calls BY DEF Try, Call, Calls
<1>2. Step(Try(undo), a, a, leaves) BY DEF Step, Try, Call
<1> QED BY <1>1, <1>2, OneCall

LEMMA Refusing ==
    ASSUME NEW undo \in SUBSET Resource, NEW a \in SUBSET Resource, NEW leaves,
           a \ undo \subseteq leaves
    PROVE  Leads(<<Refuse(undo)>>, a, a, leaves)
<1>1. Refuse(undo) \in Calls BY DEF Refuse, Call, Calls
<1>2. Step(Refuse(undo), a, a, leaves) BY DEF Step, Refuse, Call
<1> QED BY <1>1, <1>2, OneCall

LEMMA Freeing ==
    ASSUME NEW r \in Resource, NEW a \in SUBSET Resource, NEW leaves
    PROVE  Leads(<<Free(r)>>, a, a \ {r}, leaves)
<1>1. Free(r) \in Calls BY DEF Free, Call, Calls
<1>2. Step(Free(r), a, a \ {r}, leaves) BY DEF Step, Free, Call
<1> QED BY <1>1, <1>2, OneCall

LEMMA Renaming ==
    ASSUME NEW r \in Resource, NEW s \in Resource, NEW a \in SUBSET Resource, NEW leaves
    PROVE  Leads(<<Rename(r, s)>>, a, (a \ {r}) \cup {s}, leaves)
<1>1. Rename(r, s) \in Calls BY DEF Rename, Call, Calls
<1>2. Step(Rename(r, s), a, (a \ {r}) \cup {s}, leaves) BY DEF Step, Rename, Call
<1> QED BY <1>1, <1>2, OneCall

LEMMA TwoCalls ==
    ASSUME NEW p, NEW q, NEW a, NEW b, NEW c, NEW leaves,
           Leads(<<p>>, a, b, leaves),
           Leads(<<q>>, b, c, leaves)
    PROVE  Leads(<<p, q>>, a, c, leaves)
<1> DEFINE t == <<p>> \o <<q>>
<1>1. Leads(t, a, c, leaves) BY Behind
<1>2. <<p>> \in Seq(Calls) /\ <<q>> \in Seq(Calls)
    BY DEF Leads
<1>3. p \in Calls /\ q \in Calls
    BY <1>2
<1>4. <<p>> \in Seq(Calls) /\ <<p, q>> \in Seq(Calls) BY <1>3
<1>5. t \in Seq(Calls) /\ Len(t) = 2 BY <1>2, <1>4
<1>6. t[1] = p /\ t[2] = q BY <1>2, <1>4
<1> HIDE DEF t
<1>7. \A i \in 1..Len(t) : t[i] = <<p, q>>[i] BY <1>5, <1>6
<1>8. Len(t) = Len(<<p, q>>) BY <1>5
<1>9. t = <<p, q>> BY <1>4, <1>5, <1>7, <1>8, SeqEqual
<1> QED BY <1>1, <1>9

LEMMA ThreeCalls ==
    ASSUME NEW p, NEW q, NEW r, NEW a, NEW b, NEW c, NEW d, NEW leaves,
           Leads(<<p>>, a, b, leaves),
           Leads(<<q>>, b, c, leaves),
           Leads(<<r>>, c, d, leaves)
    PROVE  Leads(<<p, q, r>>, a, d, leaves)
<1> DEFINE t == <<p, q>> \o <<r>>
<1>1. Leads(t, a, d, leaves) BY TwoCalls, Behind
<1>2. <<p>> \in Seq(Calls) /\ <<q>> \in Seq(Calls) /\ <<r>> \in Seq(Calls)
    BY DEF Leads
<1>3. p \in Calls /\ q \in Calls /\ r \in Calls
    BY <1>2
<1>4. <<p, q>> \in Seq(Calls) /\ <<p, q, r>> \in Seq(Calls) BY <1>3
<1>5. t \in Seq(Calls) /\ Len(t) = 3 BY <1>2, <1>4
<1>6. t[1] = p /\ t[2] = q /\ t[3] = r BY <1>2, <1>4
<1> HIDE DEF t
<1>7. \A i \in 1..Len(t) : t[i] = <<p, q, r>>[i] BY <1>5, <1>6
<1>8. Len(t) = Len(<<p, q, r>>) BY <1>5
<1>9. t = <<p, q, r>> BY <1>4, <1>5, <1>7, <1>8, SeqEqual
<1> QED BY <1>1, <1>9

LEMMA FourCalls ==
    ASSUME NEW p, NEW q, NEW r, NEW s, NEW a, NEW b, NEW c, NEW d, NEW e, NEW leaves,
           Leads(<<p>>, a, b, leaves),
           Leads(<<q>>, b, c, leaves),
           Leads(<<r>>, c, d, leaves),
           Leads(<<s>>, d, e, leaves)
    PROVE  Leads(<<p, q, r, s>>, a, e, leaves)
<1> DEFINE t == <<p, q, r>> \o <<s>>
<1>1. Leads(t, a, e, leaves) BY ThreeCalls, Behind
<1>2. <<p>> \in Seq(Calls) /\ <<q>> \in Seq(Calls) /\ <<r>> \in Seq(Calls) /\ <<s>> \in Seq(Calls)
    BY DEF Leads
<1>3. p \in Calls /\ q \in Calls /\ r \in Calls /\ s \in Calls
    BY <1>2
<1>4. <<p, q, r>> \in Seq(Calls) /\ <<p, q, r, s>> \in Seq(Calls) BY <1>3
<1>5. t \in Seq(Calls) /\ Len(t) = 4 BY <1>2, <1>4
<1>6. t[1] = p /\ t[2] = q /\ t[3] = r /\ t[4] = s BY <1>2, <1>4
<1> HIDE DEF t
<1>7. \A i \in 1..Len(t) : t[i] = <<p, q, r, s>>[i] BY <1>5, <1>6
<1>8. Len(t) = Len(<<p, q, r, s>>) BY <1>5
<1>9. t = <<p, q, r, s>> BY <1>4, <1>5, <1>7, <1>8, SeqEqual
<1> QED BY <1>1, <1>9

-----------------------------------------------------------------------------
(* The functions, one lemma each *)

LEMMA CreateSocketLeads ==
    ASSUME NEW o, NEW leaves
    PROVE  Leads(CreateSocket(o), {}, {"fd", "remote"}, leaves)
<1> DEFINE local == IF "bind" \in o THEN {"local"} ELSE {}
           made == When("bind" \in o, <<Get("local", {})>>)
           both == <<Get("remote", {"local"}), Get("fd", {"local", "remote"})>>
           device == When("device" \in o, <<Refuse({"fd", "local", "remote"})>>)
           bound == IF "bind" \in o THEN <<Try({"fd", "local", "remote"}), Free("local")>>
                    ELSE When("cport" \in o, <<Try({"fd", "remote"})>>)
           open == local \cup {"fd", "remote"}
<1>0. /\ {"local", "fd", "remote"} \subseteq Resource /\ local \in SUBSET Resource
      /\ open \in SUBSET Resource /\ local \cup {"remote"} \in SUBSET Resource
      /\ {"local"} \in SUBSET Resource /\ {} \in SUBSET Resource
      /\ {"local", "remote"} \in SUBSET Resource /\ {"fd", "remote"} \in SUBSET Resource
      /\ {"fd", "local", "remote"} \in SUBSET Resource
    BY DEF Resource
<1>1. Leads(made, {}, local, leaves)
    <2>1. CASE "bind" \in o
        <3>1. Leads(<<Get("local", {})>>, {}, {} \cup {"local"}, leaves)
            BY <1>0, Getting
        <3>2. {} \cup {"local"} = local /\ made = <<Get("local", {})>> BY <2>1 DEF When
        <3> QED BY <3>1, <3>2
    <2>2. CASE "bind" \notin o
        <3>1. local = {} /\ made = <<>> BY <2>2 DEF When
        <3> QED BY <3>1, <1>0, NoCall
    <2> QED BY <2>1, <2>2
<1>2. Leads(both, local, open, leaves)
    <2>1. local \ {"local"} \subseteq leaves
          /\ (local \cup {"remote"}) \ {"local", "remote"} \subseteq leaves
        OBVIOUS
    <2>2. Leads(<<Get("remote", {"local"})>>, local, local \cup {"remote"}, leaves)
        BY <1>0, <2>1, Getting
    <2>3. Leads(<<Get("fd", {"local", "remote"})>>, local \cup {"remote"},
                (local \cup {"remote"}) \cup {"fd"}, leaves)
        BY <1>0, <2>1, Getting
    <2>4. (local \cup {"remote"}) \cup {"fd"} = open OBVIOUS
    <2> QED BY <2>2, <2>3, <2>4, TwoCalls
<1>3. Leads(device, open, open, leaves)
    <2>1. open \ {"fd", "local", "remote"} \subseteq leaves OBVIOUS
    <2>2. Leads(<<Refuse({"fd", "local", "remote"})>>, open, open, leaves)
        BY <1>0, <2>1, Refusing
    <2> QED BY <1>0, <2>2, IfCalled
<1>4. Leads(bound, open, {"fd", "remote"}, leaves)
    <2>1. CASE "bind" \in o
        <3>1. open \ {"fd", "local", "remote"} \subseteq leaves OBVIOUS
        <3>2. Leads(<<Try({"fd", "local", "remote"})>>, open, open, leaves)
            BY <1>0, <3>1, Trying
        <3>3. Leads(<<Free("local")>>, open, open \ {"local"}, leaves) BY <1>0, Freeing
        <3>4. open \ {"local"} = {"fd", "remote"} OBVIOUS
        <3>5. Leads(<<Try({"fd", "local", "remote"}), Free("local")>>, open,
                    {"fd", "remote"}, leaves)
            BY <3>2, <3>3, <3>4, TwoCalls
        <3> QED BY <2>1, <3>5
    <2>2. CASE "bind" \notin o
        <3>1. open = {"fd", "remote"} BY <2>2
        <3>2. {"fd", "remote"} \ {"fd", "remote"} \subseteq leaves OBVIOUS
        <3>3. Leads(<<Try({"fd", "remote"})>>, {"fd", "remote"}, {"fd", "remote"}, leaves)
            BY <1>0, <3>2, Trying
        <3>4. Leads(When("cport" \in o, <<Try({"fd", "remote"})>>), {"fd", "remote"},
                    {"fd", "remote"}, leaves)
            BY <1>0, <3>3, IfCalled
        <3> QED BY <2>2, <3>1, <3>4
    <2> QED BY <2>1, <2>2
<1>5. CreateSocket(o) = made \o both \o device \o bound BY DEF CreateSocket
<1> HIDE DEF made, both, device, bound, local, open
<1>6. Leads(made \o both, {}, open, leaves) BY <1>1, <1>2, Behind
<1>7. Leads(made \o both \o device, {}, open, leaves) BY <1>6, <1>3, Behind
<1>8. Leads(made \o both \o device \o bound, {}, {"fd", "remote"}, leaves)
    BY <1>7, <1>4, Behind
<1> QED BY <1>5, <1>8

LEMMA TimeoutConnectLeads ==
    ASSUME NEW o, NEW leaves
    PROVE  Leads(TimeoutConnect(o), {"fd", "remote"}, {"fd", "remote"}, leaves)
<1> DEFINE open == {"fd", "remote"}
           fcntl == When("timeout" \in o, <<Try(open)>>)
<1>1. open \in SUBSET Resource /\ open \ open \subseteq leaves BY DEF Resource
<1>2. Leads(<<Try(open)>>, open, open, leaves) BY <1>1, Trying
<1>3. Leads(fcntl, open, open, leaves) BY <1>1, <1>2, IfCalled
<1>4. TimeoutConnect(o) = fcntl \o <<Try(open)>> \o fcntl BY DEF TimeoutConnect
<1> HIDE DEF fcntl, open
<1>5. Leads(fcntl \o <<Try(open)>>, open, open, leaves) BY <1>2, <1>3, Behind
<1>6. Leads(fcntl \o <<Try(open)>> \o fcntl, open, open, leaves) BY <1>3, <1>5, Behind
<1> QED BY <1>4, <1>6 DEF open

LEMMA NetdialLeads ==
    ASSUME NEW o, NEW leaves
    PROVE  Leads(Netdial(o), {}, {"fd"}, leaves)
<1>1. Leads(CreateSocket(o) \o TimeoutConnect(o), {}, {"fd", "remote"}, leaves)
    BY CreateSocketLeads, TimeoutConnectLeads, Behind
<1>2. "remote" \in Resource /\ {"fd", "remote"} \in SUBSET Resource BY DEF Resource
<1>3. Leads(<<Free("remote")>>, {"fd", "remote"}, {"fd", "remote"} \ {"remote"}, leaves)
    BY <1>2, Freeing
<1>4. {"fd", "remote"} \ {"remote"} = {"fd"} OBVIOUS
<1>5. Leads(CreateSocket(o) \o TimeoutConnect(o) \o <<Free("remote")>>, {}, {"fd"}, leaves)
    BY <1>1, <1>3, <1>4, Behind
<1> QED BY <1>5 DEF Netdial

(* What is held besides, before and after, may stay when a call fails *)
LEMMA NetannounceLeads ==
    ASSUME NEW o, NEW fd \in Resource, NEW stream, NEW a \in SUBSET Resource, NEW leaves,
           fd # "addr", fd \notin a, "addr" \notin a, a \subseteq leaves
    PROVE  Leads(Netannounce(o, fd, stream), a, a \cup {fd}, leaves)
<1> DEFINE undo == {fd, "addr"}
           open == a \cup {fd, "addr"}
           made == <<Get("addr", {}), Get(fd, {"addr"})>>
           device == When("device" \in o, <<Refuse(undo)>>)
           v6 == When("v6" \in o, <<Try(undo)>>)
           bound == <<Try(undo), Free("addr")>>
           listens == When(stream, <<Try({fd})>>)
<1>0. /\ "addr" \in Resource /\ undo \in SUBSET Resource /\ open \in SUBSET Resource
      /\ a \cup {"addr"} \in SUBSET Resource /\ a \cup {fd} \in SUBSET Resource
      /\ {"addr"} \in SUBSET Resource /\ {} \in SUBSET Resource /\ {fd} \in SUBSET Resource
    BY DEF Resource
<1>1. Leads(made, a, open, leaves)
    <2>1. a \ {} \subseteq leaves /\ (a \cup {"addr"}) \ {"addr"} \subseteq leaves
        OBVIOUS
    <2>2. Leads(<<Get("addr", {})>>, a, a \cup {"addr"}, leaves) BY <1>0, <2>1, Getting
    <2>3. Leads(<<Get(fd, {"addr"})>>, a \cup {"addr"}, (a \cup {"addr"}) \cup {fd}, leaves)
        BY <1>0, <2>1, Getting
    <2>4. (a \cup {"addr"}) \cup {fd} = open OBVIOUS
    <2> QED BY <2>2, <2>3, <2>4, TwoCalls
<1>2. open \ undo \subseteq leaves OBVIOUS
<1>3. Leads(device, open, open, leaves)
    <2>1. Leads(<<Refuse(undo)>>, open, open, leaves) BY <1>0, <1>2, Refusing
    <2> QED BY <1>0, <2>1, IfCalled
<1>4. Leads(<<Try(undo)>>, open, open, leaves) BY <1>0, <1>2, Trying
<1>5. Leads(v6, open, open, leaves) BY <1>0, <1>4, IfCalled
<1>6. Leads(bound, open, a \cup {fd}, leaves)
    <2>1. Leads(<<Free("addr")>>, open, open \ {"addr"}, leaves) BY <1>0, Freeing
    <2>2. open \ {"addr"} = a \cup {fd} OBVIOUS
    <2> QED BY <1>4, <2>1, <2>2, TwoCalls
<1>7. Leads(listens, a \cup {fd}, a \cup {fd}, leaves)
    <2>1. (a \cup {fd}) \ {fd} \subseteq leaves OBVIOUS
    <2>2. Leads(<<Try({fd})>>, a \cup {fd}, a \cup {fd}, leaves) BY <1>0, <2>1, Trying
    <2> QED BY <1>0, <2>2, IfCalled
<1>8. Netannounce(o, fd, stream)
        = made \o device \o <<Try(undo)>> \o v6 \o bound \o listens
    BY DEF Netannounce
<1> HIDE DEF made, device, undo, v6, bound, listens, open
<1>9. Leads(made \o device, a, open, leaves) BY <1>1, <1>3, Behind
<1>10. Leads(made \o device \o <<Try(undo)>>, a, open, leaves) BY <1>9, <1>4, Behind
<1>11. Leads(made \o device \o <<Try(undo)>> \o v6, a, open, leaves)
    BY <1>10, <1>5, Behind
<1>12. Leads(made \o device \o <<Try(undo)>> \o v6 \o bound, a, a \cup {fd}, leaves)
    BY <1>11, <1>6, Behind
<1>13. Leads(made \o device \o <<Try(undo)>> \o v6 \o bound \o listens, a,
             a \cup {fd}, leaves)
    BY <1>12, <1>7, Behind
<1> QED BY <1>8, <1>13

(* Options and sizes are tried one after the other *)
LEMMA TcpOptionsLeads ==
    ASSUME NEW o, NEW undo \in SUBSET Resource, NEW a \in SUBSET Resource, NEW leaves,
           a \ undo \subseteq leaves
    PROVE  Leads(TcpOptions(o, undo), a, a, leaves)
<1>1. Leads(<<Try(undo)>>, a, a, leaves) BY Trying
<1>2. Leads(<<Try(undo), Try(undo)>>, a, a, leaves) BY <1>1, TwoCalls
<1> DEFINE x == When("nodelay" \in o, <<Try(undo)>>)
           y == When("mss" \in o, <<Try(undo)>>)
           z == When("window" \in o, <<Try(undo), Try(undo)>>)
<1>3. Leads(x, a, a, leaves) /\ Leads(y, a, a, leaves) BY <1>1, IfCalled
<1>4. Leads(z, a, a, leaves) BY <1>2, IfCalled
<1>5. TcpOptions(o, undo) = x \o y \o z BY DEF TcpOptions
<1> HIDE DEF x, y, z
<1>6. Leads(x \o y, a, a, leaves) BY <1>3, Behind
<1>7. Leads(x \o y \o z, a, a, leaves) BY <1>4, <1>6, Behind
<1> QED BY <1>5, <1>7

LEMMA ReadBackLeads ==
    ASSUME NEW o, NEW undo \in SUBSET Resource, NEW a \in SUBSET Resource, NEW leaves,
           a \ undo \subseteq leaves
    PROVE  Leads(ReadBack(o, undo), a, a, leaves)
<1> DEFINE x == <<Try(undo)>>
           y == When("window" \in o, <<Try(undo)>>)
<1>1. Leads(x, a, a, leaves) BY Trying
<1>2. Leads(y, a, a, leaves) BY <1>1, IfCalled
<1>3. ReadBack(o, undo) = x \o y \o x \o y BY DEF ReadBack
<1> HIDE DEF x, y
<1>4. Leads(x \o y, a, a, leaves) BY <1>1, <1>2, Behind
<1>5. Leads(x \o y \o x, a, a, leaves) BY <1>1, <1>4, Behind
<1>6. Leads(x \o y \o x \o y, a, a, leaves) BY <1>2, <1>5, Behind
<1> QED BY <1>3, <1>6

LEMMA TcpAcceptLeads ==
    ASSUME NEW o, NEW leaves
    PROVE  Leads(TcpAccept(o), {}, IF "stranger" \in o THEN {} ELSE {"fd"}, leaves)
<1> DEFINE accepted == <<Get("fd", {}), Try({"fd"})>>
           refused == When("stranger" \in o, <<Free("fd")>>)
<1>0. "fd" \in Resource /\ {} \in SUBSET Resource /\ {"fd"} \in SUBSET Resource
    BY DEF Resource
<1>1. Leads(accepted, {}, {"fd"}, leaves)
    <2>1. {} \ {} \subseteq leaves /\ {"fd"} \ {"fd"} \subseteq leaves OBVIOUS
    <2>2. Leads(<<Get("fd", {})>>, {}, {} \cup {"fd"}, leaves) BY <1>0, <2>1, Getting
    <2>3. Leads(<<Try({"fd"})>>, {"fd"}, {"fd"}, leaves) BY <1>0, <2>1, Trying
    <2>4. {} \cup {"fd"} = {"fd"} OBVIOUS
    <2> QED BY <2>2, <2>3, <2>4, TwoCalls
<1>2. Leads(refused, {"fd"}, IF "stranger" \in o THEN {} ELSE {"fd"}, leaves)
    <2>1. CASE "stranger" \in o
        <3>1. Leads(<<Free("fd")>>, {"fd"}, {"fd"} \ {"fd"}, leaves) BY <1>0, Freeing
        <3>2. {"fd"} \ {"fd"} = {} OBVIOUS
        <3> QED BY <2>1, <3>1, <3>2 DEF When
    <2>2. CASE "stranger" \notin o
        <3>1. Leads(<<>>, {"fd"}, {"fd"}, leaves) BY <1>0, NoCall
        <3> QED BY <2>2, <3>1 DEF When
    <2> QED BY <2>1, <2>2
<1>3. TcpAccept(o) = accepted \o refused BY DEF TcpAccept
<1> HIDE DEF accepted, refused
<1> QED BY <1>1, <1>2, <1>3, Behind

LEMMA TcpListenAnewLeads ==
    ASSUME NEW o, NEW leaves
    PROVE  Leads(TcpListenAnew(o), {"listener"}, {"listener"}, leaves)
<1> DEFINE open == {"fd", "addr"}
           made == <<Free("listener"), Get("addr", {}), Get("fd", {"addr"})>>
           options == TcpOptions(o, open)
           v6 == When("v6" \in o, <<Try(open)>>)
           listens == <<Try(open), Free("addr"), Try({"fd"}), Rename("fd", "listener")>>
<1>0. /\ {"addr", "fd", "listener"} \subseteq Resource
      /\ open \in SUBSET Resource /\ {"listener"} \in SUBSET Resource
      /\ {"addr"} \in SUBSET Resource /\ {"fd"} \in SUBSET Resource /\ {} \in SUBSET Resource
    BY DEF Resource
<1>1. open \ open \subseteq leaves /\ {} \ {} \subseteq leaves
      /\ {"addr"} \ {"addr"} \subseteq leaves /\ {"fd"} \ {"fd"} \subseteq leaves
    OBVIOUS
<1>2. Leads(made, {"listener"}, open, leaves)
    <2>1. Leads(<<Free("listener")>>, {"listener"}, {"listener"} \ {"listener"}, leaves)
        BY <1>0, Freeing
    <2>2. {"listener"} \ {"listener"} = {} /\ {} \cup {"addr"} = {"addr"}
          /\ {"addr"} \cup {"fd"} = open
        OBVIOUS
    <2>3. Leads(<<Get("addr", {})>>, {}, {} \cup {"addr"}, leaves) BY <1>0, <1>1, Getting
    <2>4. Leads(<<Get("fd", {"addr"})>>, {"addr"}, {"addr"} \cup {"fd"}, leaves)
        BY <1>0, <1>1, Getting
    <2> QED BY <2>1, <2>2, <2>3, <2>4, ThreeCalls
<1>3. Leads(options, open, open, leaves) BY <1>0, <1>1, TcpOptionsLeads
<1>4. Leads(<<Try(open)>>, open, open, leaves) BY <1>0, <1>1, Trying
<1>5. Leads(v6, open, open, leaves) BY <1>0, <1>4, IfCalled
<1>6. Leads(listens, open, {"listener"}, leaves)
    <2>1. Leads(<<Free("addr")>>, open, open \ {"addr"}, leaves) BY <1>0, Freeing
    <2>2. Leads(<<Try({"fd"})>>, {"fd"}, {"fd"}, leaves) BY <1>0, <1>1, Trying
    <2>3. Leads(<<Rename("fd", "listener")>>, {"fd"}, ({"fd"} \ {"fd"}) \cup {"listener"},
                leaves)
        BY <1>0, Renaming
    <2>4. open \ {"addr"} = {"fd"} /\ ({"fd"} \ {"fd"}) \cup {"listener"} = {"listener"}
        OBVIOUS
    <2> QED BY <1>4, <2>1, <2>2, <2>3, <2>4, FourCalls
<1>7. TcpListenAnew(o) = made \o options \o <<Try(open)>> \o v6 \o listens
    BY DEF TcpListenAnew
<1> HIDE DEF made, options, v6, listens, open
<1>8. Leads(made \o options, {"listener"}, open, leaves) BY <1>2, <1>3, Behind
<1>9. Leads(made \o options \o <<Try(open)>>, {"listener"}, open, leaves)
    BY <1>4, <1>8, Behind
<1>10. Leads(made \o options \o <<Try(open)>> \o v6, {"listener"}, open, leaves)
    BY <1>5, <1>9, Behind
<1>11. Leads(made \o options \o <<Try(open)>> \o v6 \o listens, {"listener"},
             {"listener"}, leaves)
    BY <1>6, <1>10, Behind
<1> QED BY <1>7, <1>11

LEMMA TcpListenLeads ==
    ASSUME NEW o, NEW leaves
    PROVE  Leads(TcpListen(o), {"listener"}, {"listener"}, leaves)
<1> DEFINE anew == When(o \cap {"nodelay", "mss", "window"} # {}, TcpListenAnew(o))
           back == ReadBack(o, {"listener"})
<1>1. {"listener"} \in SUBSET Resource /\ {"listener"} \ {"listener"} \subseteq leaves
    BY DEF Resource
<1>2. Leads(anew, {"listener"}, {"listener"}, leaves)
    <2>1. Leads(TcpListenAnew(o), {"listener"}, {"listener"}, leaves)
        BY TcpListenAnewLeads
    <2> QED BY <1>1, <2>1, IfCalled
<1>3. Leads(back, {"listener"}, {"listener"}, leaves) BY <1>1, ReadBackLeads
<1>4. TcpListen(o) = anew \o back BY DEF TcpListen
<1> HIDE DEF anew, back
<1> QED BY <1>2, <1>3, <1>4, Behind

LEMMA TcpConnectLeads ==
    ASSUME NEW o, NEW leaves
    PROVE  Leads(TcpConnect(o), {}, {"fd"}, leaves)
<1> DEFINE open == {"fd", "remote"}
           create == CreateSocket(o)
           options == TcpOptions(o, open)
           back == ReadBack(o, open)
           connects == <<Try(open), Free("remote"), Try({"fd"})>>
<1>0. /\ open \in SUBSET Resource /\ {"fd"} \in SUBSET Resource /\ "remote" \in Resource
      /\ open \ open \subseteq leaves /\ {"fd"} \ {"fd"} \subseteq leaves
    BY DEF Resource
<1>1. Leads(create, {}, open, leaves) BY CreateSocketLeads
<1>2. Leads(options, open, open, leaves) BY <1>0, TcpOptionsLeads
<1>3. Leads(back, open, open, leaves) BY <1>0, ReadBackLeads
<1>4. Leads(connects, open, {"fd"}, leaves)
    <2>1. Leads(<<Try(open)>>, open, open, leaves) BY <1>0, Trying
    <2>2. Leads(<<Free("remote")>>, open, open \ {"remote"}, leaves) BY <1>0, Freeing
    <2>3. Leads(<<Try({"fd"})>>, {"fd"}, {"fd"}, leaves) BY <1>0, Trying
    <2>4. open \ {"remote"} = {"fd"} OBVIOUS
    <2> QED BY <2>1, <2>2, <2>3, <2>4, ThreeCalls
<1>5. TcpConnect(o) = create \o options \o back \o connects BY DEF TcpConnect
<1> HIDE DEF create, options, back, connects, open
<1>6. Leads(create \o options, {}, open, leaves) BY <1>1, <1>2, Behind
<1>7. Leads(create \o options \o back, {}, open, leaves) BY <1>6, <1>3, Behind
<1>8. Leads(create \o options \o back \o connects, {}, {"fd"}, leaves)
    BY <1>7, <1>4, Behind
<1> QED BY <1>5, <1>8

(* Nothing is closed: what is held stays *)
LEMMA BufferCheckLeads ==
    ASSUME NEW o, NEW a \in SUBSET Resource, NEW leaves, a \subseteq leaves
    PROVE  Leads(BufferCheck(o), a, a, leaves)
<1> DEFINE two == <<Try({}), Try({})>>
           x == When("window" \in o, two)
           y == ReadBack(o, {})
           w == ReadBack({"window"}, {})
           z == When("small" \in o /\ "window" \notin o, two \o w)
<1>0. {} \in SUBSET Resource /\ a \ {} \subseteq leaves OBVIOUS
<1>1. Leads(two, a, a, leaves)
    <2>1. Leads(<<Try({})>>, a, a, leaves) BY <1>0, Trying
    <2> QED BY <2>1, TwoCalls
<1>2. Leads(y, a, a, leaves) /\ Leads(w, a, a, leaves) BY <1>0, ReadBackLeads
<1>3. BufferCheck(o) = x \o y \o z BY DEF BufferCheck
<1> HIDE DEF two, y, w
<1>4. Leads(two \o w, a, a, leaves) BY <1>1, <1>2, Behind
<1>5. Leads(x, a, a, leaves) BY <1>1, IfCalled
<1>6. Leads(z, a, a, leaves) BY <1>4, IfCalled
<1> HIDE DEF x, z
<1>7. Leads(x \o y, a, a, leaves) BY <1>2, <1>5, Behind
<1>8. Leads(x \o y \o z, a, a, leaves) BY <1>6, <1>7, Behind
<1> QED BY <1>3, <1>8

LEMMA UdpAcceptLeads ==
    ASSUME NEW o, NEW leaves, {"fd", "listener"} \subseteq leaves
    PROVE  Leads(UdpAccept(o), {"listener"}, {"fd", "listener"}, leaves)
<1> DEFINE two == <<Try({}), Try({})>>
           check == BufferCheck(o)
           turned == <<Rename("listener", "fd")>>
           anew == Netannounce(o, "listener", FALSE)
           answer == <<Try({})>>
<1>0. /\ {} \in SUBSET Resource /\ {"listener"} \in SUBSET Resource
      /\ {"fd"} \in SUBSET Resource /\ {"fd", "listener"} \in SUBSET Resource
      /\ "fd" \in Resource /\ "listener" \in Resource
    BY DEF Resource
<1>1. Leads(two, {"listener"}, {"listener"}, leaves)
    <2>1. {"listener"} \ {} \subseteq leaves OBVIOUS
    <2>2. Leads(<<Try({})>>, {"listener"}, {"listener"}, leaves) BY <1>0, <2>1, Trying
    <2> QED BY <2>2, TwoCalls
<1>2. Leads(check, {"listener"}, {"listener"}, leaves) BY <1>0, BufferCheckLeads
<1>3. Leads(turned, {"listener"}, {"fd"}, leaves)
    <2>1. Leads(turned, {"listener"}, ({"listener"} \ {"listener"}) \cup {"fd"}, leaves)
        BY <1>0, Renaming
    <2>2. ({"listener"} \ {"listener"}) \cup {"fd"} = {"fd"} OBVIOUS
    <2> QED BY <2>1, <2>2
<1>4. Leads(anew, {"fd"}, {"fd", "listener"}, leaves)
    <2>1. /\ "listener" # "addr" /\ "listener" \notin {"fd"} /\ "addr" \notin {"fd"}
          /\ {"fd"} \subseteq leaves
        OBVIOUS
    <2>2. Leads(anew, {"fd"}, {"fd"} \cup {"listener"}, leaves)
        BY <1>0, <2>1, NetannounceLeads
    <2>3. {"fd"} \cup {"listener"} = {"fd", "listener"} OBVIOUS
    <2> QED BY <2>2, <2>3
<1>5. Leads(answer, {"fd", "listener"}, {"fd", "listener"}, leaves)
    <2>1. {"fd", "listener"} \ {} \subseteq leaves OBVIOUS
    <2> QED BY <1>0, <2>1, Trying
<1>6. UdpAccept(o) = two \o check \o turned \o anew \o answer BY DEF UdpAccept
<1> HIDE DEF two, check, turned, anew, answer
<1>7. Leads(two \o check, {"listener"}, {"listener"}, leaves) BY <1>1, <1>2, Behind
<1>8. Leads(two \o check \o turned, {"listener"}, {"fd"}, leaves)
    BY <1>3, <1>7, Behind
<1>9. Leads(two \o check \o turned \o anew, {"listener"}, {"fd", "listener"}, leaves)
    BY <1>4, <1>8, Behind
<1>10. Leads(two \o check \o turned \o anew \o answer, {"listener"},
             {"fd", "listener"}, leaves)
    BY <1>5, <1>9, Behind
<1> QED BY <1>6, <1>10

LEMMA UdpConnectLeads ==
    ASSUME NEW o, NEW leaves, "fd" \in leaves
    PROVE  Leads(UdpConnect(o), {}, {"fd"}, leaves)
<1> DEFINE dial == Netdial(o \ {"timeout"})
           check == BufferCheck(o)
           two == <<Try({}), Try({})>>
<1>0. {} \in SUBSET Resource /\ {"fd"} \in SUBSET Resource /\ {"fd"} \subseteq leaves
    BY DEF Resource
<1>1. Leads(dial, {}, {"fd"}, leaves) BY NetdialLeads
<1>2. Leads(check, {"fd"}, {"fd"}, leaves) BY <1>0, BufferCheckLeads
<1>3. Leads(two, {"fd"}, {"fd"}, leaves)
    <2>1. {"fd"} \ {} \subseteq leaves BY <1>0
    <2>2. Leads(<<Try({})>>, {"fd"}, {"fd"}, leaves) BY <1>0, <2>1, Trying
    <2> QED BY <2>2, TwoCalls
<1>4. UdpConnect(o) = dial \o check \o two BY DEF UdpConnect
<1> HIDE DEF dial, check, two
<1>5. Leads(dial \o check, {}, {"fd"}, leaves) BY <1>1, <1>2, Behind
<1>6. Leads(dial \o check \o two, {}, {"fd"}, leaves) BY <1>3, <1>5, Behind
<1> QED BY <1>4, <1>6

Made(o) == {"fd", "stream", "result", "file", "mapping"}
           \cup (IF "disk" \in o THEN {"diskfile"} ELSE {})

LEMMA NewStreamLeads ==
    ASSUME NEW o, NEW leaves, {"fd", "file", "diskfile"} \subseteq leaves
    PROVE  Leads(NewStream(o), {"fd"}, Made(o), leaves)
<1> DEFINE both == {"stream", "result"}
           memory == both \cup {"mapping"}
           all == both \cup {"mapping", "file"}
           a == {"fd"} \cup {"stream"}
           b == a \cup {"result"}
           c == b \cup {"file"}
           d == c \cup {"mapping"}
           e == Made(o)
           structures == <<Get("stream", {}), Get("result", {"stream"}), Get("file", both)>>
           mapped == <<Try(both), Try(both), Get("mapping", both)>>
           disk == When("disk" \in o, <<Get("diskfile", memory)>>)
           last == <<Try(all)>>
<1>0. /\ {"stream", "result", "file", "mapping", "diskfile"} \subseteq Resource
      /\ {"fd"} \in SUBSET Resource /\ {} \in SUBSET Resource /\ {"stream"} \in SUBSET Resource
      /\ both \in SUBSET Resource /\ memory \in SUBSET Resource /\ all \in SUBSET Resource
      /\ a \in SUBSET Resource /\ b \in SUBSET Resource /\ c \in SUBSET Resource
      /\ d \in SUBSET Resource
    BY DEF Resource
<1>1. e \in SUBSET Resource BY DEF Made, Resource
<1>2. Leads(structures, {"fd"}, c, leaves)
    <2>1. {"fd"} \ {} \subseteq leaves /\ a \ {"stream"} \subseteq leaves
          /\ b \ both \subseteq leaves
        OBVIOUS
    <2>2. Leads(<<Get("stream", {})>>, {"fd"}, a, leaves) BY <1>0, <2>1, Getting
    <2>3. Leads(<<Get("result", {"stream"})>>, a, b, leaves) BY <1>0, <2>1, Getting
    <2>4. Leads(<<Get("file", both)>>, b, c, leaves) BY <1>0, <2>1, Getting
    <2> QED BY <2>2, <2>3, <2>4, ThreeCalls
<1>3. Leads(mapped, c, d, leaves)
    <2>1. c \ both \subseteq leaves OBVIOUS
    <2>2. Leads(<<Try(both)>>, c, c, leaves) BY <1>0, <2>1, Trying
    <2>3. Leads(<<Get("mapping", both)>>, c, d, leaves) BY <1>0, <2>1, Getting
    <2> QED BY <2>2, <2>3, ThreeCalls
<1>4. Leads(disk, d, e, leaves)
    <2>1. CASE "disk" \in o
        <3>1. d \ memory \subseteq leaves OBVIOUS
        <3>2. Leads(<<Get("diskfile", memory)>>, d, d \cup {"diskfile"}, leaves)
            BY <1>0, <3>1, Getting
        <3>3. d \cup {"diskfile"} = e BY <2>1 DEF Made
        <3> QED BY <2>1, <3>2, <3>3 DEF When
    <2>2. CASE "disk" \notin o
        <3>1. d = e BY <2>2 DEF Made
        <3> QED BY <2>2, <3>1, <1>0, NoCall DEF When
    <2> QED BY <2>1, <2>2
<1>5. Leads(last, e, e, leaves)
    <2>1. e \ all \subseteq leaves BY DEF Made
    <2> QED BY <1>0, <1>1, <2>1, Trying
<1>6. NewStream(o) = structures \o mapped \o disk \o last BY DEF NewStream
<1> HIDE DEF structures, mapped, disk, last, c, d, e
<1>7. Leads(structures \o mapped, {"fd"}, d, leaves) BY <1>2, <1>3, Behind
<1>8. Leads(structures \o mapped \o disk, {"fd"}, e, leaves) BY <1>4, <1>7, Behind
<1>9. Leads(structures \o mapped \o disk \o last, {"fd"}, e, leaves)
    BY <1>5, <1>8, Behind
<1> QED BY <1>6, <1>9 DEF e

LEMMA CongestionLeads ==
    ASSUME NEW o, NEW leaves
    PROVE  Leads(When("congestion" \in o, <<Try({"fd"}), Try({"fd"})>>), {"fd"}, {"fd"},
                 leaves)
<1>1. {"fd"} \in SUBSET Resource /\ {"fd"} \ {"fd"} \subseteq leaves BY DEF Resource
<1>2. Leads(<<Try({"fd"})>>, {"fd"}, {"fd"}, leaves) BY <1>1, Trying
<1>3. Leads(<<Try({"fd"}), Try({"fd"})>>, {"fd"}, {"fd"}, leaves) BY <1>2, TwoCalls
<1> QED BY <1>1, <1>3, IfCalled

LEMMA ClientStreamLeads ==
    ASSUME NEW o, NEW leaves, {"fd", "file", "diskfile"} \subseteq leaves
    PROVE  Leads(ClientStream(o), {}, Made(o), leaves)
<1> DEFINE control == When("congestion" \in o, <<Try({"fd"}), Try({"fd"})>>)
<1>1. Leads(TcpConnect(o), {}, {"fd"}, leaves) BY TcpConnectLeads
<1>2. Leads(control, {"fd"}, {"fd"}, leaves) BY CongestionLeads
<1>3. Leads(NewStream(o), {"fd"}, Made(o), leaves) BY NewStreamLeads
<1>4. ClientStream(o) = TcpConnect(o) \o control \o NewStream(o) BY DEF ClientStream
<1> HIDE DEF control
<1>5. Leads(TcpConnect(o) \o control, {}, {"fd"}, leaves) BY <1>1, <1>2, Behind
<1>6. Leads(TcpConnect(o) \o control \o NewStream(o), {}, Made(o), leaves)
    BY <1>3, <1>5, Behind
<1> QED BY <1>4, <1>6

LEMMA ServerStreamLeads ==
    ASSUME NEW o, NEW leaves, {"fd", "file", "diskfile"} \subseteq leaves
    PROVE  Leads(ServerStream(o), {}, Made(o), leaves)
<1> DEFINE accept == TcpAccept(o \ {"stranger"})
           tos == When("tos" \in o, <<Try({})>>)
           control == When("congestion" \in o, <<Try({"fd"}), Try({"fd"})>>)
<1>1. Leads(accept, {}, {"fd"}, leaves)
    <2>1. "stranger" \notin o \ {"stranger"} OBVIOUS
    <2>2. Leads(accept, {}, IF "stranger" \in o \ {"stranger"} THEN {} ELSE {"fd"}, leaves)
        BY TcpAcceptLeads
    <2> QED BY <2>1, <2>2
<1>2. Leads(tos, {"fd"}, {"fd"}, leaves)
    <2>1. /\ {"fd"} \in SUBSET Resource /\ {} \in SUBSET Resource
          /\ {"fd"} \ {} \subseteq leaves
        BY DEF Resource
    <2>2. Leads(<<Try({})>>, {"fd"}, {"fd"}, leaves) BY <2>1, Trying
    <2> QED BY <2>1, <2>2, IfCalled
<1>3. Leads(control, {"fd"}, {"fd"}, leaves) BY CongestionLeads
<1>4. Leads(NewStream(o), {"fd"}, Made(o), leaves) BY NewStreamLeads
<1>5. ServerStream(o) = accept \o tos \o control \o NewStream(o) BY DEF ServerStream
<1> HIDE DEF accept, tos, control
<1>6. Leads(accept \o tos, {}, {"fd"}, leaves) BY <1>1, <1>2, Behind
<1>7. Leads(accept \o tos \o control, {}, {"fd"}, leaves) BY <1>3, <1>6, Behind
<1>8. Leads(accept \o tos \o control \o NewStream(o), {}, Made(o), leaves)
    BY <1>4, <1>7, Behind
<1> QED BY <1>5, <1>8

-----------------------------------------------------------------------------
(* Every function leads from what it is handed to its product *)

Handed == IF sockOp \in OnListener THEN {"listener"} ELSE {}

LEMMA ScriptLeads ==
    ASSUME sockOp \in SocketOp
    PROVE  Leads(Script(sockOp, sockOptions), Handed, Product, Forgotten \cup {"listener"})
<1> DEFINE o == sockOptions
           leaves == Forgotten \cup {"listener"}
<1>1. CASE sockOp = "netdial"
    <2>1. Script(sockOp, o) = Netdial(o) /\ Handed = {} /\ Product = {"fd"}
        BY <1>1 DEF Script, Handed, OnListener, Product
    <2> QED BY <2>1, NetdialLeads
<1>2. CASE sockOp = "netannounce"
    <2>1. Script(sockOp, o) = Netannounce(o, "fd", TRUE) /\ Handed = {} /\ Product = {"fd"}
        BY <1>2 DEF Script, Handed, OnListener, Product
    <2>2. /\ "fd" \in Resource /\ {} \in SUBSET Resource /\ "fd" # "addr"
          /\ "fd" \notin {} /\ "addr" \notin {} /\ {} \subseteq leaves
        BY DEF Resource
    <2>3. Leads(Netannounce(o, "fd", TRUE), {}, {} \cup {"fd"}, leaves)
        BY <2>2, NetannounceLeads
    <2>4. {} \cup {"fd"} = {"fd"} OBVIOUS
    <2> QED BY <2>1, <2>3, <2>4
<1>3. CASE sockOp = "iperf_tcp_accept"
    <2>1. Script(sockOp, o) = TcpAccept(o) /\ Handed = {}
          /\ Product = IF "stranger" \in o THEN {} ELSE {"fd"}
        BY <1>3 DEF Script, Handed, OnListener, Product
    <2> QED BY <2>1, TcpAcceptLeads
<1>4. CASE sockOp = "iperf_tcp_listen"
    <2>1. Script(sockOp, o) = TcpListen(o) /\ Handed = {"listener"}
          /\ Product = {"listener"}
        BY <1>4 DEF Script, Handed, OnListener, Product
    <2> QED BY <2>1, TcpListenLeads
<1>5. CASE sockOp = "iperf_tcp_connect"
    <2>1. Script(sockOp, o) = TcpConnect(o) /\ Handed = {} /\ Product = {"fd"}
        BY <1>5 DEF Script, Handed, OnListener, Product
    <2> QED BY <2>1, TcpConnectLeads
<1>6. CASE sockOp = "iperf_udp_accept"
    <2>1. Script(sockOp, o) = UdpAccept(o) /\ Handed = {"listener"}
          /\ Product = {"fd", "listener"} /\ {"fd", "listener"} \subseteq leaves
        BY <1>6 DEF Script, Handed, OnListener, Product, Forgotten
    <2> QED BY <2>1, UdpAcceptLeads
<1>7. CASE sockOp = "iperf_udp_listen"
    <2>1. Script(sockOp, o) = Netannounce(o, "fd", FALSE) /\ Handed = {} /\ Product = {"fd"}
        BY <1>7 DEF Script, Handed, OnListener, Product, UdpListen
    <2>2. /\ "fd" \in Resource /\ {} \in SUBSET Resource /\ "fd" # "addr"
          /\ "fd" \notin {} /\ "addr" \notin {} /\ {} \subseteq leaves
        BY DEF Resource
    <2>3. Leads(Netannounce(o, "fd", FALSE), {}, {} \cup {"fd"}, leaves)
        BY <2>2, NetannounceLeads
    <2>4. {} \cup {"fd"} = {"fd"} OBVIOUS
    <2> QED BY <2>1, <2>3, <2>4
<1>8. CASE sockOp = "iperf_udp_connect"
    <2>1. Script(sockOp, o) = UdpConnect(o) /\ Handed = {} /\ Product = {"fd"}
          /\ "fd" \in leaves
        BY <1>8 DEF Script, Handed, OnListener, Product, Forgotten
    <2> QED BY <2>1, UdpConnectLeads
<1>9. CASE sockOp = "iperf_create_streams"
    <2>1. Script(sockOp, o) = ClientStream(o) /\ Handed = {} /\ Product = Made(o)
          /\ {"fd", "file", "diskfile"} \subseteq leaves
        BY <1>9 DEF Script, Handed, OnListener, Product, Forgotten, Made
    <2> QED BY <2>1, ClientStreamLeads
<1>10. CASE sockOp = "iperf_run_server"
    <2>1. Script(sockOp, o) = ServerStream(o) /\ Handed = {} /\ Product = Made(o)
          /\ {"fd", "file", "diskfile"} \subseteq leaves
        BY <1>10 DEF Script, Handed, OnListener, Product, Forgotten, Made
    <2> QED BY <2>1, ServerStreamLeads
<1> QED BY <1>1, <1>2, <1>3, <1>4, <1>5, <1>6, <1>7, <1>8, <1>9, <1>10 DEF SocketOp

(* None of them is empty *)
LEMMA LongerBehind ==
    ASSUME NEW s \in Seq(Calls), NEW t \in Seq(Calls), Len(s) > 0 \/ Len(t) > 0
    PROVE  s \o t \in Seq(Calls) /\ Len(s \o t) > 0
<1>1. Len(s \o t) = Len(s) + Len(t) /\ s \o t \in Seq(Calls)
      /\ Len(s) \in Nat /\ Len(t) \in Nat
    OBVIOUS
<1> QED BY <1>1

LEMMA ScriptNotEmpty ==
    ASSUME sockOp \in SocketOp
    PROVE  Len(Script(sockOp, sockOptions)) \in Nat \ {0}
<1> DEFINE script == Script(sockOp, sockOptions)
           leaves == Forgotten \cup {"listener"}
<1>1. script \in Seq(Calls) /\ Len(script) \in Nat BY ScriptLeads DEF Leads
<1>2. CASE Handed # Product
    <2>1. PICK held \in [0..Len(script) -> SUBSET Resource] :
             Along(script, held, Handed, Product, leaves)
        BY ScriptLeads DEF Leads
    <2>2. held[0] # held[Len(script)] BY <1>2, <2>1 DEF Along
    <2>3. Len(script) # 0 BY <2>2
    <2> QED BY <1>1, <2>3
<1>3. CASE sockOp = "iperf_tcp_listen"
    <2> DEFINE anew == When(sockOptions \cap {"nodelay", "mss", "window"} # {},
                            TcpListenAnew(sockOptions))
               x == <<Try({"listener"})>>
               y == When("window" \in sockOptions, <<Try({"listener"})>>)
    <2>1. script = anew \o (x \o y \o x \o y)
        BY <1>3 DEF Script, TcpListen, ReadBack
    <2>2. Try({"listener"}) \in Calls BY DEF Try, Call, Calls, Resource
    <2>3. x \in Seq(Calls) /\ y \in Seq(Calls) /\ Len(x) > 0 BY <2>2 DEF When
    <2>4. anew \in Seq(Calls)
        <3>1. Leads(TcpListenAnew(sockOptions), {"listener"}, {"listener"}, leaves)
            BY TcpListenAnewLeads
        <3> QED BY <3>1 DEF Leads, When
    <2> HIDE DEF anew, x, y
    <2>5. x \o y \in Seq(Calls) /\ Len(x \o y) > 0 BY <2>3, LongerBehind
    <2>6. x \o y \o x \in Seq(Calls) /\ Len(x \o y \o x) > 0 BY <2>3, <2>5, LongerBehind
    <2>7. x \o y \o x \o y \in Seq(Calls) /\ Len(x \o y \o x \o y) > 0
        BY <2>3, <2>6, LongerBehind
    <2>8. Len(anew \o (x \o y \o x \o y)) > 0 BY <2>4, <2>7, LongerBehind
    <2> QED BY <1>1, <2>1, <2>8
<1>4. CASE sockOp = "iperf_tcp_accept"
    <2> DEFINE x == <<Get("fd", {}), Try({"fd"})>>
               y == When("stranger" \in sockOptions, <<Free("fd")>>)
    <2>1. script = x \o y BY <1>4 DEF Script, TcpAccept
    <2>2. Get("fd", {}) \in Calls /\ Try({"fd"}) \in Calls /\ Free("fd") \in Calls
        BY DEF Get, Try, Free, Call, Calls, Resource
    <2>3. x \in Seq(Calls) /\ y \in Seq(Calls) /\ Len(x) > 0 BY <2>2 DEF When
    <2> HIDE DEF x, y
    <2>4. Len(x \o y) > 0 BY <2>3, LongerBehind
    <2> QED BY <1>1, <2>1, <2>4
<1>5. Handed # Product \/ sockOp \in {"iperf_tcp_listen", "iperf_tcp_accept"}
    BY DEF Handed, Product, OnListener, SocketOp
<1> QED BY <1>2, <1>3, <1>4, <1>5

(* The invariant: while a function runs, what is held is what is held along *)
(* the way that leads from what it was handed to its product.               *)
OnTheWay ==
    LET script == Script(sockOp, sockOptions)
    IN  \E held \in [0..Len(script) -> SUBSET Resource] :
          /\ Along(script, held, Handed, Product, Forgotten \cup {"listener"})
          /\ sockHeld = held[sockAt]

SocketInv ==
    /\ sockOp \in SocketOp \cup {"none"}
    /\ sockOp = "none" => sockReturn = "none" /\ sockAt = 0
    /\ Running => sockAt \in 0..(Len(Script(sockOp, sockOptions)) - 1) /\ OnTheWay
    /\ NothingLeftOpen

(* What is known of every function *)
ScriptFact ==
    sockOp \in SocketOp =>
      /\ Leads(Script(sockOp, sockOptions), Handed, Product, Forgotten \cup {"listener"})
      /\ Len(Script(sockOp, sockOptions)) \in Nat \ {0}

LEMMA ScriptFactHolds == ScriptFact
BY ScriptLeads, ScriptNotEmpty DEF ScriptFact

LEMMA ScriptFactNext == ScriptFact'
BY ScriptFactHolds, PTL

LEMMA EnterInv ==
    ASSUME SocketInv, Enter
    PROVE  SocketInv'
<1> DEFINE script == Script(sockOp, sockOptions)
           leaves == Forgotten \cup {"listener"}
<1>1. sockOp' \in SocketOp /\ sockAt' = 0 /\ sockReturn' = "none"
    BY DEF Enter, SocketInv
<1>2. sockHeld' = Handed' BY DEF Enter, Handed
<1>3. Leads(script', Handed', Product', leaves') /\ Len(script') \in Nat \ {0}
    BY <1>1, ScriptFactNext DEF ScriptFact
<1>4. PICK held \in [0..Len(script') -> SUBSET Resource] :
         Along(script', held, Handed', Product', leaves')
    BY <1>3 DEF Leads
<1>5. held[0] = Handed' BY <1>4 DEF Along
<1>6. OnTheWay' BY <1>1, <1>2, <1>4, <1>5 DEF OnTheWay
<1>7. sockAt' \in 0..(Len(script') - 1) BY <1>1, <1>3
<1>8. sockOp' # "none" BY <1>1 DEF SocketOp
<1> QED BY <1>1, <1>6, <1>7, <1>8 DEF SocketInv, NothingLeftOpen

LEMMA SucceedsInv ==
    ASSUME SocketInv, Succeeds
    PROVE  SocketInv'
<1> DEFINE script == Script(sockOp, sockOptions)
           leaves == Forgotten \cup {"listener"}
           n == Len(script)
           call == script[sockAt + 1]
<1>1. Running /\ sockOp \in SocketOp /\ sockAt \in 0..(n - 1) /\ OnTheWay
    BY DEF Succeeds, SocketInv, Running
<1>2. n \in Nat \ {0} BY <1>1, ScriptFactHolds DEF ScriptFact
<1>3. PICK held \in [0..n -> SUBSET Resource] :
         Along(script, held, Handed, Product, leaves) /\ sockHeld = held[sockAt]
    BY <1>1 DEF OnTheWay
<1>4. /\ "ok" \in call.may
      /\ sockHeld' = (sockHeld \ call.drops) \cup call.gains
      /\ sockReturn' = IF sockAt + 1 = n THEN "ok" ELSE "none"
      /\ sockAt' = sockAt + 1 /\ sockOp' = sockOp /\ sockOptions' = sockOptions
    BY DEF Succeeds
<1>5. /\ script' = script /\ Handed' = Handed /\ Product' = Product
      /\ Forgotten' = Forgotten
    BY <1>4 DEF Handed, Product, Forgotten
<1>6. sockHeld' = held[sockAt + 1]
    <2>1. sockAt + 1 \in 1..n /\ (sockAt + 1) - 1 = sockAt BY <1>1, <1>2
    <2>2. Step(call, held[(sockAt + 1) - 1], held[sockAt + 1], leaves)
        BY <2>1, <1>3 DEF Along
    <2>3. Step(call, sockHeld, held[sockAt + 1], leaves) BY <2>1, <2>2, <1>3
    <2> QED BY <2>3, <1>4 DEF Step
<1>7. OnTheWay'
    <2>1. /\ Along(script', held, Handed', Product', Forgotten' \cup {"listener"})
          /\ sockHeld' = held[sockAt'] /\ held \in [0..Len(script') -> SUBSET Resource]
        BY <1>3, <1>4, <1>5, <1>6
    <2> QED BY <2>1 DEF OnTheWay
<1>8. CASE sockAt + 1 = n
    <2>1. sockHeld' = Product' BY <1>8, <1>3, <1>5, <1>6 DEF Along
    <2> QED BY <2>1, <1>1, <1>4, <1>8 DEF SocketInv, NothingLeftOpen, Running
<1>9. CASE sockAt + 1 # n
    <2>1. sockAt' \in 0..(Len(script') - 1) BY <1>1, <1>2, <1>4, <1>5, <1>9
    <2> QED BY <2>1, <1>1, <1>4, <1>7, <1>9 DEF SocketInv, NothingLeftOpen, Running
<1> QED BY <1>8, <1>9

LEMMA FailsInv ==
    ASSUME SocketInv, FailsAndUndoes
    PROVE  SocketInv'
<1> DEFINE script == Script(sockOp, sockOptions)
           leaves == Forgotten \cup {"listener"}
           n == Len(script)
           call == script[sockAt + 1]
<1>1. Running /\ sockOp \in SocketOp /\ sockAt \in 0..(n - 1) /\ OnTheWay
    BY DEF FailsAndUndoes, SocketInv, Running
<1>2. n \in Nat \ {0} BY <1>1, ScriptFactHolds DEF ScriptFact
<1>3. PICK held \in [0..n -> SUBSET Resource] :
         Along(script, held, Handed, Product, leaves) /\ sockHeld = held[sockAt]
    BY <1>1 DEF OnTheWay
<1>4. /\ "failed" \in call.may /\ sockHeld' = sockHeld \ call.undo
      /\ sockReturn' = "failed" /\ sockOp' = sockOp
    BY DEF FailsAndUndoes
<1>5. sockHeld' \subseteq leaves
    <2>1. sockAt + 1 \in 1..n /\ (sockAt + 1) - 1 = sockAt BY <1>1, <1>2
    <2>2. Step(call, held[(sockAt + 1) - 1], held[sockAt + 1], leaves)
        BY <2>1, <1>3 DEF Along
    <2>3. Step(call, sockHeld, held[sockAt + 1], leaves) BY <2>1, <2>2, <1>3
    <2> QED BY <2>3, <1>4 DEF Step
<1>6. Forgotten' = Forgotten BY <1>4 DEF Forgotten
<1>7. sockOp' # "none" /\ ~Running' BY <1>1, <1>4 DEF SocketOp, Running
<1> QED BY <1>1, <1>4, <1>5, <1>6, <1>7 DEF SocketInv, NothingLeftOpen

(* A failed call of iperf's socket functions leaves no memory, mapping or   *)
(* address list behind and no descriptor but those of Forgotten, and a      *)
(* successful one exactly what its caller expects, whatever the options and *)
(* the combination of them, and whichever call fails.                       *)
THEOREM FailuresUndone == SocketInit /\ [][SocketNext]_sockVars => []NothingLeftOpen
<1>1. SocketInit => SocketInv
    BY DEF SocketInit, SocketInv, NothingLeftOpen, Running
<1>2. SocketInv /\ [SocketNext]_sockVars => SocketInv'
    <2> SUFFICES ASSUME SocketInv, [SocketNext]_sockVars PROVE SocketInv'
        OBVIOUS
    <2>1. CASE Enter BY <2>1, EnterInv
    <2>2. CASE Succeeds BY <2>2, SucceedsInv
    <2>3. CASE FailsAndUndoes BY <2>3, FailsInv
    <2>4. CASE UNCHANGED sockVars
        <3>1. SocketInv' <=> SocketInv
            BY <2>4 DEF sockVars, SocketInv, Running, OnTheWay, NothingLeftOpen, Handed,
                        Product, Forgotten
        <3> QED BY <3>1
    <2> QED BY <2>1, <2>2, <2>3, <2>4 DEF SocketNext
<1>3. SocketInv => NothingLeftOpen BY DEF SocketInv
<1> QED BY <1>1, <1>2, <1>3, PTL

-----------------------------------------------------------------------------
(* The entry fields *)

Names == {Empty, HostName, "other", "v6", "nothing"}
Host == {text \in [name : Names, ports : Seq(Nat)] :
           text.name # "v6" => Len(text.ports) <= 1}
Numbers == {Empty, "default", "other", "refused"}
Args == [host : Host, port : Nat, number : Numbers, download : BOOLEAN]

FormTypes ==
    /\ frmHost \in Host /\ frmPort \in Nat
    /\ frmNumber \in Numbers /\ frmDownload \in BOOLEAN
    /\ frmRunning \in BOOLEAN
    /\ frmRuns \in [1..MaxLaunches -> {"none", "runs", "completed", "ended"}]
    /\ frmCompleter \in [1..MaxLaunches -> Host]
    /\ frmArgs \in Args

(* Only a run that has not completed holds a host name to write *)
CompletersRun ==
    \A r \in 1..MaxLaunches : frmCompleter[r] # Nothing => frmRuns[r] = "runs"

(* The ways in which the fields may show the host of args: with its port,   *)
(* without it, or not at all, if it is the default                          *)
Shows(text, args) ==
    \/ text = Text(args.host.name, <<args.port>>)
    \/ text = Text(args.host.name, <<>>)
    \/ text = Text(Empty, <<>>) /\ args.host.name = HostName

Repeatable(args) == args # NoArgs /\ args.host.name \notin {Empty, "v6"}

FieldsShowRun ==
    Repeatable(frmArgs) =>
      /\ frmArgs.host.ports = <<>> /\ frmArgs.port # 0 /\ frmPort = frmArgs.port
      /\ Shows(frmHost, frmArgs)
      /\ \A r \in 1..MaxLaunches :
           frmCompleter[r] # Nothing => Shows(frmCompleter[r], frmArgs)
      /\ frmArgs.number # Empty
      /\ frmArgs.number = IF frmNumber = Empty THEN "default" ELSE frmNumber
      /\ frmArgs.download = frmDownload

FormInv == FormTypes /\ CompletersRun /\ FieldsShowRun

(* Texts *)
LEMMA TextType ==
    ASSUME NEW name \in Names, NEW ports \in Seq(Nat),
           name # "v6" => Len(ports) <= 1
    PROVE  Text(name, ports) \in Host
BY DEF Text, Host

LEMMA PlainText ==
    ASSUME NEW name \in Names
    PROVE  Text(name, <<>>) \in Host
<1>1. <<>> \in Seq(Nat) /\ Len(<<>>) <= 1 OBVIOUS
<1> QED BY <1>1, TextType

LEMMA PortText ==
    ASSUME NEW name \in Names, NEW port \in Nat
    PROVE  Text(name, <<port>>) \in Host
<1>1. <<port>> \in Seq(Nat) /\ Len(<<port>>) <= 1 OBVIOUS
<1> QED BY <1>1, TextType

LEMMA Different ==
    /\ Empty # HostName /\ Empty # "v6" /\ Empty # "default" /\ Empty # "other"
    /\ Empty # "refused" /\ Empty # "nothing" /\ HostName # "v6" /\ HostName # "nothing"
BY Zenon DEF Empty, HostName

LEMMA TypedType == ASSUME NEW text \in Typed PROVE text \in Host
<1>1. PICK n \in {Empty, HostName, "other", "v6"}, p \in {<<>>, <<0>>, <<9>>, <<PortNumber>>} :
         text = Text(n, p)
    BY DEF Typed
<1>2. n \in Names BY DEF Names
<1>3. p \in Seq(Nat) /\ Len(p) <= 1
    <2>1. <<>> \in Seq(Nat) /\ Len(<<>>) <= 1 OBVIOUS
    <2>2. ASSUME NEW port \in Nat PROVE <<port>> \in Seq(Nat) /\ Len(<<port>>) <= 1
        OBVIOUS
    <2>3. PortNumber \in Nat BY DEF PortNumber
    <2>4. CASE p = <<>> BY <2>1, <2>4
    <2>5. CASE p = <<0>> BY <2>2, <2>5
    <2>6. CASE p = <<9>> BY <2>2, <2>6
    <2>7. CASE p = <<PortNumber>> BY <2>2, <2>3, <2>7
    <2> QED BY <2>4, <2>5, <2>6, <2>7
<1> QED BY <1>1, <1>2, <1>3, TextType

LEMMA NothingType == Nothing \in Host
<1>1. "nothing" \in Names BY DEF Names
<1> QED BY <1>1, PlainText DEF Nothing

(* What launch makes of a text *)
Understood(text) == IF text = Text(Empty, <<>>) THEN Text(HostName, <<>>) ELSE text

LEMMA UnderstoodType ==
    ASSUME NEW text \in Host
    PROVE  Understood(text) \in Host
<1>1. Text(HostName, <<>>) \in Host BY PlainText DEF Names
<1> QED BY <1>1 DEF Understood

LEMMA SplitPort ==
    ASSUME NEW text \in Host, Splits(text)
    PROVE  text.ports[1] \in Nat /\ Text(text.name, <<>>) \in Host
           /\ text = Text(text.name, <<text.ports[1]>>)
<1>1. text.name \in Names /\ text.ports \in Seq(Nat) /\ Len(text.ports) = 1
    BY DEF Host, Splits
<1>2. text.ports[1] \in Nat BY <1>1
<1>3. text.ports = <<text.ports[1]>>
    <2>1. <<text.ports[1]>> \in Seq(Nat) /\ Len(<<text.ports[1]>>) = 1 BY <1>2
    <2>2. \A i \in 1..Len(text.ports) : text.ports[i] = <<text.ports[1]>>[i] BY <1>1
    <2> QED BY <1>1, <2>1, <2>2, SeqEqual
<1>4. text = Text(text.name, text.ports) BY DEF Text, Host
<1> QED BY <1>1, <1>2, <1>3, <1>4, PlainText

LEMMA BelowOne ==
    ASSUME NEW n \in Nat, n <= 1, n # 1
    PROVE  n = 0
OBVIOUS

LEMMA NoPorts ==
    ASSUME NEW text \in Host, ~Splits(text), text.name # "v6"
    PROVE  text = Text(text.name, <<>>)
<1>1. text.ports \in Seq(Nat) /\ Len(text.ports) = 0
    <2>1. text.ports \in Seq(Nat) /\ Len(text.ports) <= 1 BY DEF Host
    <2>2. Len(text.ports) # 1 BY DEF Splits
    <2>3. Len(text.ports) \in Nat BY <2>1
    <2>4. Len(text.ports) = 0 BY <2>1, <2>2, <2>3, BelowOne
    <2> QED BY <2>1, <2>4
<1>2. text.ports = <<>> BY <1>1
<1> QED BY <1>2 DEF Text, Host

LEMMA ArgsShownType ==
    ASSUME FormTypes
    PROVE  /\ ArgsShown \in Args /\ ArgsShown.port # 0 /\ ArgsShown.number # Empty
           /\ ArgsShown.number \in {"default", "other", "refused"}
           /\ ArgsShown.host.name # "v6" => ArgsShown.host.ports = <<>>
<1> DEFINE text == Understood(frmHost)
           host == IF Splits(text) THEN Text(text.name, <<>>) ELSE text
           port == OrDefaultPort(IF Splits(text) THEN text.ports[1] ELSE frmPort)
           number == IF frmNumber = Empty THEN "default" ELSE frmNumber
<1>1. ArgsShown = [host |-> host, port |-> port, number |-> number,
                   download |-> frmDownload]
    BY DEF ArgsShown, Understood
<1>2. text \in Host BY UnderstoodType DEF FormTypes
<1>3. host \in Host BY <1>2, SplitPort
<1>4. port \in Nat /\ port # 0
    <2>1. (IF Splits(text) THEN text.ports[1] ELSE frmPort) \in Nat
        BY <1>2, SplitPort DEF FormTypes
    <2> QED BY <2>1 DEF OrDefaultPort, PortNumber
<1>5. number \in {"default", "other", "refused"} /\ frmDownload \in BOOLEAN
    BY Different DEF FormTypes, Numbers
<1>6. host.name # "v6" => host.ports = <<>>
    <2>1. CASE Splits(text) BY <2>1 DEF Text
    <2>2. CASE ~Splits(text)
        <3>1. text.name # "v6" => text = Text(text.name, <<>>) BY <2>2, <1>2, NoPorts
        <3>2. Text(text.name, <<>>).ports = <<>> BY DEF Text
        <3> QED BY <2>2, <3>1, <3>2
    <2> QED BY <2>1, <2>2
<1> HIDE DEF text, host, port, number
<1>7. number \in Numbers /\ number # Empty BY <1>5, Different DEF Numbers
<1>8. ArgsShown \in Args BY <1>1, <1>3, <1>4, <1>5, <1>7 DEF Args
<1> QED BY <1>1, <1>4, <1>5, <1>6, <1>7, <1>8

(* The fields that show a run make the arguments of that run *)
LEMMA ShownAgain ==
    ASSUME FormTypes, FieldsShowRun, Repeatable(frmArgs)
    PROVE  ArgsShown = frmArgs
<1> DEFINE a == frmArgs
           name == frmArgs.host.name
           text == Understood(frmHost)
           host == IF Splits(text) THEN Text(text.name, <<>>) ELSE text
           port == OrDefaultPort(IF Splits(text) THEN text.ports[1] ELSE frmPort)
           number == IF frmNumber = Empty THEN "default" ELSE frmNumber
<1>1. ArgsShown = [host |-> host, port |-> port, number |-> number,
                   download |-> frmDownload]
    BY DEF ArgsShown, Understood
<1>2. /\ a \in Args /\ a.host.ports = <<>> /\ a.port # 0 /\ frmPort = a.port
      /\ Shows(frmHost, a) /\ a.number = number /\ a.download = frmDownload
      /\ name \notin {Empty, "v6"}
    BY DEF FormTypes, FieldsShowRun, Repeatable
<1>3. a.host = Text(name, <<>>) /\ a.port \in Nat BY <1>2 DEF Args, Host, Text
<1>4. text = Text(name, <<a.port>>) \/ text = Text(name, <<>>)
    <2>1. CASE frmHost = Text(name, <<a.port>>)
        <3>1. frmHost # Text(Empty, <<>>) BY <2>1, <1>2 DEF Text
        <3> QED BY <2>1, <3>1 DEF Understood
    <2>2. CASE frmHost = Text(name, <<>>)
        <3>1. frmHost # Text(Empty, <<>>) BY <2>2, <1>2 DEF Text
        <3> QED BY <2>2, <3>1 DEF Understood
    <2>3. CASE frmHost = Text(Empty, <<>>) /\ name = HostName
        BY <2>3 DEF Understood
    <2> QED BY <2>1, <2>2, <2>3, <1>2 DEF Shows
<1>5. host = Text(name, <<>>) /\ port = a.port
    <2>1. CASE text = Text(name, <<a.port>>)
        <3>1. text.name = name /\ text.ports = <<a.port>> BY <2>1 DEF Text
        <3>2. Len(<<a.port>>) = 1 /\ <<a.port>>[1] = a.port OBVIOUS
        <3>3. Splits(text) BY <3>1, <3>2, <1>2 DEF Splits
        <3> QED BY <3>1, <3>2, <3>3, <1>2 DEF OrDefaultPort
    <2>2. CASE text = Text(name, <<>>)
        <3>1. text.ports = <<>> BY <2>2 DEF Text
        <3>2. Len(<<>>) = 0 OBVIOUS
        <3>3. ~Splits(text) BY <3>1, <3>2 DEF Splits
        <3> QED BY <2>2, <3>3, <1>2 DEF OrDefaultPort
    <2> QED BY <1>4, <2>1, <2>2
<1> HIDE DEF text, host, port, number
<1>6. a = [host |-> a.host, port |-> a.port, number |-> a.number, download |-> a.download]
    BY <1>2 DEF Args
<1> QED BY <1>1, <1>2, <1>3, <1>5, <1>6

LEMMA NoArgsType == NoArgs \in Args
BY NothingType DEF NoArgs, Args, Numbers

(* An entry makes any run an older one *)
LEMMA EntryInv ==
    ASSUME FormInv, UpdateHostName \/ SetNumber \/ SetUploadDownload
    PROVE  FormInv'
<1>1. frmArgs' = NoArgs /\ frmRuns' = frmRuns /\ frmCompleter' = frmCompleter
      /\ frmRunning' = frmRunning
    BY DEF UpdateHostName, SetNumber, SetUploadDownload
<1>2. CompletersRun' /\ FieldsShowRun'
    BY <1>1 DEF FormInv, CompletersRun, FieldsShowRun, Repeatable
<1>3. FormTypes'
    <2>1. CASE UpdateHostName
        <3>1. PICK text \in Typed :
                 /\ frmHost' = text
                 /\ frmPort' = OrDefaultPort(IF Splits(text) THEN text.ports[1] ELSE frmPort)
            BY <2>1 DEF UpdateHostName
        <3>2. text \in Host BY TypedType
        <3>3. (IF Splits(text) THEN text.ports[1] ELSE frmPort) \in Nat
            BY <3>2, SplitPort DEF FormInv, FormTypes
        <3>4. frmPort' \in Nat BY <3>1, <3>3 DEF OrDefaultPort, PortNumber
        <3>5. frmNumber' = frmNumber /\ frmDownload' = frmDownload
            BY <2>1 DEF UpdateHostName
        <3> QED BY <1>1, <3>1, <3>2, <3>4, <3>5, NoArgsType DEF FormInv, FormTypes
    <2>2. CASE SetNumber
        <3>1. frmNumber' \in Numbers BY <2>2 DEF SetNumber, Numbers
        <3>2. frmHost' = frmHost /\ frmPort' = frmPort /\ frmDownload' = frmDownload
            BY <2>2 DEF SetNumber
        <3> QED BY <1>1, <3>1, <3>2, NoArgsType DEF FormInv, FormTypes
    <2>3. CASE SetUploadDownload
        BY <1>1, <2>3, NoArgsType DEF FormInv, FormTypes, SetUploadDownload
    <2> QED BY <2>1, <2>2, <2>3
<1> QED BY <1>2, <1>3 DEF FormInv

LEMMA LaunchInv ==
    ASSUME FormInv, Launch
    PROVE  FormInv'
<1> DEFINE a == ArgsShown
           name == ArgsShown.host.name
           ports == ArgsShown.host.ports
<1>1. /\ frmRunning' = TRUE /\ frmHost' = Text(name, Append(ports, a.port))
      /\ frmPort' = a.port /\ frmNumber' = a.number
      /\ frmArgs' = IF Alive = {} THEN a ELSE NoArgs
      /\ frmDownload' = frmDownload /\ frmCompleter' = frmCompleter
    BY DEF Launch
<1>2. /\ a \in Args /\ a.port # 0 /\ a.number # Empty
      /\ a.number \in {"default", "other", "refused"}
      /\ name # "v6" => ports = <<>>
    BY ArgsShownType DEF FormInv
<1>3. a.download = frmDownload BY DEF ArgsShown
<1>4. PICK r \in DOMAIN frmRuns :
         /\ frmRuns[r] = "none"
         /\ frmRuns' = [frmRuns EXCEPT ![r] =
                           IF frmNumber = "refused" THEN "completed" ELSE "runs"]
    BY DEF Launch
<1>5. name \in Names /\ ports \in Seq(Nat) /\ a.port \in Nat /\ a.host = Text(name, ports)
    BY <1>2 DEF Args, Host, Text
<1>6. name # "v6" => frmHost' = Text(name, <<a.port>>)
    <2>1. Append(<<>>, a.port) = <<a.port>> BY <1>5
    <2> QED BY <1>1, <1>2, <2>1
<1>7. FormTypes'
    <2>1. frmHost' \in Host
        <3>1. CASE name # "v6" BY <3>1, <1>5, <1>6, PortText
        <3>2. CASE name = "v6"
            <4>1. Append(ports, a.port) \in Seq(Nat) BY <1>5
            <4> QED BY <3>2, <4>1, <1>1, <1>5, TextType
        <3> QED BY <3>1, <3>2
    <2>2. frmNumber' \in Numbers /\ frmPort' \in Nat BY <1>1, <1>2, <1>5 DEF Numbers
    <2>3. frmArgs' \in Args BY <1>1, <1>2, NoArgsType
    <2>4. frmRuns' \in [1..MaxLaunches -> {"none", "runs", "completed", "ended"}]
        BY <1>4 DEF FormInv, FormTypes
    <2> HIDE DEF a, name, ports
    <2> QED BY <1>1, <2>1, <2>2, <2>3, <2>4 DEF FormInv, FormTypes
<1>8. CompletersRun'
    <2> SUFFICES ASSUME NEW q \in 1..MaxLaunches, frmCompleter'[q] # Nothing
                 PROVE  frmRuns'[q] = "runs"
        BY DEF CompletersRun
    <2>1. frmRuns[q] = "runs" BY <1>1 DEF FormInv, CompletersRun
    <2>2. q # r BY <1>4, <2>1
    <2> QED BY <1>4, <2>1, <2>2 DEF FormInv, FormTypes
<1>9. FieldsShowRun'
    <2> SUFFICES ASSUME Repeatable(frmArgs')
                 PROVE  /\ frmArgs'.host.ports = <<>> /\ frmArgs'.port # 0
                        /\ frmPort' = frmArgs'.port /\ Shows(frmHost', frmArgs')
                        /\ \A q \in 1..MaxLaunches :
                             frmCompleter'[q] # Nothing => Shows(frmCompleter'[q], frmArgs')
                        /\ frmArgs'.number # Empty
                        /\ frmArgs'.number = IF frmNumber' = Empty THEN "default" ELSE frmNumber'
                        /\ frmArgs'.download = frmDownload'
        BY DEF FieldsShowRun
    <2>1. Alive = {} /\ frmArgs' = a BY <1>1 DEF Repeatable
    <2>2. name # "v6" BY <2>1 DEF Repeatable
    <2>3. Shows(frmHost', a) BY <1>6, <2>2 DEF Shows
    <2>4. \A q \in 1..MaxLaunches : frmCompleter'[q] = Nothing
        <3> SUFFICES ASSUME NEW q \in 1..MaxLaunches, frmCompleter[q] # Nothing PROVE FALSE
            BY <1>1
        <3>1. frmRuns[q] = "runs" /\ q \in DOMAIN frmRuns
            BY DEF FormInv, CompletersRun, FormTypes
        <3> QED BY <2>1, <3>1 DEF Alive
    <2>5. frmArgs'.host.ports = <<>> BY <1>2, <2>1, <2>2
    <2> HIDE DEF a
    <2> QED BY <1>1, <1>2, <1>3, <2>1, <2>3, <2>4, <2>5
<1> QED BY <1>7, <1>8, <1>9 DEF FormInv

(* Blanking a default does not change what the fields show *)
LEMMA BlankInv ==
    ASSUME FormInv, BlankDefaults, frmPort' = frmPort, frmDownload' = frmDownload,
           frmCompleter' = frmCompleter, frmArgs' = frmArgs, frmRunning' \in BOOLEAN,
           frmRuns' \in [1..MaxLaunches -> {"none", "runs", "completed", "ended"}],
           CompletersRun'
    PROVE  FormInv'
<1>1. /\ frmHost' = IF frmHost # Text(HostName, <<>>) THEN frmHost ELSE Text(Empty, <<>>)
      /\ frmNumber' = IF frmNumber # "default" THEN frmNumber ELSE Empty
    BY DEF BlankDefaults, Blank
<1>2. Text(Empty, <<>>) \in Host BY PlainText DEF Names
<1>3. FormTypes' BY <1>1, <1>2 DEF FormInv, FormTypes, Numbers
<1>4. FieldsShowRun'
    <2> SUFFICES ASSUME Repeatable(frmArgs)
                 PROVE  /\ Shows(frmHost', frmArgs)
                        /\ frmArgs.number = IF frmNumber' = Empty THEN "default" ELSE frmNumber'
        BY DEF FormInv, FieldsShowRun
    <2>1. Shows(frmHost, frmArgs) /\ frmArgs.number # Empty
          /\ frmArgs.number = IF frmNumber = Empty THEN "default" ELSE frmNumber
        BY DEF FormInv, FieldsShowRun
    <2>2. Shows(frmHost', frmArgs)
        <3>1. CASE frmHost = Text(HostName, <<>>)
            <4>1. Len(<<frmArgs.port>>) = 1 /\ Len(<<>>) = 0 OBVIOUS
            <4>2. Text(HostName, <<>>) # Text(frmArgs.host.name, <<frmArgs.port>>)
                BY <4>1 DEF Text
            <4>3. Text(HostName, <<>>) # Text(Empty, <<>>) BY Different DEF Text
            <4>4. Text(HostName, <<>>) = Text(frmArgs.host.name, <<>>)
                BY <2>1, <3>1, <4>2, <4>3 DEF Shows
            <4>5. frmArgs.host.name = HostName BY <4>4 DEF Text
            <4> QED BY <1>1, <3>1, <4>5 DEF Shows
        <3>2. CASE frmHost # Text(HostName, <<>>) BY <1>1, <2>1, <3>2
        <3> QED BY <3>1, <3>2
    <2>3. frmArgs.number = IF frmNumber' = Empty THEN "default" ELSE frmNumber'
        BY <1>1, <2>1, Different
    <2> QED BY <2>2, <2>3
<1> QED BY <1>3, <1>4 DEF FormInv

LEMMA CancelInv ==
    ASSUME FormInv, Cancel
    PROVE  FormInv'
<1>1. CompletersRun' BY DEF FormInv, CompletersRun, Cancel
<1>2. frmRuns' \in [1..MaxLaunches -> {"none", "runs", "completed", "ended"}]
    BY DEF FormInv, FormTypes, Cancel
<1>3. /\ BlankDefaults /\ frmPort' = frmPort /\ frmDownload' = frmDownload
      /\ frmCompleter' = frmCompleter /\ frmArgs' = frmArgs /\ frmRunning' \in BOOLEAN
    BY DEF Cancel
<1> QED BY <1>1, <1>2, <1>3, BlankInv

LEMMA EndInv ==
    ASSUME FormInv, NEW r \in DOMAIN frmRuns, RunEndsOf(r)
    PROVE  FormInv'
<1>1. frmRuns' = [frmRuns EXCEPT ![r] = "ended"] /\ frmRuns[r] = "completed"
    BY DEF RunEndsOf
<1>2. CompletersRun'
    <2> SUFFICES ASSUME NEW q \in 1..MaxLaunches, frmCompleter'[q] # Nothing
                 PROVE  frmRuns'[q] = "runs"
        BY DEF CompletersRun
    <2>1. frmRuns[q] = "runs" BY DEF FormInv, CompletersRun, RunEndsOf
    <2>2. q # r BY <1>1, <2>1
    <2> QED BY <1>1, <2>1, <2>2 DEF FormInv, FormTypes
<1>3. frmRuns' \in [1..MaxLaunches -> {"none", "runs", "completed", "ended"}]
    BY <1>1 DEF FormInv, FormTypes
<1>4. /\ BlankDefaults /\ frmPort' = frmPort /\ frmDownload' = frmDownload
      /\ frmCompleter' = frmCompleter /\ frmArgs' = frmArgs /\ frmRunning' \in BOOLEAN
    BY DEF RunEndsOf
<1> QED BY <1>2, <1>3, <1>4, BlankInv

LEMMA ReadsInv ==
    ASSUME FormInv, NEW r \in DOMAIN frmRuns, CompleteReads(r)
    PROVE  FormInv'
<1> DEFINE text == Understood(frmHost)
           port == IF Splits(text) THEN text.ports[1] ELSE frmPort
           stripped == IF Splits(text) THEN Text(text.name, <<>>) ELSE text
           writes == IF port # PortNumber THEN frmHost ELSE stripped
<1>1. /\ frmCompleter' = [frmCompleter EXCEPT ![r] = writes] /\ frmRuns[r] = "runs"
      /\ frmHost' = frmHost /\ frmPort' = frmPort /\ frmNumber' = frmNumber
      /\ frmDownload' = frmDownload /\ frmRunning' = frmRunning /\ frmRuns' = frmRuns
      /\ frmArgs' = frmArgs
    BY DEF CompleteReads, Understood
<1>2. r \in 1..MaxLaunches /\ frmHost \in Host
      /\ frmCompleter \in [1..MaxLaunches -> Host]
    BY DEF FormInv, FormTypes
<1>3. text \in Host BY <1>2, UnderstoodType
<1>4. stripped \in Host BY <1>3, SplitPort
<1>5. writes \in Host BY <1>2, <1>4
<1>6. Repeatable(frmArgs) => Shows(writes, frmArgs)
    <2> SUFFICES ASSUME Repeatable(frmArgs) PROVE Shows(writes, frmArgs)
        OBVIOUS
    <2> DEFINE name == frmArgs.host.name
    <2>1. Shows(frmHost, frmArgs) BY DEF FormInv, FieldsShowRun
    <2>2. name \notin {Empty, "v6"} BY DEF Repeatable
    <2>3. text = Text(name, <<frmArgs.port>>) \/ text = Text(name, <<>>)
        <3>1. CASE frmHost = Text(name, <<frmArgs.port>>)
            <4>1. frmHost # Text(Empty, <<>>) BY <3>1, <2>2 DEF Text
            <4> QED BY <3>1, <4>1 DEF Understood
        <3>2. CASE frmHost = Text(name, <<>>)
            <4>1. frmHost # Text(Empty, <<>>) BY <3>2, <2>2 DEF Text
            <4> QED BY <3>2, <4>1 DEF Understood
        <3>3. CASE frmHost = Text(Empty, <<>>) /\ name = HostName
            BY <3>3 DEF Understood
        <3> QED BY <3>1, <3>2, <3>3, <2>1 DEF Shows
    <2>4. stripped = Text(name, <<>>)
        <3>1. text.name = name BY <2>3 DEF Text
        <3>2. CASE Splits(text) BY <3>1, <3>2
        <3>3. CASE ~Splits(text)
            <4>1. text = Text(text.name, <<>>) BY <3>1, <3>3, <2>2, <1>3, NoPorts
            <4> QED BY <3>1, <3>3, <4>1
        <3> QED BY <3>2, <3>3
    <2> HIDE DEF stripped, text, port
    <2> QED BY <2>1, <2>4 DEF Shows
<1> HIDE DEF writes
<1>7. FormTypes' BY <1>1, <1>2, <1>5 DEF FormInv, FormTypes
<1>8. CompletersRun' BY <1>1, <1>2 DEF FormInv, CompletersRun
<1>9. FieldsShowRun' BY <1>1, <1>2, <1>6 DEF FormInv, FieldsShowRun
<1> QED BY <1>7, <1>8, <1>9 DEF FormInv

LEMMA WritesInv ==
    ASSUME FormInv, NEW r \in DOMAIN frmRuns, CompleteWrites(r)
    PROVE  FormInv'
<1>1. /\ frmCompleter[r] # Nothing /\ frmRuns[r] = "runs"
      /\ frmHost' = frmCompleter[r]
      /\ frmCompleter' = [frmCompleter EXCEPT ![r] = Nothing]
      /\ frmPort' = frmPort /\ frmNumber' = frmNumber
      /\ frmDownload' = frmDownload /\ frmRunning' = frmRunning
      /\ frmArgs' = frmArgs
    BY DEF CompleteWrites
<1>2. PICK last \in BOOLEAN :
         frmRuns' = [frmRuns EXCEPT ![r] = IF last THEN "completed" ELSE "runs"]
    BY DEF CompleteWrites
<1>3. r \in 1..MaxLaunches /\ frmCompleter \in [1..MaxLaunches -> Host]
      /\ frmRuns \in [1..MaxLaunches -> {"none", "runs", "completed", "ended"}]
    BY DEF FormInv, FormTypes
<1>4. FormTypes' BY <1>1, <1>2, <1>3, NothingType DEF FormInv, FormTypes
<1>5. CompletersRun' BY <1>1, <1>2, <1>3 DEF FormInv, CompletersRun
<1>6. FieldsShowRun' BY <1>1, <1>3 DEF FormInv, FieldsShowRun
<1> QED BY <1>4, <1>5, <1>6 DEF FormInv

(* Launching again without touching a field repeats the run, however often, *)
(* and however its end, its completion and a cancel have blanked the fields *)
(* in between: for any number of runs, the exceptions of the property       *)
(* excepted.                                                                *)
THEOREM SameRunAgain == FormSpec => []RunsWhatIsShown
<1>1. FormInit => FormInv
    <2> SUFFICES ASSUME FormInit PROVE FormInv
        OBVIOUS
    <2>1. Text(Empty, <<>>) \in Host BY PlainText DEF Names
    <2>2. FormTypes BY <2>1, NothingType, NoArgsType DEF FormInit, FormTypes, Numbers
    <2> QED BY <2>2 DEF FormInit, FormInv, CompletersRun, FieldsShowRun, Repeatable
<1>2. FormInv /\ [FormNext]_frmVars => FormInv'
    <2> SUFFICES ASSUME FormInv, [FormNext]_frmVars PROVE FormInv'
        OBVIOUS
    <2>1. CASE UpdateHostName \/ SetNumber \/ SetUploadDownload BY <2>1, EntryInv
    <2>2. CASE Launch BY <2>2, LaunchInv
    <2>3. CASE Cancel BY <2>3, CancelInv
    <2>4. ASSUME NEW r \in DOMAIN frmRuns,
                 CompleteReads(r) \/ CompleteWrites(r) \/ RunEndsOf(r)
          PROVE  FormInv'
        BY <2>4, ReadsInv, WritesInv, EndInv
    <2>5. CASE UNCHANGED frmVars
        BY <2>5 DEF frmVars, FormInv, FormTypes, CompletersRun, FieldsShowRun
    <2> QED BY <2>1, <2>2, <2>3, <2>4, <2>5 DEF FormNext
<1>3. FormInv => RunsWhatIsShown
    BY ShownAgain DEF FormInv, RunsWhatIsShown, Repeatable
<1> QED BY <1>1, <1>2, <1>3, PTL DEF FormSpec

-----------------------------------------------------------------------------
(* The statistics of a run *)

LEMMA RawOf ==
    ASSUME NEW rate \in Rates
    PROVE  /\ rate.value \in 0..1000 /\ rate.unit \in Units
           /\ rate.unit # "bits/sec" => rate.value > 0
           /\ rate.unit = "bits/sec" => FromHumanUnit(rate) = rate.value * 2
           /\ rate.unit = "Kbits/sec" => FromHumanUnit(rate) = rate.value * 2048
           /\ rate.unit = "Mbits/sec" => FromHumanUnit(rate) = rate.value * 2097152
<1>1. rate.value \in 0..1000 /\ rate.unit \in Units BY SMT, MonitorAssumption
<1>2. rate.unit # "bits/sec" => rate.value > 0 BY SMT, MonitorAssumption
<1>3. 2 * 1024 = 2048 /\ 2 * 1024 * 1024 = 2097152 BY SMT
<1> QED BY SMT, <1>1, <1>2, <1>3 DEF FromHumanUnit, Units

LEMMA Products ==
    ASSUME NEW v \in 0..1000
    PROVE  /\ v * 2 \in Nat /\ v * 2 < 2147483647 /\ (v * 2 > 1 <=> v > 0)
           /\ v * 2048 \in Nat /\ v * 2048 < 2147483647 /\ (v * 2048 > 1 <=> v > 0)
           /\ v * 2097152 \in Nat /\ v * 2097152 < 2147483647
           /\ v * 2097152 > 1 <=> v > 0
BY SMT

LEMMA RawType ==
    ASSUME NEW rate \in Rates
    PROVE  /\ FromHumanUnit(rate) \in Nat /\ FromHumanUnit(rate) < Highest
           /\ FromHumanUnit(rate) > Least <=> rate.value > 0
<1> DEFINE v == rate.value
           raw == FromHumanUnit(rate)
<1>1. Highest = 2147483647 /\ Least = 1 BY DEF Highest, Least
<1>2. v \in 0..1000 /\ rate.unit \in Units BY SMT, RawOf
<1>3. raw = v * 2 \/ raw = v * 2048 \/ raw = v * 2097152 BY SMT, RawOf DEF Units
<1> HIDE DEF raw, v
<1>4. raw \in Nat /\ raw < 2147483647 /\ (raw > 1 <=> v > 0)
    BY SMT, <1>2, <1>3, Products
<1> QED BY <1>1, <1>4 DEF raw, v

(* Two factors, a thousand and 1024, and one order *)
LEMMA SameOrder ==
    ASSUME NEW one \in Rates, NEW other \in Rates,
           FromHumanUnit(one) <= FromHumanUnit(other)
    PROVE  ~Faster(one, other)
<1> DEFINE bits(rate) == rate.value * (CASE rate.unit = "Kbits/sec" -> 1000
                                         [] rate.unit = "Mbits/sec" -> 1000000
                                         [] OTHER                   -> 1)
           v == one.value
           w == other.value
<1>1. ASSUME NEW rate \in Rates
      PROVE  /\ rate.unit = "bits/sec" => bits(rate) = rate.value
             /\ rate.unit = "Kbits/sec" => bits(rate) = rate.value * 1000
             /\ rate.unit = "Mbits/sec" => bits(rate) = rate.value * 1000000
    <2>0. rate.value \in 0..1000 BY RawOf
    <2>1. rate.unit = "bits/sec" => bits(rate) = rate.value
        <3>1. rate.value * 1 = rate.value BY SMT, <2>0
        <3>2. rate.unit = "bits/sec" => bits(rate) = rate.value * 1 BY SMT
        <3> QED BY <3>1, <3>2
    <2>2. rate.unit = "Kbits/sec" => bits(rate) = rate.value * 1000 BY SMT
    <2>3. rate.unit = "Mbits/sec" => bits(rate) = rate.value * 1000000 BY SMT
    <2> QED BY <2>1, <2>2, <2>3
<1>2. Faster(one, other) <=> bits(one) > bits(other) BY SMT DEF Faster
<1>3. v \in 0..1000 /\ w \in 0..1000 BY SMT, RawOf
<1>4. /\ one.unit = "bits/sec" => bits(one) = v /\ FromHumanUnit(one) = v * 2
      /\ one.unit = "Kbits/sec" => bits(one) = v * 1000 /\ FromHumanUnit(one) = v * 2048 /\ v > 0
      /\ one.unit = "Mbits/sec" =>
           bits(one) = v * 1000000 /\ FromHumanUnit(one) = v * 2097152 /\ v > 0
    BY SMT, <1>1, RawOf
<1>5. /\ other.unit = "bits/sec" => bits(other) = w /\ FromHumanUnit(other) = w * 2
      /\ other.unit = "Kbits/sec" =>
           bits(other) = w * 1000 /\ FromHumanUnit(other) = w * 2048 /\ w > 0
      /\ other.unit = "Mbits/sec" =>
           bits(other) = w * 1000000 /\ FromHumanUnit(other) = w * 2097152 /\ w > 0
    BY SMT, <1>1, RawOf
<1>6. one.unit \in Units /\ other.unit \in Units BY SMT, RawOf
<1> HIDE DEF bits, v, w
<1>7. CASE one.unit = "bits/sec"
    <2>1. CASE other.unit = "bits/sec"
        <3>1. v * 2 <= w * 2 /\ (Faster(one, other) <=> v > w)
            BY SMT, <1>2, <1>4, <1>5, <1>7, <2>1
        <3> QED BY SMT, <1>3, <3>1
    <2>2. CASE other.unit = "Kbits/sec"
        <3>1. v * 2 <= w * 2048 /\ (Faster(one, other) <=> v > w * 1000)
            BY SMT, <1>2, <1>4, <1>5, <1>7, <2>2
        <3>2. w > 0 BY SMT, <1>4, <1>5, <1>7, <2>2
        <3> QED BY SMT, <1>3, <3>1, <3>2
    <2>3. CASE other.unit = "Mbits/sec"
        <3>1. v * 2 <= w * 2097152 /\ (Faster(one, other) <=> v > w * 1000000)
            BY SMT, <1>2, <1>4, <1>5, <1>7, <2>3
        <3>2. w > 0 BY SMT, <1>4, <1>5, <1>7, <2>3
        <3> QED BY SMT, <1>3, <3>1, <3>2
    <2> QED BY SMT, <1>6, <2>1, <2>2, <2>3 DEF Units
<1>8. CASE one.unit = "Kbits/sec"
    <2>1. CASE other.unit = "bits/sec"
        <3>1. v * 2048 <= w * 2 /\ (Faster(one, other) <=> v * 1000 > w)
            BY SMT, <1>2, <1>4, <1>5, <1>8, <2>1
        <3>2. v > 0 BY SMT, <1>4, <1>5, <1>8, <2>1
        <3> QED BY SMT, <1>3, <3>1, <3>2
    <2>2. CASE other.unit = "Kbits/sec"
        <3>1. v * 2048 <= w * 2048 /\ (Faster(one, other) <=> v * 1000 > w * 1000)
            BY SMT, <1>2, <1>4, <1>5, <1>8, <2>2
        <3>2. v > 0 /\ w > 0 BY SMT, <1>4, <1>5, <1>8, <2>2
        <3> QED BY SMT, <1>3, <3>1, <3>2
    <2>3. CASE other.unit = "Mbits/sec"
        <3>1. v * 2048 <= w * 2097152 /\ (Faster(one, other) <=> v * 1000 > w * 1000000)
            BY SMT, <1>2, <1>4, <1>5, <1>8, <2>3
        <3>2. v > 0 /\ w > 0 BY SMT, <1>4, <1>5, <1>8, <2>3
        <3> QED BY SMT, <1>3, <3>1, <3>2
    <2> QED BY SMT, <1>6, <2>1, <2>2, <2>3 DEF Units
<1>9. CASE one.unit = "Mbits/sec"
    <2>1. CASE other.unit = "bits/sec"
        <3>1. v * 2097152 <= w * 2 /\ (Faster(one, other) <=> v * 1000000 > w)
            BY SMT, <1>2, <1>4, <1>5, <1>9, <2>1
        <3>2. v > 0 BY SMT, <1>4, <1>5, <1>9, <2>1
        <3> QED BY SMT, <1>3, <3>1, <3>2
    <2>2. CASE other.unit = "Kbits/sec"
        <3>1. v * 2097152 <= w * 2048 /\ (Faster(one, other) <=> v * 1000000 > w * 1000)
            BY SMT, <1>2, <1>4, <1>5, <1>9, <2>2
        <3>2. v > 0 /\ w > 0 BY SMT, <1>4, <1>5, <1>9, <2>2
        <3> QED BY SMT, <1>3, <3>1, <3>2
    <2>3. CASE other.unit = "Mbits/sec"
        <3>1. v * 2097152 <= w * 2097152 /\ (Faster(one, other) <=> v * 1000000 > w * 1000000)
            BY SMT, <1>2, <1>4, <1>5, <1>9, <2>3
        <3>2. v > 0 /\ w > 0 BY SMT, <1>4, <1>5, <1>9, <2>3
        <3> QED BY SMT, <1>3, <3>1, <3>2
    <2> QED BY SMT, <1>6, <2>1, <2>2, <2>3 DEF Units
<1> QED BY SMT, <1>6, <1>7, <1>8, <1>9 DEF Units

(* What a state of the monitor is; nothing is said of average and history *)
Fields(s) ==
    /\ DOMAIN s = {"gathered", "number", "samples", "omitted", "messages",
                   "finished", "max", "min", "average", "history"}
    /\ s.gathered \in BOOLEAN /\ s.finished \in BOOLEAN
    /\ s.number \in Int /\ s.samples \in Int /\ s.omitted \in Nat
    /\ s.messages \in Nat /\ s.max \in Nat /\ s.min \in Nat

Kinds == {"omitted", "measured", "sender", "receiver"}

LEMMA ResetFields ==
    ASSUME NEW history
    PROVE  Fields(Reset(history)) /\ Reset(history).gathered = FALSE
<1>1. Highest \in Nat /\ Least \in Nat BY DEF Highest, Least
<1> QED BY <1>1 DEF Fields, Reset

(* Everything but the messages and whether anything is gathered *)
SameNumbers(s, t) ==
    /\ t.number = s.number /\ t.omitted = s.omitted /\ t.samples = s.samples
    /\ t.finished = s.finished /\ t.max = s.max /\ t.min = s.min
    /\ t.average = s.average /\ t.history = s.history

(* What one result makes of a state *)
Follows(s, kind, start, rate, t) ==
    /\ Fields(t) /\ t.gathered = s.gathered /\ t.messages = s.messages
    /\ kind = "omitted" =>
         /\ t.number = s.number + 1 /\ t.omitted = s.omitted + 1
         /\ t.samples = s.samples /\ t.finished = s.finished
         /\ t.max = s.max /\ t.min = s.min
         /\ t.average = s.average /\ t.history = s.history
    /\ kind \in {"sender", "receiver"} =>
         /\ t.finished = TRUE /\ t.omitted = s.omitted
         /\ t.samples = IF s.finished THEN s.samples ELSE s.samples + 1
         /\ t.max = s.max /\ t.min = s.min
         /\ t.average = IF s.finished THEN s.average ELSE FromHumanUnit(rate)
         /\ t.history = s.history
    /\ kind = "measured" =>
         /\ t.number = start /\ t.omitted = s.omitted
         /\ t.samples = s.samples + 1 /\ t.finished = s.finished
         /\ t.max = UpdateMax(s.max, FromHumanUnit(rate))
         /\ t.min = UpdateMin(s.min, FromHumanUnit(rate))
         /\ t.history = Append(s.history, FromHumanUnit(rate))
         /\ t.average = AverageOf(t.history)

LEMMA ResultFields ==
    ASSUME NEW s, Fields(s), NEW kind \in Kinds, NEW id, NEW start \in Nat,
           NEW rate \in Rates
    PROVE  Follows(s, kind, start, rate, Result(s, OutputLine(kind, id, start, rate)))
<1> DEFINE raw == FromHumanUnit(rate)
           line == OutputLine(kind, id, start, rate)
           history == Append(s.history, raw)
           average == AverageOf(history)
           t == Result(s, line)
<1>0. line.kind = kind /\ line.start = start /\ line.rate = rate BY DEF OutputLine
<1>1. raw \in Nat BY RawType
<1>2. CASE kind = "omitted"
    <2>1. t = [s EXCEPT !.number = s.number + 1, !.omitted = s.omitted + 1]
        BY <1>0, <1>2 DEF Result
    <2>2. DOMAIN t = DOMAIN s BY <2>1 DEF Fields
    <2>3. /\ t.gathered = s.gathered /\ t.number = s.number + 1
          /\ t.omitted = s.omitted + 1 /\ t.samples = s.samples
          /\ t.messages = s.messages
          /\ t.finished = s.finished /\ t.max = s.max /\ t.min = s.min
          /\ t.average = s.average /\ t.history = s.history
        BY <2>1 DEF Fields
    <2>4. Fields(t) BY <2>2, <2>3 DEF Fields
    <2> QED BY <1>2, <2>3, <2>4 DEF Follows
<1>3. CASE kind \in {"sender", "receiver"}
    <2>1. t = [s EXCEPT !.number = s.number + 1, !.finished = TRUE,
                        !.samples = IF s.finished THEN s.samples ELSE s.samples + 1,
                        !.average = IF s.finished THEN s.average ELSE raw]
        BY <1>0, <1>3 DEF Result
    <2>2. DOMAIN t = DOMAIN s BY <2>1 DEF Fields
    <2>3. /\ t.gathered = s.gathered /\ t.number = s.number + 1
          /\ t.omitted = s.omitted /\ t.finished = TRUE
          /\ t.messages = s.messages
          /\ t.samples = IF s.finished THEN s.samples ELSE s.samples + 1
          /\ t.max = s.max /\ t.min = s.min
          /\ t.average = IF s.finished THEN s.average ELSE raw
          /\ t.history = s.history
        BY <2>1 DEF Fields
    <2>4. t.samples \in Int /\ t.number \in Int BY <2>1, <2>3 DEF Fields
    <2>5. Fields(t) BY <2>2, <2>3, <2>4 DEF Fields
    <2> QED BY <1>3, <2>3, <2>5 DEF Follows
<1>4. CASE kind = "measured"
    <2>1. t = [s EXCEPT !.number = start, !.history = history, !.average = average,
                        !.max = UpdateMax(s.max, raw), !.min = UpdateMin(s.min, raw),
                        !.samples = s.samples + 1]
        BY <1>0, <1>4 DEF Result
    <2> HIDE DEF raw, history, average
    <2>2. DOMAIN t = DOMAIN s BY <2>1 DEF Fields
    <2>3. /\ t.gathered = s.gathered /\ t.number = start
          /\ t.omitted = s.omitted /\ t.finished = s.finished
          /\ t.messages = s.messages /\ t.samples = s.samples + 1
          /\ t.max = UpdateMax(s.max, raw) /\ t.min = UpdateMin(s.min, raw)
          /\ t.history = history /\ t.average = average
        BY <2>1 DEF Fields
    <2>4. /\ t.max = (IF raw > s.max THEN raw ELSE s.max)
          /\ t.min = (IF raw < s.min THEN raw ELSE s.min)
        BY <2>3 DEF UpdateMax, UpdateMin
    <2>5. Fields(t) BY <1>1, <2>2, <2>3, <2>4 DEF Fields
    <2>6. t.history = Append(s.history, raw) /\ t.average = AverageOf(t.history)
        BY <2>3 DEF history, average
    <2> QED BY <1>4, <2>3, <2>5, <2>6 DEF raw, Follows
<1> QED BY <1>2, <1>3, <1>4 DEF Kinds

PlainKinds == {"text", "header", "connected"}

(* Heading, connection and text change nothing that is counted *)
LEMMA PlainFields ==
    ASSUME NEW s, Fields(s), NEW kind \in PlainKinds,
           NEW t, t = ProcessLine(s, Plain(kind)),
           s.gathered = TRUE \/ kind # "header"
    PROVE  /\ Fields(t) /\ SameNumbers(s, t)
           /\ s.gathered = TRUE \/ kind = "connected" => t.gathered = TRUE
           /\ kind = "header" => t = s
           /\ t.gathered = FALSE => s.gathered = FALSE
<1>0. Plain(kind).kind = kind BY DEF Plain, OutputLine
<1>1. t = Gather(s, Plain(kind)) BY <1>0 DEF ProcessLine, IsResult, PlainKinds
<1>2. CASE kind = "text"
    <2>1. t = [s EXCEPT !.messages = s.messages + 1] BY <1>0, <1>1, <1>2 DEF Gather
    <2>2. DOMAIN t = DOMAIN s BY <2>1 DEF Fields
    <2>3. t.messages = s.messages + 1 /\ t.gathered = s.gathered /\ SameNumbers(s, t)
        BY <2>1 DEF Fields, SameNumbers
    <2>4. t.messages \in Nat BY <2>3 DEF Fields
    <2>5. Fields(t) BY Zenon, <2>2, <2>3, <2>4 DEF Fields, SameNumbers
    <2> QED BY <1>2, <2>3, <2>5 DEF Fields
<1>3. CASE s.gathered /\ kind # "text"
    <2>1. t = s BY <1>0, <1>1, <1>3 DEF Gather
    <2> QED BY <1>3, <2>1 DEF Fields, SameNumbers
<1>4. CASE ~s.gathered /\ kind = "connected"
    <2>1. t = [s EXCEPT !.gathered = TRUE, !.messages = s.messages + 2]
        BY <1>0, <1>1, <1>4 DEF Gather
    <2>2. DOMAIN t = DOMAIN s BY <2>1 DEF Fields
    <2>3. t.messages = s.messages + 2 /\ t.gathered = TRUE /\ SameNumbers(s, t)
        BY <2>1 DEF Fields, SameNumbers
    <2>4. t.messages \in Nat BY <2>3 DEF Fields
    <2>5. Fields(t) BY Zenon, <2>2, <2>3, <2>4 DEF Fields, SameNumbers
    <2> QED BY <1>4, <2>3, <2>5
<1> QED BY <1>2, <1>3, <1>4 DEF PlainKinds

-----------------------------------------------------------------------------
(* What the callback has seen *)

Seen(seen) == seen.number \in Int /\ seen.messages \in Nat

(* m seconds are omitted, n are measured *)
SeenRight(m, n, seen) ==
    /\ \A x \in seen.told : x \in Nat /\ 0 < x /\ x <= n
    /\ \A k \in seen.covered : k \in Nat /\ k < n
    /\ seen.shown = ShownSeconds(m, n, seen.covered, seen.told)

NumberOf(m, n) == IF n = 0 THEN m - 1 ELSE n - 1

LastIs(m, n, seen) ==
    /\ seen.told = {} => seen.number = (IF m > n THEN m - 1 ELSE n - 1)
    /\ seen.told # {} => seen.number = n - 1

LEMMA LookSees ==
    ASSUME NEW seen, Seen(seen), NEW state, Fields(state), NEW n, NEW second
    PROVE  Seen(Look(seen, state, n, second))
BY DEF Seen, Fields, Look

(* A line that is not of a second measured *)
LEMMA LookAgain ==
    ASSUME NEW seen, Seen(seen), NEW state, Fields(state), NEW m \in Nat, NEW n \in Nat,
           SeenRight(m, n, seen), NEW t, t = Look(seen, state, n, {})
    PROVE  /\ SeenRight(m, n, t)
           /\ LastIs(m, n, seen) /\ state.number = NumberOf(m, n) => LastIs(m, n, t)
<1> DEFINE news == state.messages > seen.messages
<1>0. /\ state.number \in Int /\ seen.number \in Int
      /\ \A x \in seen.told : x \in Nat /\ 0 < x /\ x <= n
    BY DEF Fields, Seen, SeenRight
<1>1. CASE ~news /\ state.number <= seen.number BY <1>1 DEF Look
<1>2. CASE ~(~news /\ state.number <= seen.number)
    <2>1. /\ t.number = state.number /\ t.shown = seen.shown /\ t.covered = seen.covered
          /\ t.told = seen.told \cup (IF news /\ n > 0 THEN {n} ELSE {})
        BY <1>2 DEF Look
    <2>2. \A x \in t.told : x \in Nat /\ 0 < x /\ x <= n BY <1>0, <2>1
    <2>3. ASSUME NEW k \in 0..(n - 1)
          PROVE  (\E x \in t.told : x <= k) <=> (\E x \in seen.told : x <= k)
        BY <1>0, <2>1
    <2>4. ShownSeconds(m, n, t.covered, t.told)
            = ShownSeconds(m, n, seen.covered, seen.told)
        BY <2>1, <2>3 DEF ShownSeconds
    <2>5. SeenRight(m, n, t) BY <2>1, <2>2, <2>4 DEF SeenRight
    <2>6. ASSUME LastIs(m, n, seen), state.number = NumberOf(m, n)
          PROVE  LastIs(m, n, t)
        <3>1. CASE ~news
            <4>1. state.number > seen.number BY <1>0, <1>2, <3>1
            <4>2. seen.told # {} => n > 0 BY <1>0
            <4> QED BY <1>0, <2>6, <4>1, <4>2 DEF LastIs, NumberOf
        <3>2. CASE news /\ n = 0
            <4>1. t.told = {} BY <1>0, <2>1, <3>2
            <4> QED BY <2>1, <2>6, <3>2, <4>1 DEF LastIs, NumberOf
        <3>3. CASE news /\ n > 0
            <4>1. t.told # {} BY <2>1, <3>3
            <4> QED BY <2>1, <2>6, <3>3, <4>1 DEF LastIs, NumberOf
        <3> QED BY <3>1, <3>2, <3>3
    <2> QED BY <2>5, <2>6
<1> QED BY <1>1, <1>2

(* An omitted second: its number is above the last *)
LEMMA LookOmitted ==
    ASSUME NEW seen, Seen(seen), NEW state, Fields(state), NEW m \in Nat,
           SeenRight(m, 0, seen), LastIs(m, 0, seen), state.number = m,
           NEW t, t = Look(seen, state, 0, {})
    PROVE  SeenRight(m + 1, 0, t) /\ LastIs(m + 1, 0, t)
<1>1. seen.told = {} /\ seen.covered = {} /\ seen.shown = {}
    <2>1. \A x \in seen.told : x \in Nat /\ 0 < x /\ x <= 0 BY DEF SeenRight
    <2>2. \A k \in seen.covered : k \in Nat /\ k < 0 BY DEF SeenRight
    <2>3. seen.shown = {} BY DEF SeenRight, ShownSeconds
    <2> QED BY <2>1, <2>2, <2>3
<1>2. seen.number = m - 1 BY <1>1 DEF LastIs
<1>3. ~(state.number <= seen.number) BY <1>2
<1>4. t.number = m /\ t.told = {} /\ t.covered = {} /\ t.shown = {}
    BY <1>1, <1>3 DEF Look
<1>5. ShownSeconds(m + 1, 0, t.covered, t.told) = {} BY DEF ShownSeconds
<1>6. SeenRight(m + 1, 0, t) BY <1>4, <1>5 DEF SeenRight
<1>7. LastIs(m + 1, 0, t) BY <1>4 DEF LastIs
<1> QED BY <1>6, <1>7

(* A measured second *)
LEMMA LookSecond ==
    ASSUME NEW seen, Seen(seen), NEW state, Fields(state), NEW m \in Nat, NEW n \in Nat,
           SeenRight(m, n, seen), LastIs(m, n, seen), state.number = n,
           NEW t, t = Look(seen, state, n + 1, {n})
    PROVE  SeenRight(m, n + 1, t) /\ LastIs(m, n + 1, t)
<1> DEFINE news == state.messages > seen.messages
<1>0. /\ \A x \in seen.told : x \in Nat /\ 0 < x /\ x <= n
      /\ \A k \in seen.covered : k \in Nat /\ k < n
      /\ seen.shown = ShownSeconds(m, n, seen.covered, seen.told)
      /\ seen.number \in Int
    BY DEF SeenRight, Seen
<1>1. 0..((n + 1) - 1) = (0..(n - 1)) \cup {n} /\ n \notin 0..(n - 1)
    OBVIOUS
<1>2. CASE news
    <2>1. /\ t.number = n /\ t.shown = seen.shown
          /\ t.covered = seen.covered \cup {n} /\ t.told = seen.told \cup {n + 1}
        BY <1>2 DEF Look
    <2>2. ASSUME NEW x \in t.told PROVE x \in Nat /\ 0 < x /\ x <= n + 1
        <3>1. x \in seen.told \/ x = n + 1 BY <2>1
        <3> QED BY <1>0, <3>1
    <2>3. ASSUME NEW k \in t.covered PROVE k \in Nat /\ k < n + 1
        <3>1. k \in seen.covered \/ k = n BY <2>1
        <3> QED BY <1>0, <3>1
    <2>4. ASSUME NEW k \in 0..(n - 1)
          PROVE  /\ (\E x \in t.told : x <= k) <=> (\E x \in seen.told : x <= k)
                 /\ k \in t.covered <=> k \in seen.covered
        <3>1. k \in Int /\ k < n BY <2>4
        <3>2. ~(n + 1 <= k) /\ k # n BY <3>1
        <3> QED BY <2>1, <3>2
    <2>5. ShownSeconds(m, n + 1, t.covered, t.told)
            = ShownSeconds(m, n, seen.covered, seen.told)
        BY <1>1, <2>1, <2>4 DEF ShownSeconds
    <2>6. SeenRight(m, n + 1, t) BY <1>0, <2>1, <2>2, <2>3, <2>5 DEF SeenRight
    <2>7. t.told # {} BY <2>1
    <2>8. LastIs(m, n + 1, t)
        <3>1. (n + 1) - 1 = n OBVIOUS
        <3> QED BY <2>1, <2>7, <3>1 DEF LastIs
    <2> QED BY <2>6, <2>8
<1>3. CASE ~news /\ ~(n <= seen.number)
    <2>1. /\ t.number = n /\ t.shown = seen.shown \cup {n}
          /\ t.covered = seen.covered /\ t.told = seen.told
        BY <1>3 DEF Look
    <2>2. seen.told = {} => m <= n BY <1>3 DEF LastIs
    <2>3. n >= m \/ \E x \in seen.told : x <= n BY <1>0, <2>2
    <2>4. n \notin seen.covered BY <1>0
    <2>5. ShownSeconds(m, n + 1, t.covered, t.told)
            = ShownSeconds(m, n, seen.covered, seen.told) \cup {n}
        BY <1>1, <2>1, <2>3, <2>4 DEF ShownSeconds
    <2>6. \A x \in t.told : x \in Nat /\ 0 < x /\ x <= n + 1 BY <1>0, <2>1
    <2>7. \A k \in t.covered : k \in Nat /\ k < n + 1 BY <1>0, <2>1
    <2>8. SeenRight(m, n + 1, t) BY <1>0, <2>1, <2>5, <2>6, <2>7 DEF SeenRight
    <2>9. LastIs(m, n + 1, t)
        <3>1. (n + 1) - 1 = n OBVIOUS
        <3>2. t.told = {} => ~(m > n + 1) BY <2>1, <2>2
        <3> QED BY <2>1, <3>1, <3>2 DEF LastIs
    <2> QED BY <2>8, <2>9
<1>4. CASE ~news /\ n <= seen.number
    <2>1. t = seen BY <1>4 DEF Look
    <2>2. seen.told = {} /\ m > n BY <1>0, <1>4 DEF LastIs
    <2>3. ~(n >= m) /\ ~(\E x \in t.told : x <= n) BY <2>1, <2>2
    <2>4. ShownSeconds(m, n + 1, t.covered, t.told)
            = ShownSeconds(m, n, seen.covered, seen.told)
        BY <1>1, <2>1, <2>3 DEF ShownSeconds
    <2>5. \A x \in t.told : x \in Nat /\ 0 < x /\ x <= n + 1 BY <1>0, <2>1
    <2>6. \A k \in t.covered : k \in Nat /\ k < n + 1 BY <1>0, <2>1
    <2>7. SeenRight(m, n + 1, t) BY <1>0, <2>1, <2>4, <2>5, <2>6 DEF SeenRight
    <2>8. LastIs(m, n + 1, t)
        <3>1. t.told = {} /\ t.number = m - 1 BY <2>1, <2>2 DEF LastIs
        <3>2. (n + 1) - 1 = n /\ (m > n + 1 \/ m = n + 1) BY <2>2
        <3> QED BY <3>1, <3>2 DEF LastIs
    <2> QED BY <2>7, <2>8
<1> QED BY <1>2, <1>3, <1>4

(* One line, neither a result nor the first heading *)
LEMMA PlainRead ==
    ASSUME NEW mon, Fields(mon.state), Seen(mon.seen), NEW n,
           NEW kind \in PlainKinds,
           mon.state.gathered = TRUE \/ kind # "header",
           NEW t, t = Read(mon, Plain(kind), n)
    PROVE  /\ Fields(t.state) /\ SameNumbers(mon.state, t.state)
           /\ mon.state.gathered = TRUE \/ kind = "connected" => t.state.gathered = TRUE
           /\ Seen(t.seen) /\ t.seen = Look(mon.seen, t.state, n, {})
<1> DEFINE state == ProcessLine(mon.state, Plain(kind))
<1>1. Plain(kind).kind = kind BY DEF Plain, OutputLine
<1>2. t = [state |-> state, seen |-> Look(mon.seen, state, n, {})]
    BY <1>1 DEF Read, PlainKinds
<1>3. /\ Fields(state) /\ SameNumbers(mon.state, state)
      /\ mon.state.gathered = TRUE \/ kind = "connected" => state.gathered = TRUE
    BY PlainFields
<1> HIDE DEF state
<1>4. t.state = state /\ t.seen = Look(mon.seen, state, n, {}) BY <1>2
<1>5. Seen(t.seen) BY <1>3, <1>4, LookSees
<1> QED BY <1>3, <1>4, <1>5

(* m and n as before, and the state still counts with them *)
Right(mon, m, n) ==
    /\ SeenRight(m, n, mon.seen)
    /\ mon.state.number = NumberOf(m, n) /\ LastIs(m, n, mon.seen)

LEMMA PlainRight ==
    ASSUME NEW mon, Fields(mon.state), Seen(mon.seen), NEW m \in Nat, NEW n \in Nat,
           NEW kind \in PlainKinds,
           mon.state.gathered = TRUE \/ kind # "header",
           NEW t, t = Read(mon, Plain(kind), n)
    PROVE  /\ SeenRight(m, n, mon.seen) => SeenRight(m, n, t.seen)
           /\ Right(mon, m, n) => Right(t, m, n)
<1>0. /\ Fields(t.state) /\ SameNumbers(mon.state, t.state)
      /\ t.seen = Look(mon.seen, t.state, n, {})
    <2>1. /\ Fields(Read(mon, Plain(kind), n).state)
          /\ SameNumbers(mon.state, Read(mon, Plain(kind), n).state)
          /\ Read(mon, Plain(kind), n).seen
               = Look(mon.seen, Read(mon, Plain(kind), n).state, n, {})
        BY PlainRead
    <2> QED BY <2>1
<1>1. /\ Fields(t.state) /\ t.state.number = mon.state.number
      /\ t.seen = Look(mon.seen, t.state, n, {})
    BY <1>0 DEF SameNumbers
<1>2. ASSUME SeenRight(m, n, mon.seen) PROVE SeenRight(m, n, t.seen)
    BY <1>1, <1>2, LookAgain
<1>3. ASSUME Right(mon, m, n) PROVE Right(t, m, n)
    BY <1>1, <1>3, LookAgain DEF Right
<1> QED BY <1>2, <1>3

(* A line of one of several streams: the callback looks, and that is all *)
Glance(mon, n) == [state |-> mon.state, seen |-> Look(mon.seen, mon.state, n, {})]

LEMMA GlanceRead ==
    ASSUME monParallel = TRUE, NEW mon, NEW n, NEW kind \in Kinds, NEW start
    PROVE  Read(mon, OutputLine(kind, "stream", start, NoRate), n) = Glance(mon, n)
<1> DEFINE line == OutputLine(kind, "stream", start, NoRate)
<1>1. line.kind = kind /\ line.id = "stream" BY DEF OutputLine
<1>2. ~IsResult(mon.state, line) BY <1>1 DEF IsResult
<1>3. ProcessLine(mon.state, line) = mon.state
    BY <1>1, <1>2 DEF ProcessLine, Gather, Kinds
<1> QED BY <1>2, <1>3 DEF Read, Glance

LEMMA GlanceRight ==
    ASSUME NEW mon, Fields(mon.state), Seen(mon.seen), NEW n \in Nat,
           NEW t, t = Glance(mon, n)
    PROVE  /\ t.state = mon.state /\ Seen(t.seen)
           /\ \A m \in Nat : /\ SeenRight(m, n, mon.seen) => SeenRight(m, n, t.seen)
                             /\ Right(mon, m, n) => Right(t, m, n)
<1>1. t.state = mon.state /\ t.seen = Look(mon.seen, mon.state, n, {}) BY DEF Glance
<1>2. Seen(t.seen) BY <1>1, LookSees
<1>3. ASSUME NEW m \in Nat, SeenRight(m, n, mon.seen) PROVE SeenRight(m, n, t.seen)
    BY <1>1, <1>3, LookAgain
<1>4. ASSUME NEW m \in Nat, Right(mon, m, n) PROVE Right(t, m, n)
    BY <1>1, <1>4, LookAgain DEF Right
<1> QED BY <1>1, <1>2, <1>3, <1>4

(* The line that counts *)
ReadResult(mon, kind, state) ==
    [state |-> state,
     seen  |-> IF kind = "measured"
               THEN Look(mon.seen, state, Measured + 1, {Measured})
               ELSE Look(mon.seen, state, Measured, {})]

LEMMA ResultRead ==
    ASSUME NEW mon, mon.state.gathered = TRUE, NEW kind \in Kinds, NEW start, NEW rate,
           NEW id, id = "SUM" \/ ~monParallel
    PROVE  LET line == OutputLine(kind, id, start, rate) IN
           Read(mon, line, Measured) = ReadResult(mon, kind, Result(mon.state, line))
<1> DEFINE line == OutputLine(kind, id, start, rate)
<1>1. line.kind = kind /\ line.id = id BY DEF OutputLine
<1>2. IsResult(mon.state, line) BY <1>1 DEF IsResult, Kinds
<1>3. ProcessLine(mon.state, line) = Result(mon.state, line) BY <1>2 DEF ProcessLine
<1>4. {Measured} # {} OBVIOUS
<1>5. CASE kind = "measured" BY <1>1, <1>2, <1>3, <1>4, <1>5 DEF Read, ReadResult
<1>6. CASE kind # "measured" BY <1>1, <1>3, <1>6 DEF Read, ReadResult
<1> QED BY <1>5, <1>6

(* mid is what monitor and callback are before the line that counts, which  *)
(* makes t of them                                                          *)
Midway(mon, kind, t, mid) ==
    /\ mid.state = mon.state /\ Seen(mid.seen)
    /\ \A m \in Nat :
          /\ SeenRight(m, Measured, mon.seen) => SeenRight(m, Measured, mid.seen)
          /\ Right(mon, m, Measured) => Right(mid, m, Measured)
    /\ t.seen = ReadResult(mid, kind, t.state).seen

(* The lines of a second or of a summary *)
LEMMA LinesRead ==
    ASSUME NEW mon, Fields(mon.state), mon.state.gathered = TRUE, Seen(mon.seen),
           monParallel \in BOOLEAN, Measured \in Nat,
           NEW kind \in Kinds, NEW start \in Nat, NEW rate \in Rates,
           NEW t, t = LinesOf(mon, kind, start, rate)
    PROVE  /\ Follows(mon.state, kind, start, rate, t.state) /\ Seen(t.seen)
           /\ \E mid : Midway(mon, kind, t, mid)
<1> DEFINE one == Glance(mon, Measured)
           two == Glance(one, Measured)
           mid == IF monParallel THEN two ELSE mon
           id == IF monParallel THEN "SUM" ELSE "stream"
           line == OutputLine(kind, id, start, rate)
<1>1. /\ one.state = mon.state /\ Seen(one.seen)
      /\ \A m \in Nat :
            /\ SeenRight(m, Measured, mon.seen) => SeenRight(m, Measured, one.seen)
            /\ Right(mon, m, Measured) => Right(one, m, Measured)
    BY GlanceRight
<1> HIDE DEF one
<1>2. /\ two.state = mon.state /\ Seen(two.seen)
      /\ \A m \in Nat :
            /\ SeenRight(m, Measured, one.seen) => SeenRight(m, Measured, two.seen)
            /\ Right(one, m, Measured) => Right(two, m, Measured)
    BY <1>1, GlanceRight
<1> HIDE DEF two
<1>3. /\ mid.state = mon.state /\ Seen(mid.seen)
      /\ \A m \in Nat :
            /\ SeenRight(m, Measured, mon.seen) => SeenRight(m, Measured, mid.seen)
            /\ Right(mon, m, Measured) => Right(mid, m, Measured)
    BY <1>1, <1>2
<1>4. t = Read(mid, line, Measured)
    <2>1. CASE monParallel
        <3>1. Read(mon, OutputLine(kind, "stream", start, NoRate), Measured) = one
            BY <2>1, GlanceRead DEF one
        <3>2. Read(one, OutputLine(kind, "stream", start, NoRate), Measured) = two
            BY <2>1, GlanceRead DEF two
        <3> QED BY <2>1, <3>1, <3>2 DEF LinesOf
    <2>2. CASE ~monParallel BY <2>2 DEF LinesOf
    <2> QED BY <2>1, <2>2
<1>5. mid.state.gathered = TRUE /\ (id = "SUM" \/ ~monParallel) BY <1>3
<1> HIDE DEF mid, id
<1>6. t = ReadResult(mid, kind, Result(mid.state, line))
    BY <1>4, <1>5, ResultRead
<1>7. t.state = Result(mon.state, line) BY <1>3, <1>6 DEF ReadResult
<1>8. t.seen = ReadResult(mid, kind, t.state).seen BY <1>3, <1>6, <1>7 DEF ReadResult
<1>9. Follows(mon.state, kind, start, rate, t.state)
    BY Zenon, <1>7, ResultFields
<1>10. Fields(t.state) BY <1>9 DEF Follows
<1>11. Seen(t.seen) BY <1>3, <1>8, <1>10, LookSees DEF ReadResult
<1>12. Midway(mon, kind, t, mid) BY <1>3, <1>8 DEF Midway
<1> QED BY <1>9, <1>11, <1>12

-----------------------------------------------------------------------------
(* Maximum, minimum and average *)

(* max and min are those of the seconds measured *)
Extremes(samples, max, min) ==
    /\ samples = <<>> => max = Least /\ min = Highest
    /\ \A n \in DOMAIN samples :
          min <= FromHumanUnit(samples[n]) /\ FromHumanUnit(samples[n]) <= max
    /\ max = Least \/ \E n \in DOMAIN samples : max = FromHumanUnit(samples[n])
    /\ samples # <<>> => \E n \in DOMAIN samples : min = FromHumanUnit(samples[n])

LEMMA OneMore ==
    ASSUME NEW samples \in Seq(Rates), NEW max \in Nat, NEW min \in Nat,
           Extremes(samples, max, min), NEW rate \in Rates
    PROVE  Extremes(Append(samples, rate), UpdateMax(max, FromHumanUnit(rate)),
                    UpdateMin(min, FromHumanUnit(rate)))
<1> DEFINE more == Append(samples, rate)
           raw == FromHumanUnit(rate)
           last == Len(samples) + 1
<1>1. raw \in Nat /\ raw < Highest BY RawType
<1>2. /\ DOMAIN more = DOMAIN samples \cup {last} /\ more[last] = rate
      /\ \A n \in DOMAIN samples : more[n] = samples[n]
      /\ more # <<>>
    OBVIOUS
<1>3. \A n \in DOMAIN samples : FromHumanUnit(samples[n]) \in Nat BY RawType
<1>4. samples = <<>> => DOMAIN samples = {} OBVIOUS
<1> HIDE DEF more, raw, last
<1>5. /\ UpdateMax(max, raw) \in Nat /\ UpdateMax(max, raw) >= max
      /\ UpdateMax(max, raw) >= raw
      /\ UpdateMin(min, raw) \in Nat /\ UpdateMin(min, raw) <= min
      /\ UpdateMin(min, raw) <= raw
    BY <1>1 DEF UpdateMax, UpdateMin
<1>6. \A n \in DOMAIN more : /\ UpdateMin(min, raw) <= FromHumanUnit(more[n])
                             /\ FromHumanUnit(more[n]) <= UpdateMax(max, raw)
    <2>1. ASSUME NEW n \in DOMAIN samples
          PROVE  /\ UpdateMin(min, raw) <= FromHumanUnit(more[n])
                 /\ FromHumanUnit(more[n]) <= UpdateMax(max, raw)
        <3>1. /\ min <= FromHumanUnit(samples[n])
              /\ FromHumanUnit(samples[n]) <= max
            BY DEF Extremes
        <3> QED BY <1>2, <1>3, <1>5, <3>1
    <2> QED BY <1>2, <1>5, <2>1 DEF raw
<1>7. \/ UpdateMax(max, raw) = Least
      \/ \E n \in DOMAIN more : UpdateMax(max, raw) = FromHumanUnit(more[n])
    <2>1. CASE UpdateMax(max, raw) = raw BY <1>2, <2>1 DEF raw
    <2>2. CASE UpdateMax(max, raw) # raw
        <3>1. UpdateMax(max, raw) = max BY <2>2 DEF UpdateMax
        <3>2. CASE max = Least BY <3>1, <3>2
        <3>3. CASE max # Least
            <4>1. PICK n \in DOMAIN samples : max = FromHumanUnit(samples[n])
                BY <3>3 DEF Extremes
            <4> QED BY <1>2, <3>1, <4>1
        <3> QED BY <3>2, <3>3
    <2> QED BY <2>1, <2>2
<1>8. \E n \in DOMAIN more : UpdateMin(min, raw) = FromHumanUnit(more[n])
    <2>1. CASE UpdateMin(min, raw) = raw BY <1>2, <2>1 DEF raw
    <2>2. CASE UpdateMin(min, raw) # raw
        <3>1. UpdateMin(min, raw) = min /\ ~(raw < min)
            BY <1>1, <2>2 DEF UpdateMin
        <3>2. samples # <<>> BY <1>1, <3>1 DEF Extremes
        <3>3. PICK n \in DOMAIN samples : min = FromHumanUnit(samples[n])
            BY <3>2 DEF Extremes
        <3> QED BY <1>2, <3>1, <3>3
    <2> QED BY <2>1, <2>2
<1> QED BY <1>2, <1>6, <1>7, <1>8 DEF Extremes, more, raw

LEMMA ExtremesAreOfRates ==
    ASSUME monSamples \in Seq(Rates), Extremes(monSamples, monState.max, monState.min)
    PROVE  ExtremesOfRun
<1> DEFINE max == monState.max
           min == monState.min
<1>0. MeasuredRates = {} => monSamples = <<>> BY DEF MeasuredRates
<1>1. CASE MeasuredRates = {} BY <1>0, <1>1 DEF ExtremesOfRun, Extremes
<1>2. CASE MeasuredRates # {}
    <2>1. monSamples # <<>> BY <1>2 DEF MeasuredRates
    <2>2. MeasuredRates \subseteq Rates BY DEF MeasuredRates
    <2>3. \A rate \in MeasuredRates :
             min <= FromHumanUnit(rate) /\ FromHumanUnit(rate) <= max
        BY DEF MeasuredRates, Extremes
    <2>4. \E rate \in MeasuredRates : Slowest(rate) /\ min = FromHumanUnit(rate)
        <3>1. PICK k \in DOMAIN monSamples : min = FromHumanUnit(monSamples[k])
            BY <2>1 DEF Extremes
        <3>2. monSamples[k] \in MeasuredRates BY DEF MeasuredRates
        <3>3. Slowest(monSamples[k]) BY <2>2, <2>3, <3>1, <3>2, SameOrder DEF Slowest
        <3> QED BY <3>1, <3>2, <3>3
    <2>5. \E rate \in MeasuredRates : Fastest(rate) /\ MaximumIsOf(rate)
        <3>1. CASE max = Least
            <4>1. PICK rate \in MeasuredRates : TRUE BY <1>2
            <4>2. ASSUME NEW other \in MeasuredRates
                  PROVE  other \in Rates /\ other.value = 0 /\ FromHumanUnit(other) = 0
                <5>1. other \in Rates BY <2>2
                <5>2. /\ FromHumanUnit(other) \in Nat /\ FromHumanUnit(other) <= Least
                      /\ Least = 1 /\ other.value \in 0..1000
                      /\ FromHumanUnit(other) > Least <=> other.value > 0
                    BY <2>3, <3>1, <5>1, RawType, RawOf DEF Least
                <5>3. other.value = 0
                    <6>1. ~(FromHumanUnit(other) > Least) BY <5>2
                    <6>2. ~(other.value > 0) /\ other.value \in 0..1000 BY <5>2, <6>1
                    <6>3. \A v \in 0..1000 : ~(v > 0) => v = 0 OBVIOUS
                    <6> QED BY <6>2, <6>3
                <5>4. /\ other.unit \in Units /\ ~(other.value > 0)
                      /\ other.unit # "bits/sec" => other.value > 0
                      /\ other.unit = "bits/sec" => FromHumanUnit(other) = other.value * 2
                    BY <5>1, <5>3, RawOf
                <5>5. FromHumanUnit(other) = other.value * 2 BY <5>4
                <5> QED BY <5>1, <5>3, <5>5
            <4>3. Fastest(rate) BY <4>2, SameOrder DEF Fastest
            <4>4. MaximumIsOf(rate) BY <3>1, <4>2 DEF MaximumIsOf, Least
            <4> QED BY <4>3, <4>4
        <3>2. CASE max # Least
            <4>1. PICK n \in DOMAIN monSamples : max = FromHumanUnit(monSamples[n])
                BY <3>2 DEF Extremes
            <4>2. monSamples[n] \in MeasuredRates BY DEF MeasuredRates
            <4>3. Fastest(monSamples[n])
                BY <2>2, <2>3, <4>1, <4>2, SameOrder DEF Fastest
            <4>4. max > Least <=> monSamples[n].value > 0
                BY <2>2, <4>1, <4>2, RawType
            <4>5. MaximumIsOf(monSamples[n]) BY <4>1, <4>4 DEF MaximumIsOf
            <4> QED BY <4>2, <4>3, <4>5
        <3> QED BY <3>1, <3>2
    <2> QED BY <1>2, <2>4, <2>5 DEF ExtremesOfRun
<1> QED BY <1>1, <1>2

(* The history is of the earlier runs and of this one *)
Averaged(s, samples, earlier, sent) ==
    /\ s.history = Raws(earlier \o samples)
    /\ samples # <<>> =>
          s.average = IF s.finished THEN FromHumanUnit(sent) ELSE AverageOf(s.history)

LEMMA RawsMore ==
    ASSUME NEW earlier \in Seq(Rates), NEW samples \in Seq(Rates), NEW rate \in Rates
    PROVE  Raws(earlier \o Append(samples, rate))
             = Append(Raws(earlier \o samples), FromHumanUnit(rate))
<1> DEFINE all == earlier \o samples
           raw == FromHumanUnit(rate)
           more == Append(all, rate)
<1>1. all \in Seq(Rates) /\ earlier \o Append(samples, rate) = more OBVIOUS
<1> HIDE DEF all
<1>2. /\ Len(all) \in Nat /\ Len(more) = Len(all) + 1 /\ more \in Seq(Rates) /\ more[Len(all) + 1] = rate
      /\ \A k \in 1..Len(all) : more[k] = all[k]
    BY <1>1
<1> HIDE DEF more
<1>3. /\ Raws(all) \in Seq(Nat) /\ Len(Raws(all)) = Len(all)
      /\ \A k \in 1..Len(all) : Raws(all)[k] = FromHumanUnit(all[k])
    BY <1>1, RawType DEF Raws
<1>4. raw \in Nat BY RawType
<1> HIDE DEF raw
<1>5. /\ Raws(more) \in Seq(Nat) /\ Len(Raws(more)) = Len(all) + 1
      /\ \A k \in 1..Len(all) + 1 : Raws(more)[k] = FromHumanUnit(more[k])
    <2>1. \A k \in 1..Len(all) + 1 : more[k] \in Rates BY <1>1, <1>2
    <2>2. \A k \in 1..Len(all) + 1 : FromHumanUnit(more[k]) \in Nat BY <2>1, RawType
    <2> QED BY <1>2, <2>2 DEF Raws
<1>6. /\ Append(Raws(all), raw) \in Seq(Nat)
      /\ Len(Append(Raws(all), raw)) = Len(all) + 1
      /\ \A k \in 1..Len(all) : Append(Raws(all), raw)[k] = Raws(all)[k]
      /\ Append(Raws(all), raw)[Len(all) + 1] = raw
    BY <1>3, <1>4, AppendProperties
<1>7. ASSUME NEW k \in 1..Len(all) + 1
      PROVE  Raws(more)[k] = Append(Raws(all), raw)[k]
    <2>1. CASE k = Len(all) + 1
        <3>1. Raws(more)[k] = raw BY <1>2, <1>5, <2>1 DEF raw
        <3> QED BY <1>6, <2>1, <3>1
    <2>2. CASE k # Len(all) + 1
        <3>1. k \in 1..Len(all) BY <1>2, <2>2
        <3> QED BY <1>2, <1>3, <1>5, <1>6, <3>1
    <2> QED BY <2>1, <2>2
<1>8. Raws(more) = Append(Raws(all), raw) BY <1>5, <1>6, <1>7, SeqEqual
<1> QED BY <1>1, <1>8 DEF all, raw

-----------------------------------------------------------------------------
(* What a state, what the callback has seen and the seconds measured have   *)
(* to do with one another in a phase                                        *)
Counted(phase, mon, n) ==
    LET s == mon.state
    IN  /\ phase # "end" => s.finished = FALSE /\ Right(mon, s.omitted, n)
        /\ phase \in {"idle", "start"} => s.omitted = 0
        /\ phase \in {"idle", "start", "omit"} => n = 0
        /\ s.samples = n - (IF s.finished THEN 0 ELSE 1)
        /\ SeenRight(s.omitted, n, mon.seen)

MonitorTypes ==
    /\ monParallel \in BOOLEAN /\ Fields(monState) /\ Seen(monSeen)
    /\ monPhase \in {"idle", "start", "omit", "measure", "end"}
    /\ monPhase \in {"omit", "measure"} => monState.gathered = TRUE
    /\ monSamples \in Seq(Rates) /\ monEarlier \in Seq(Rates)

MonitorCounts == Counted(monPhase, Monitored, Measured)
MonitorExtremes == Extremes(monSamples, monState.max, monState.min)
MonitorAverage == Averaged(monState, monSamples, monEarlier, monSent)

MonitorInv ==
    /\ MonitorTypes
    /\ monRun \notin monStray => MonitorCounts /\ MonitorExtremes
    /\ monStray = {} => MonitorAverage

LEMMA MonitoredIs ==
    /\ Monitored.state = monState /\ Monitored.seen = monSeen
    /\ Monitored'.state = monState' /\ Monitored'.seen = monSeen'
BY DEF Monitored

LEMMA NoSamples == <<>> \in Seq(Rates) /\ Len(<<>>) = 0
OBVIOUS

LEMMA BeginsInv ==
    ASSUME NEW phase \in {"idle", "start"}, NEW history,
           NEW mon, mon.state = Reset(history), mon.seen = NothingSeen
    PROVE  /\ Fields(mon.state) /\ Seen(mon.seen) /\ Counted(phase, mon, 0)
           /\ Extremes(<<>>, mon.state.max, mon.state.min)
           /\ mon.state.history = history
<1>1. /\ mon.state.omitted = 0 /\ mon.state.finished = FALSE
      /\ mon.state.number = -1 /\ mon.state.samples = -1
      /\ mon.state.max = Least /\ mon.state.min = Highest
      /\ mon.state.history = history
    BY DEF Reset
<1>2. /\ mon.seen.number = -1 /\ mon.seen.messages = 0 /\ mon.seen.shown = {}
      /\ mon.seen.covered = {} /\ mon.seen.told = {}
    BY DEF NothingSeen
<1>3. SeenRight(0, 0, mon.seen)
    <2>1. ShownSeconds(0, 0, mon.seen.covered, mon.seen.told) = {} BY DEF ShownSeconds
    <2> QED BY <1>2, <2>1 DEF SeenRight
<1>4. LastIs(0, 0, mon.seen) /\ NumberOf(0, 0) = -1 BY <1>2 DEF LastIs, NumberOf
<1>5. Right(mon, 0, 0) BY <1>1, <1>3, <1>4 DEF Right
<1>6. Counted(phase, mon, 0) BY <1>1, <1>3, <1>5 DEF Counted
<1>7. Fields(mon.state) BY ResetFields
<1>8. Seen(mon.seen) BY <1>2 DEF Seen
<1>9. Extremes(<<>>, mon.state.max, mon.state.min) BY <1>1, NoSamples DEF Extremes
<1> QED BY <1>1, <1>6, <1>7, <1>8, <1>9

LEMMA MonitorBegins == ASSUME MonitorInit PROVE MonitorInv
<1>1. Monitored.state = Reset(<<>>) /\ Monitored.seen = NothingSeen
    BY MonitoredIs DEF MonitorInit
<1>2. /\ Fields(monState) /\ Seen(monSeen) /\ Counted("idle", Monitored, 0)
      /\ Extremes(<<>>, monState.max, monState.min)
      /\ monState.history = <<>>
    BY <1>1, BeginsInv, MonitoredIs
<1>3. /\ monPhase = "idle" /\ monParallel = FALSE /\ monSamples = <<>>
      /\ monEarlier = <<>> /\ Measured = 0
    BY NoSamples DEF MonitorInit, Measured
<1>4. MonitorTypes BY <1>2, <1>3, NoSamples DEF MonitorTypes
<1>5. MonitorCounts /\ MonitorExtremes
    BY <1>2, <1>3 DEF MonitorCounts, MonitorExtremes
<1>6. MonitorAverage
    <2>1. Raws(<<>> \o <<>>) = <<>> BY DEF Raws
    <2> QED BY <1>2, <1>3, <2>1 DEF MonitorAverage, Averaged
<1> QED BY <1>4, <1>5, <1>6 DEF MonitorInv

LEMMA StartInv == ASSUME MonitorInv, StartMonitor PROVE MonitorInv'
<1>1. /\ Monitored'.state = Reset(monState.history) /\ Monitored'.seen = NothingSeen
    BY MonitoredIs DEF StartMonitor
<1>2. /\ Fields(monState') /\ Seen(monSeen') /\ Counted("start", Monitored', 0)
      /\ Extremes(<<>>, monState'.max, monState'.min)
      /\ monState'.history = monState.history
    BY <1>1, BeginsInv, MonitoredIs
<1>3. /\ monPhase' = "start" /\ monParallel' \in BOOLEAN /\ monSamples' = <<>>
      /\ monEarlier' = monEarlier \o monSamples /\ Measured' = 0
      /\ monStray' = monStray
    BY NoSamples DEF StartMonitor, Measured
<1>4. monSamples \in Seq(Rates) /\ monEarlier \in Seq(Rates)
    BY DEF MonitorInv, MonitorTypes
<1>5. MonitorTypes' BY <1>2, <1>3, <1>4, NoSamples DEF MonitorTypes
<1>6. MonitorCounts' /\ MonitorExtremes'
    BY <1>2, <1>3 DEF MonitorCounts, MonitorExtremes
<1>7. ASSUME monStray' = {} PROVE MonitorAverage'
    <2>1. monState.history = Raws(monEarlier \o monSamples)
        BY <1>3, <1>7 DEF MonitorInv, MonitorAverage, Averaged
    <2>2. monEarlier' \o monSamples' = monEarlier \o monSamples BY <1>3, <1>4
    <2> QED BY <1>2, <1>3, <2>1, <2>2 DEF MonitorAverage, Averaged
<1> QED BY <1>5, <1>6, <1>7 DEF MonitorInv

(* Steps that count nothing: numbers and samples stay *)
LEMMA NothingCounted ==
    ASSUME MonitorInv,
           UNCHANGED <<monRun, monParallel, monSamples, monEarlier, monSent, monStray>>,
           Fields(monState'), SameNumbers(monState, monState'), Seen(monSeen'),
           monPhase \in {"start", "omit", "measure"},
           monPhase' = monPhase \/ (monPhase = "start" /\ monPhase' = "omit"),
           monPhase' \in {"omit", "measure"} => monState'.gathered = TRUE,
           \A m \in Nat : Right(Monitored, m, Measured) => Right(Monitored', m, Measured)
    PROVE  MonitorInv'
<1>1. MonitorTypes' BY DEF MonitorInv, MonitorTypes
<1>2. Measured' = Measured BY DEF Measured
<1>3. ASSUME monRun' \notin monStray' PROVE MonitorCounts' /\ MonitorExtremes'
    <2>1. MonitorCounts /\ MonitorExtremes BY <1>3 DEF MonitorInv
    <2>2. MonitorExtremes' BY <2>1 DEF MonitorExtremes, SameNumbers
    <2>3. /\ monState.omitted \in Nat /\ monState'.omitted = monState.omitted
          /\ monState'.samples = monState.samples
          /\ monState'.finished = monState.finished
        BY DEF MonitorInv, MonitorTypes, Fields, SameNumbers
    <2>4. /\ monState.finished = FALSE /\ Right(Monitored, monState.omitted, Measured)
          /\ monPhase = "start" => monState.omitted = 0
          /\ monPhase \in {"start", "omit"} => Measured = 0
          /\ monState.samples = Measured - (IF monState.finished THEN 0 ELSE 1)
        BY <2>1, MonitoredIs DEF MonitorCounts, Counted
    <2>5. Right(Monitored', monState.omitted, Measured) BY <2>3, <2>4
    <2>6. SeenRight(monState.omitted, Measured, monSeen')
        BY <2>5, MonitoredIs DEF Right
    <2>7. Counted(monPhase', Monitored', Measured)
        BY <2>3, <2>4, <2>5, <2>6, MonitoredIs DEF Counted
    <2> QED BY <1>2, <2>2, <2>7 DEF MonitorCounts
<1>4. ASSUME monStray' = {} PROVE MonitorAverage'
    BY <1>4 DEF MonitorInv, MonitorAverage, Averaged, SameNumbers
<1> QED BY <1>1, <1>3, <1>4 DEF MonitorInv

LEMMA MeasuredType == ASSUME MonitorInv PROVE Measured \in Nat
BY DEF MonitorInv, MonitorTypes, Measured

LEMMA ConnectedInv == ASSUME MonitorInv, Connected PROVE MonitorInv'
<1> DEFINE one == Read(Monitored, Plain("connected"), Measured)
           two == Read(one, Plain("connected"), Measured)
           both == IF monParallel THEN two ELSE one
           last == Heading(both)
<1>0. /\ Fields(Monitored.state) /\ Seen(Monitored.seen) /\ Measured \in Nat
      /\ "connected" \in PlainKinds /\ "header" \in PlainKinds /\ "connected" # "header"
    BY MeasuredType, MonitoredIs DEF MonitorInv, MonitorTypes, PlainKinds
<1>1. /\ Fields(one.state) /\ SameNumbers(Monitored.state, one.state)
      /\ one.state.gathered = TRUE /\ Seen(one.seen)
      /\ \A m \in Nat : Right(Monitored, m, Measured) => Right(one, m, Measured)
    BY <1>0, PlainRead, PlainRight
<1> HIDE DEF one
<1>2. /\ Fields(two.state) /\ SameNumbers(one.state, two.state)
      /\ two.state.gathered = TRUE /\ Seen(two.seen)
      /\ \A m \in Nat : Right(one, m, Measured) => Right(two, m, Measured)
    BY <1>0, <1>1, PlainRead, PlainRight
<1> HIDE DEF two
<1>3. /\ Fields(both.state) /\ SameNumbers(Monitored.state, both.state)
      /\ both.state.gathered = TRUE /\ Seen(both.seen)
      /\ \A m \in Nat : Right(Monitored, m, Measured) => Right(both, m, Measured)
    <2>1. SameNumbers(Monitored.state, two.state) BY <1>1, <1>2 DEF SameNumbers
    <2> QED BY <1>1, <1>2, <2>1
<1> HIDE DEF both
<1>4. /\ Fields(last.state) /\ SameNumbers(both.state, last.state)
      /\ last.state.gathered = TRUE /\ Seen(last.seen)
      /\ \A m \in Nat : Right(both, m, Measured) => Right(last, m, Measured)
    BY <1>0, <1>3, PlainRead, PlainRight DEF Heading
<1>5. Becomes(last) BY DEF Connected, one, two, both
<1> HIDE DEF last
<1>6. monState' = last.state /\ monSeen' = last.seen BY <1>5 DEF Becomes
<1>7. SameNumbers(monState, monState')
    BY <1>3, <1>4, <1>6, MonitoredIs DEF SameNumbers
<1>8. \A m \in Nat : Right(Monitored, m, Measured) => Right(Monitored', m, Measured)
    BY <1>3, <1>4, <1>6, MonitoredIs DEF Right
<1> QED BY <1>4, <1>6, <1>7, <1>8, NothingCounted DEF Connected

LEMMA MessageInv == ASSUME MonitorInv, Message PROVE MonitorInv'
<1> DEFINE t == Read(Monitored, Plain("text"), Measured)
<1>0. /\ Fields(Monitored.state) /\ Seen(Monitored.seen) /\ Measured \in Nat
      /\ "text" \in PlainKinds /\ "text" # "header"
    BY MeasuredType, MonitoredIs DEF MonitorInv, MonitorTypes, PlainKinds
<1>1. /\ Fields(t.state) /\ SameNumbers(Monitored.state, t.state)
      /\ Monitored.state.gathered = TRUE => t.state.gathered = TRUE
      /\ Seen(t.seen)
      /\ \A m \in Nat : Right(Monitored, m, Measured) => Right(t, m, Measured)
    BY <1>0, PlainRead, PlainRight
<1>2. Becomes(t) BY DEF Message
<1> HIDE DEF t
<1>3. monState' = t.state /\ monSeen' = t.seen BY <1>2 DEF Becomes
<1>4. SameNumbers(monState, monState') BY <1>1, <1>3, MonitoredIs
<1>5. \A m \in Nat : Right(Monitored, m, Measured) => Right(Monitored', m, Measured)
    BY <1>1, <1>3, MonitoredIs DEF Right
<1>6. monPhase \in {"omit", "measure"} => monState'.gathered = TRUE
    BY <1>1, <1>3, MonitoredIs DEF MonitorInv, MonitorTypes
<1>7. /\ UNCHANGED <<monRun, monParallel, monSamples, monEarlier, monSent, monStray>>
      /\ monPhase' = monPhase /\ monPhase \in {"start", "omit", "measure"}
    BY DEF Message, Printing
<1>8. Fields(monState') /\ Seen(monSeen')
      /\ (monPhase' \in {"omit", "measure"} => monState'.gathered = TRUE)
    BY <1>1, <1>3, <1>6, <1>7
<1> QED BY <1>4, <1>5, <1>7, <1>8, NothingCounted

LEMMA CancelLineInv == ASSUME MonitorInv, CancelLine PROVE MonitorInv'
<1>1. /\ Fields(monState) /\ Seen(monSeen)
      /\ monPhase \in {"omit", "measure"} => monState.gathered = TRUE
    BY DEF MonitorInv, MonitorTypes
<1>2. monState' = [monState EXCEPT !.messages = monState.messages + 1]
      /\ monSeen' = monSeen
    BY DEF CancelLine, ProcessCancelLine
<1>3. DOMAIN monState' = DOMAIN monState BY <1>1, <1>2 DEF Fields
<1>4. /\ monState'.messages = monState.messages + 1 /\ SameNumbers(monState, monState')
      /\ monState'.gathered = monState.gathered
    BY <1>1, <1>2 DEF Fields, SameNumbers
<1>5. monState'.messages \in Nat BY <1>1, <1>4 DEF Fields
<1>6. Fields(monState') BY Zenon, <1>1, <1>3, <1>4, <1>5 DEF Fields, SameNumbers
<1>7. \A m \in Nat : Right(Monitored, m, Measured) => Right(Monitored', m, Measured)
    BY <1>2, <1>4, MonitoredIs DEF Right, SameNumbers
<1>8. /\ UNCHANGED <<monRun, monParallel, monSamples, monEarlier, monSent, monStray>>
      /\ monPhase' = monPhase /\ monPhase \in {"start", "omit", "measure"}
    BY DEF CancelLine, Printing
<1>9. Seen(monSeen') /\ (monPhase' \in {"omit", "measure"} => monState'.gathered = TRUE)
    BY <1>1, <1>2, <1>4, <1>8
<1> QED BY <1>4, <1>6, <1>7, <1>8, <1>9, NothingCounted

LEMMA OmittedInv == ASSUME MonitorInv, OmittedSecond PROVE MonitorInv'
<1>1. PICK rate \in Rates :
          Becomes(LinesOf(Monitored, "omitted", monState.omitted, rate))
    BY DEF OmittedSecond
<1> DEFINE t == LinesOf(Monitored, "omitted", monState.omitted, rate)
<1>2. /\ Fields(Monitored.state) /\ Monitored.state.gathered = TRUE
      /\ Seen(Monitored.seen) /\ monParallel \in BOOLEAN /\ Measured \in Nat
      /\ monState.omitted \in Nat /\ "omitted" \in Kinds /\ monPhase = "omit"
    BY MeasuredType, MonitoredIs
       DEF MonitorInv, MonitorTypes, Fields, Kinds, OmittedSecond
<1>3. Follows(Monitored.state, "omitted", monState.omitted, rate, t.state) /\ Seen(t.seen)
    BY <1>2, LinesRead
<1>4. PICK mid : Midway(Monitored, "omitted", t, mid) BY <1>2, LinesRead
<1>5. monState' = t.state /\ monSeen' = t.seen BY <1>1 DEF Becomes
<1> HIDE DEF t
<1>6. UNCHANGED <<monRun, monPhase, monParallel, monTold, monSamples, monEarlier,
                  monSent, monStray>> /\ Measured' = Measured
    BY DEF OmittedSecond, Measured
<1>7. MonitorTypes'
    BY <1>2, <1>3, <1>5, <1>6, MonitoredIs DEF MonitorInv, MonitorTypes, Follows
<1>8. ASSUME monRun' \notin monStray' PROVE MonitorCounts' /\ MonitorExtremes'
    <2>1. MonitorCounts /\ MonitorExtremes BY <1>6, <1>8 DEF MonitorInv
    <2>2. MonitorExtremes'
        BY <1>3, <1>5, <1>6, <2>1, MonitoredIs DEF MonitorExtremes, Follows
    <2> DEFINE m == monState.omitted
    <2>3. /\ monState.finished = FALSE /\ Right(Monitored, m, Measured) /\ Measured = 0
          /\ monState.samples = Measured - (IF monState.finished THEN 0 ELSE 1)
        BY <1>2, <2>1, MonitoredIs DEF MonitorCounts, Counted
    <2>4. Right(mid, m, 0) /\ Seen(mid.seen) BY <1>2, <1>4, <2>3 DEF Midway
    <2>5. /\ t.state.omitted = m + 1 /\ t.state.number = monState.number + 1
          /\ t.state.finished = FALSE /\ t.state.samples = monState.samples
          /\ Fields(t.state)
        BY <1>3, <2>3, MonitoredIs DEF Follows
    <2>6. t.state.number = m
        BY <1>2, <2>3, <2>5, MonitoredIs DEF Right, NumberOf
    <2>7. t.seen = Look(mid.seen, t.state, 0, {}) BY <1>4, <2>3 DEF Midway, ReadResult
    <2>8. SeenRight(m + 1, 0, t.seen) /\ LastIs(m + 1, 0, t.seen)
        BY <1>2, <2>4, <2>5, <2>6, <2>7, LookOmitted DEF Right
    <2>9. t.state.number = NumberOf(m + 1, 0) BY <1>2, <2>6 DEF NumberOf
    <2>10. Counted("omit", Monitored', 0)
        BY <1>5, <2>3, <2>5, <2>8, <2>9, MonitoredIs DEF Counted, Right
    <2> QED BY <1>2, <1>6, <2>2, <2>3, <2>10 DEF MonitorCounts
<1>9. ASSUME monStray' = {} PROVE MonitorAverage'
    BY <1>3, <1>5, <1>6, <1>9, MonitoredIs
       DEF MonitorInv, MonitorAverage, Averaged, Follows
<1> QED BY <1>7, <1>8, <1>9 DEF MonitorInv

LEMMA MeasuredInv == ASSUME MonitorInv, MeasuredSecond PROVE MonitorInv'
<1>1. PICK rate \in Rates :
          /\ Becomes(LinesOf(Monitored, "measured", Measured, rate))
          /\ monSamples' = Append(monSamples, rate)
    BY DEF MeasuredSecond
<1> DEFINE t == LinesOf(Monitored, "measured", Measured, rate)
           m == monState.omitted
           n == Measured
<1>2. /\ Fields(Monitored.state) /\ Monitored.state.gathered = TRUE
      /\ Seen(Monitored.seen) /\ monParallel \in BOOLEAN /\ n \in Nat
      /\ m \in Nat /\ "measured" \in Kinds /\ monPhase \in {"omit", "measure"}
      /\ monSamples \in Seq(Rates) /\ monEarlier \in Seq(Rates)
    BY MeasuredType, MonitoredIs
       DEF MonitorInv, MonitorTypes, Fields, Kinds, MeasuredSecond
<1>3. Follows(Monitored.state, "measured", n, rate, t.state) /\ Seen(t.seen)
    BY <1>2, LinesRead
<1>4. PICK mid : Midway(Monitored, "measured", t, mid) BY <1>2, LinesRead
<1>5. monState' = t.state /\ monSeen' = t.seen BY <1>1 DEF Becomes
<1> HIDE DEF t
<1>6. /\ UNCHANGED <<monRun, monParallel, monTold, monEarlier, monSent, monStray>>
      /\ monPhase' = "measure"
    BY DEF MeasuredSecond
<1>7. /\ monSamples' \in Seq(Rates) /\ monSamples' # <<>> /\ Measured' = n + 1
    BY <1>1, <1>2 DEF Measured
<1>8. MonitorTypes'
    BY <1>2, <1>3, <1>5, <1>6, <1>7, MonitoredIs DEF MonitorTypes, Follows
<1>9. ASSUME monRun' \notin monStray' PROVE MonitorCounts' /\ MonitorExtremes'
    <2>1. MonitorCounts /\ MonitorExtremes BY <1>6, <1>9 DEF MonitorInv
    <2>2. /\ t.state.max = UpdateMax(monState.max, FromHumanUnit(rate))
          /\ t.state.min = UpdateMin(monState.min, FromHumanUnit(rate))
          /\ t.state.omitted = m /\ t.state.number = n
          /\ t.state.finished = monState.finished
          /\ t.state.samples = monState.samples + 1 /\ Fields(t.state)
          /\ monState.max \in Nat /\ monState.min \in Nat
        BY <1>2, <1>3, MonitoredIs DEF Follows, Fields
    <2>3. MonitorExtremes'
        BY <1>1, <1>2, <1>5, <2>1, <2>2, OneMore DEF MonitorExtremes
    <2>4. /\ monState.finished = FALSE /\ Right(Monitored, m, n)
          /\ monState.samples = n - 1
        BY <1>2, <2>1, MonitoredIs DEF MonitorCounts, Counted
    <2>5. Right(mid, m, n) /\ Seen(mid.seen) BY <1>2, <1>4, <2>4 DEF Midway
    <2>6. t.seen = Look(mid.seen, t.state, n + 1, {n}) BY <1>4 DEF Midway, ReadResult
    <2>7. SeenRight(m, n, mid.seen) /\ LastIs(m, n, mid.seen) BY <2>5 DEF Right
    <2> HIDE DEF m, n
    <2>8. SeenRight(m, n + 1, t.seen) /\ LastIs(m, n + 1, t.seen)
        BY <1>2, <2>2, <2>5, <2>6, <2>7, LookSecond
    <2>9. t.state.number = NumberOf(m, n + 1) BY <1>2, <2>2 DEF NumberOf
    <2>10. t.state.samples = (n + 1) - 1 BY <1>2, <2>2, <2>4
    <2>11. Counted("measure", Monitored', n + 1)
        BY <1>5, <2>2, <2>4, <2>8, <2>9, <2>10, MonitoredIs DEF Counted, Right
    <2> QED BY <1>6, <1>7, <2>3, <2>11 DEF MonitorCounts
<1>10. ASSUME monStray' = {} PROVE MonitorAverage'
    <2>1. monRun \notin monStray /\ MonitorAverage BY <1>6, <1>10 DEF MonitorInv
    <2>2. monState.finished = FALSE
        BY <1>2, <2>1 DEF MonitorInv, MonitorCounts, Counted, Monitored
    <2>3. /\ t.state.history = Append(monState.history, FromHumanUnit(rate))
          /\ t.state.average = AverageOf(t.state.history)
          /\ t.state.finished = FALSE
        BY <1>3, <2>2, MonitoredIs DEF Follows
    <2>4. monState.history = Raws(monEarlier \o monSamples)
        BY <2>1 DEF MonitorAverage, Averaged
    <2>5. t.state.history = Raws(monEarlier \o Append(monSamples, rate))
        BY <1>2, <2>3, <2>4, RawsMore
    <2> QED BY <1>1, <1>5, <1>6, <2>3, <2>5 DEF MonitorAverage, Averaged
<1> QED BY <1>8, <1>9, <1>10 DEF MonitorInv

LEMMA SummaryInv == ASSUME MonitorInv, Summary PROVE MonitorInv'
<1>1. PICK sent \in Rates, received \in Rates :
          LET first  == LinesOf(Heading(Monitored), "sender", 0, sent)
              second == LinesOf(first, "receiver", 0, received)
          IN  /\ Becomes(Read(second, Plain("text"), Measured))
              /\ monSent' = sent
    BY DEF Summary
<1> DEFINE head == Heading(Monitored)
           first == LinesOf(head, "sender", 0, sent)
           second == LinesOf(first, "receiver", 0, received)
           t == Read(second, Plain("text"), Measured)
           n == Measured
<1>2. /\ Fields(Monitored.state) /\ Monitored.state.gathered = TRUE
      /\ Seen(Monitored.seen) /\ monParallel \in BOOLEAN /\ n \in Nat
      /\ monState.omitted \in Nat /\ monPhase = "measure" /\ 0 \in Nat
      /\ "sender" \in Kinds /\ "receiver" \in Kinds
      /\ "header" \in PlainKinds /\ "text" \in PlainKinds /\ "text" # "header"
    BY MeasuredType, MonitoredIs
       DEF MonitorInv, MonitorTypes, Fields, Kinds, PlainKinds, Summary
<1>3. /\ Fields(head.state) /\ SameNumbers(Monitored.state, head.state)
      /\ head.state.gathered = TRUE /\ Seen(head.seen)
      /\ \A m \in Nat : SeenRight(m, n, Monitored.seen) => SeenRight(m, n, head.seen)
    BY <1>2, PlainRead, PlainRight DEF Heading
<1>t. monState' = t.state /\ monSeen' = t.seen /\ monSent' = sent
    BY <1>1 DEF Becomes
<1> HIDE DEF head
<1>4. Follows(head.state, "sender", 0, sent, first.state) /\ Seen(first.seen)
    BY <1>2, <1>3, LinesRead
<1>5. PICK mid : Midway(head, "sender", first, mid) BY <1>2, <1>3, LinesRead
<1> HIDE DEF first
<1>6. Fields(first.state) /\ first.state.gathered = TRUE BY <1>3, <1>4 DEF Follows
<1>7. Follows(first.state, "receiver", 0, received, second.state) /\ Seen(second.seen)
    BY <1>2, <1>4, <1>6, LinesRead
<1>8. PICK nid : Midway(first, "receiver", second, nid)
    BY <1>2, <1>4, <1>6, LinesRead
<1> HIDE DEF second
<1>9. Fields(second.state) /\ second.state.gathered = TRUE BY <1>6, <1>7 DEF Follows
<1>10. /\ Fields(t.state) /\ SameNumbers(second.state, t.state)
       /\ t.state.gathered = TRUE /\ Seen(t.seen)
       /\ \A m \in Nat : SeenRight(m, n, second.seen) => SeenRight(m, n, t.seen)
    BY <1>2, <1>7, <1>9, PlainRead, PlainRight
<1> HIDE DEF t
<1>11. ASSUME NEW m \in Nat, SeenRight(m, n, Monitored.seen)
       PROVE  SeenRight(m, n, t.seen)
    <2>1. SeenRight(m, n, mid.seen) /\ Seen(mid.seen)
        BY <1>3, <1>5, <1>11 DEF Midway
    <2>2. first.seen = Look(mid.seen, first.state, n, {})
        BY <1>5 DEF Midway, ReadResult
    <2>3. SeenRight(m, n, first.seen) BY <1>2, <1>6, <2>1, <2>2, LookAgain
    <2>4. SeenRight(m, n, nid.seen) /\ Seen(nid.seen) BY <1>8, <2>3 DEF Midway
    <2>5. second.seen = Look(nid.seen, second.state, n, {})
        BY <1>8 DEF Midway, ReadResult
    <2>6. SeenRight(m, n, second.seen) BY <1>2, <1>9, <2>4, <2>5, LookAgain
    <2> QED BY <1>10, <2>6
<1>12. /\ t.state.finished = TRUE /\ t.state.omitted = monState.omitted
       /\ t.state.samples = IF monState.finished THEN monState.samples
                            ELSE monState.samples + 1
       /\ t.state.max = monState.max /\ t.state.min = monState.min
       /\ t.state.history = monState.history
       /\ t.state.average = IF monState.finished THEN monState.average
                            ELSE FromHumanUnit(sent)
    <2>1. /\ first.state.finished = TRUE /\ first.state.omitted = monState.omitted
          /\ first.state.samples = IF monState.finished THEN monState.samples
                                   ELSE monState.samples + 1
          /\ first.state.max = monState.max /\ first.state.min = monState.min
          /\ first.state.history = monState.history
          /\ first.state.average = IF monState.finished THEN monState.average
                                   ELSE FromHumanUnit(sent)
        BY <1>3, <1>4, MonitoredIs DEF Follows, SameNumbers
    <2>2. /\ second.state.finished = TRUE
          /\ second.state.omitted = first.state.omitted
          /\ second.state.samples = first.state.samples
          /\ second.state.max = first.state.max /\ second.state.min = first.state.min
          /\ second.state.history = first.state.history
          /\ second.state.average = first.state.average
        BY <1>7, <2>1 DEF Follows
    <2> QED BY <1>10, <2>1, <2>2 DEF SameNumbers
<1>13. /\ UNCHANGED <<monRun, monParallel, monTold, monSamples, monEarlier, monStray>>
       /\ monPhase' = "end" /\ Measured' = n
    BY DEF Summary, Measured
<1>14. MonitorTypes'
    BY <1>2, <1>10, <1>t, <1>13 DEF MonitorInv, MonitorTypes
<1>15. ASSUME monRun' \notin monStray' PROVE MonitorCounts' /\ MonitorExtremes'
    <2>1. MonitorCounts /\ MonitorExtremes BY <1>13, <1>15 DEF MonitorInv
    <2>2. MonitorExtremes' BY <1>t, <1>12, <1>13, <2>1 DEF MonitorExtremes
    <2>3. /\ monState.finished = FALSE /\ monState.samples = n - 1
          /\ SeenRight(monState.omitted, n, Monitored.seen)
        BY <1>2, <2>1, MonitoredIs DEF MonitorCounts, Counted
    <2>4. SeenRight(monState.omitted, n, t.seen) BY <1>2, <1>11, <2>3
    <2>5. t.state.samples = n - 0 BY <1>2, <1>12, <2>3
    <2>6. Counted("end", Monitored', n)
        BY <1>t, <1>12, <2>4, <2>5, MonitoredIs DEF Counted
    <2> QED BY <1>13, <2>2, <2>6 DEF MonitorCounts
<1>16. ASSUME monStray' = {} PROVE MonitorAverage'
    <2>1. monRun \notin monStray /\ MonitorAverage BY <1>13, <1>16 DEF MonitorInv
    <2>2. monState.finished = FALSE
        BY <1>2, <2>1 DEF MonitorInv, MonitorCounts, Counted, Monitored
    <2> QED BY <1>t, <1>12, <1>13, <2>1, <2>2 DEF MonitorAverage, Averaged
<1> QED BY <1>14, <1>15, <1>16 DEF MonitorInv

LEMMA BreakOffInv == ASSUME MonitorInv, BreakOff PROVE MonitorInv'
<1>1. /\ UNCHANGED <<monRun, monParallel, monState, monSeen, monSamples, monEarlier,
                     monSent, monStray>>
      /\ monPhase' = "end" /\ Measured' = Measured /\ Monitored' = Monitored
    BY DEF BreakOff, Measured, Monitored
<1>2. MonitorTypes' BY <1>1 DEF MonitorInv, MonitorTypes
<1>3. ASSUME MonitorCounts PROVE MonitorCounts'
    BY <1>1, <1>3 DEF MonitorCounts, Counted
<1>4. MonitorExtremes' <=> MonitorExtremes BY <1>1 DEF MonitorExtremes
<1>5. MonitorAverage' <=> MonitorAverage BY <1>1 DEF MonitorAverage
<1> QED BY <1>1, <1>2, <1>3, <1>4, <1>5 DEF MonitorInv

LEMMA StrayInv == ASSUME MonitorInv, StrayLine PROVE MonitorInv'
<1>1. PICK rate \in Rates :
          monState' = ProcessLine(monState, OutputLine("measured", "SUM", 0, rate))
    BY DEF StrayLine
<1> DEFINE line == OutputLine("measured", "SUM", 0, rate)
<1>2. line.kind = "measured" /\ line.id = "SUM" BY DEF OutputLine
<1>3. Fields(monState) /\ monState.gathered \in BOOLEAN
    BY DEF MonitorInv, MonitorTypes, Fields
<1>4. Fields(monState') /\ monState'.gathered = monState.gathered
    <2>1. CASE monState.gathered
        <3>1. monState' = Result(monState, line)
            BY <1>1, <1>2, <2>1 DEF ProcessLine, IsResult
        <3>2. "measured" \in Kinds /\ 0 \in Nat BY DEF Kinds
        <3>3. Follows(monState, "measured", 0, rate, Result(monState, line))
            BY <1>3, <3>2, ResultFields
        <3> QED BY <3>1, <3>3 DEF Follows
    <2>2. CASE ~monState.gathered
        <3>1. monState' = monState
            BY <1>1, <1>2, <2>2 DEF ProcessLine, IsResult, Gather
        <3> QED BY <1>3, <3>1
    <2> QED BY <2>1, <2>2
<1>5. /\ UNCHANGED <<monRun, monPhase, monParallel, monSeen, monSamples, monEarlier>>
      /\ monRun' \in monStray' /\ monStray' # {}
    BY DEF StrayLine
<1>6. MonitorTypes' BY <1>3, <1>4, <1>5 DEF MonitorInv, MonitorTypes
<1> QED BY <1>5, <1>6 DEF MonitorInv

LEMMA MonitorInvIsInductive == ASSUME MonitorInv, [MonitorNext]_monVars PROVE MonitorInv'
<1>1. CASE UNCHANGED monVars
    BY <1>1 DEF monVars, MonitorInv, MonitorTypes, MonitorCounts, MonitorExtremes,
                MonitorAverage, Monitored, Measured
<1> QED BY <1>1, StartInv, ConnectedInv, OmittedInv, MeasuredInv, MessageInv,
           CancelLineInv, SummaryInv, BreakOffInv, StrayInv DEF MonitorNext

LEMMA MonitorInvIsEnough == ASSUME MonitorInv PROVE StatisticsOfRun
<1>1. monSamples \in Seq(Rates) BY DEF MonitorInv, MonitorTypes
<1>2. ASSUME monRun \notin monStray
      PROVE  /\ ExtremesOfRun
             /\ monState.samples = Measured - (IF monState.finished THEN 0 ELSE 1)
             /\ monSeen.shown = ShownSeconds(monState.omitted, Measured,
                                             monSeen.covered, monSeen.told)
    <2>1. MonitorCounts /\ MonitorExtremes BY <1>2 DEF MonitorInv
    <2>2. ExtremesOfRun BY <1>1, <2>1, ExtremesAreOfRates DEF MonitorExtremes
    <2> QED BY <2>1, <2>2, MonitoredIs DEF MonitorCounts, Counted, SeenRight
<1>3. ASSUME monStray = {}, monSamples # <<>>
      PROVE  monState.average = IF monState.finished THEN FromHumanUnit(monSent)
                                ELSE AverageOf(Raws(monEarlier \o monSamples))
    BY <1>3 DEF MonitorInv, MonitorAverage, Averaged
<1> QED BY <1>2, <1>3 DEF StatisticsOfRun

(* Whatever rates iperf3 prints, in whatever units, however many seconds it  *)
(* omits and measures, and whatever messages come between its lines: until a *)
(* line of a cancelled run comes in, the maximum and the minimum the monitor *)
(* keeps are those of a fastest and a slowest second of this run, but for a  *)
(* maximum of 0; the samples are the seconds measured; the seconds shown are *)
(* those that are not covered by a message nor, before one has come, have    *)
(* numbers of omitted ones; and the average is that of the seconds of all    *)
(* runs until the summary gives that of this one.                            *)
THEOREM StatisticsAreOfRun == MonitorSpec => []StatisticsOfRun
<1>1. MonitorInit => MonitorInv BY MonitorBegins
<1>2. MonitorInv /\ [MonitorNext]_monVars => MonitorInv' BY MonitorInvIsInductive
<1>3. MonitorInv => StatisticsOfRun BY MonitorInvIsEnough
<1> QED BY <1>1, <1>2, <1>3, PTL DEF MonitorSpec
-----------------------------------------------------------------------------
(* The lists of a report.  s lists the lines of E, no two of which are on   *)
(* one sheet about the same thing and side.                                 *)
In(e, s) == \E i \in 1..Len(s) : s[i] = e
SameKey(a, b) == a.sheet = b.sheet /\ a.about = b.about /\ a.side = b.side
KeysApart(E, F) == \A a \in E, b \in F : ~SameKey(a, b)

Lists(s, E) ==
    /\ s \in Seq(E)
    /\ \A e \in E : In(e, s)
    /\ \A i, j \in 1..Len(s) : SameKey(s[i], s[j]) => i = j

LEMMA ListsNone == Lists(<<>>, {})
<1>1. <<>> \in Seq({}) /\ Len(<<>>) = 0 OBVIOUS
<1> QED BY <1>1 DEF Lists

LEMMA ListsOne == ASSUME NEW e PROVE Lists(<<e>>, {e})
<1>1. <<e>> \in Seq({e}) /\ Len(<<e>>) = 1 /\ <<e>>[1] = e OBVIOUS
<1>2. In(e, <<e>>) BY <1>1 DEF In
<1>3. \A i, j \in 1..1 : i = j OBVIOUS
<1> QED BY <1>1, <1>2, <1>3 DEF Lists

LEMMA ListsThree ==
    ASSUME NEW a, NEW b, NEW c, ~SameKey(a, b), ~SameKey(a, c), ~SameKey(b, c)
    PROVE  Lists(<<a, b, c>>, {a, b, c})
<1> DEFINE s == <<a, b, c>>
<1>1. s \in Seq({a, b, c}) /\ Len(s) = 3 /\ s[1] = a /\ s[2] = b /\ s[3] = c OBVIOUS
<1> HIDE DEF s
<1>2. \A e \in {a, b, c} : In(e, s) BY <1>1 DEF In
<1>3. \A i \in 1..3 : i = 1 \/ i = 2 \/ i = 3 OBVIOUS
<1>4. ~SameKey(b, a) /\ ~SameKey(c, a) /\ ~SameKey(c, b) BY DEF SameKey
<1>5. \A i, j \in 1..3 : SameKey(s[i], s[j]) => i = j BY <1>1, <1>3, <1>4
<1> QED BY <1>1, <1>2, <1>5 DEF Lists, s

LEMMA Wider ==
    ASSUME NEW E, NEW F, NEW s \in Seq(E), E \subseteq F
    PROVE  s \in Seq(F)
BY LenProperties, ElementOfSeq

LEMMA ListsBoth ==
    ASSUME NEW s, NEW t, NEW E, NEW F, Lists(s, E), Lists(t, F), KeysApart(E, F)
    PROVE  Lists(s \o t, E \cup F)
<1> DEFINE n == Len(s)
           m == Len(t)
           st == s \o t
<1>1. s \in Seq(E) /\ t \in Seq(F) BY DEF Lists
<1>2. s \in Seq(E \cup F) /\ t \in Seq(E \cup F) BY <1>1, Wider
<1>3. n \in Nat /\ m \in Nat /\ \A i \in 1..n : s[i] \in E BY <1>1, LenProperties, ElementOfSeq
<1>4. \A i \in 1..m : t[i] \in F BY <1>1, ElementOfSeq
<1>5. /\ st \in Seq(E \cup F) /\ Len(st) = n + m
      /\ \A i \in 1..(n + m) : st[i] = IF i <= n THEN s[i] ELSE t[i - n]
    BY <1>2, ConcatProperties
<1> HIDE DEF st
<1>6. ASSUME NEW e \in E \cup F PROVE In(e, st)
    <2>1. CASE e \in E
        <3>1. PICK i \in 1..n : s[i] = e BY <2>1 DEF Lists, In
        <3>2. i \in 1..(n + m) /\ i <= n BY <1>3
        <3> QED BY <3>1, <3>2, <1>5 DEF In
    <2>2. CASE e \in F
        <3>1. PICK i \in 1..m : t[i] = e BY <2>2 DEF Lists, In
        <3>2. n + i \in 1..(n + m) /\ ~(n + i <= n) /\ (n + i) - n = i BY <1>3
        <3> QED BY <3>1, <3>2, <1>5 DEF In
    <2> QED BY <2>1, <2>2
<1>7. ASSUME NEW i \in 1..(n + m), NEW j \in 1..(n + m), SameKey(st[i], st[j])
      PROVE  i = j
    <2>1. \A k \in 1..(n + m) :
            \/ k \in 1..n /\ k <= n
            \/ k - n \in 1..m /\ ~(k <= n)
        BY <1>3
    <2>2. \A k \in 1..(n + m) :
            \/ k \in 1..n /\ st[k] = s[k]
            \/ k - n \in 1..m /\ st[k] = t[k - n]
        BY <2>1, <1>5
    <2>3. CASE i \in 1..n /\ st[i] = s[i] /\ j \in 1..n /\ st[j] = s[j]
        BY <2>3, <1>7 DEF Lists
    <2>4. CASE i - n \in 1..m /\ st[i] = t[i - n] /\ j - n \in 1..m /\ st[j] = t[j - n]
        <3>1. i - n = j - n BY <2>4, <1>7 DEF Lists
        <3> QED BY <3>1, <1>3
    <2>5. ASSUME NEW a \in 1..n, NEW b \in 1..m PROVE ~SameKey(s[a], t[b]) /\ ~SameKey(t[b], s[a])
        <3>1. ~SameKey(s[a], t[b]) BY <1>3, <1>4 DEF KeysApart
        <3> QED BY <3>1 DEF SameKey
    <2>6. CASE i \in 1..n /\ st[i] = s[i] /\ j - n \in 1..m /\ st[j] = t[j - n]
        BY <2>6, <2>5, <1>7
    <2>7. CASE i - n \in 1..m /\ st[i] = t[i - n] /\ j \in 1..n /\ st[j] = s[j]
        BY <2>7, <2>5, <1>7
    <2> QED BY <2>2, <2>3, <2>4, <2>6, <2>7
<1> HIDE DEF n, m
<1> QED BY <1>5, <1>6, <1>7 DEF Lists, st

LEMMA KeysApartOfLines ==
    ASSUME NEW E, NEW F, NEW G, KeysApart(E, G), KeysApart(F, G)
    PROVE  KeysApart(E \cup F, G)
BY DEF KeysApart

(* FlattenSeq of a list that is not empty *)
FlatOf(seqs) ==
    CHOOSE f : f = [i \in 1..Len(seqs) |->
                      IF i = 1 THEN seqs[i] ELSE f[i - 1] \o seqs[i]]

LEMMA FlattenIs ==
    ASSUME NEW q, Len(q) # 0
    PROVE  FlattenSeq(q) = FlatOf(q)[Len(q)]
BY DEF FlattenSeq, FlatOf

LEMMA SmallestOf ==
    ASSUME NEW S, S \subseteq Nat, S # {}
    PROVE  \E m \in S : \A n \in S : m <= n
<1>1. \E m \in S : \A n \in S : ~ (<<n, m>> \in OpToRel(<, Nat))
    BY WFMin, NatLessThanWellFounded, Zenon
<1>2. PICK m \in S : \A n \in S : ~ (n < m) BY <1>1, Zenon DEF OpToRel
<1> QED BY <1>2

Flattens(f, q, n) ==
    f = [i \in 1..n |-> IF i = 1 THEN q[i] ELSE f[i - 1] \o q[i]]

LEMMA FlattensExists ==
    ASSUME NEW q, NEW n \in Nat \ {0}
    PROVE  \E f : Flattens(f, q, n)
<1> DEFINE Bad == {k \in 1..n : ~\E f : Flattens(f, q, k)}
<1>1. \E f : Flattens(f, q, 1)
    <2> DEFINE f == [i \in 1..1 |-> q[1]]
    <2>1. \A i \in 1..1 : i = 1 OBVIOUS
    <2>2. f = [i \in 1..1 |-> IF i = 1 THEN q[i] ELSE f[i - 1] \o q[i]] BY <2>1
    <2> QED BY <2>2 DEF Flattens
<1>2. ASSUME NEW k \in 2..n, NEW f, Flattens(f, q, k - 1)
      PROVE  \E g : Flattens(g, q, k)
    <2>0. \A i \in 1..(k - 1) : f[i] = IF i = 1 THEN q[i] ELSE f[i - 1] \o q[i]
        <3>1. f = [i \in 1..(k - 1) |-> IF i = 1 THEN q[i] ELSE f[i - 1] \o q[i]]
            BY <1>2 DEF Flattens
        <3> QED BY <3>1, Zenon
    <2> DEFINE g == [i \in 1..k |-> IF i = k THEN f[k - 1] \o q[k] ELSE f[i]]
    <2>1. ASSUME NEW i \in 1..k
          PROVE  g[i] = IF i = 1 THEN q[i] ELSE g[i - 1] \o q[i]
        <3>1. CASE i = k
            <4>1. i # 1 /\ k - 1 \in 1..k /\ k - 1 # k /\ k \in 1..k BY <3>1
            <4>2. g[k - 1] = f[k - 1] /\ g[k] = f[k - 1] \o q[k] BY <4>1
            <4> QED BY <3>1, <4>1, <4>2
        <3>2. CASE i # k
            <4>1. i \in 1..(k - 1) BY <3>2
            <4>2. f[i] = IF i = 1 THEN q[i] ELSE f[i - 1] \o q[i] BY <2>0, <4>1
            <4>3. i # 1 => i - 1 \in 1..k /\ i - 1 # k BY <4>1
            <4>4. g[i] = f[i] BY <3>2
            <4>5. i # 1 => g[i - 1] = f[i - 1] BY <4>3
            <4> QED BY <4>2, <4>4, <4>5
        <3> QED BY <3>1, <3>2
    <2>2. g = [i \in 1..k |-> g[i]] OBVIOUS
    <2> HIDE DEF g
    <2>3. g = [i \in 1..k |-> IF i = 1 THEN q[i] ELSE g[i - 1] \o q[i]] BY <2>1, <2>2
    <2> QED BY <2>3 DEF Flattens
<1>3. Bad = {}
    <2> SUFFICES ASSUME Bad # {} PROVE FALSE OBVIOUS
    <2>0. Bad \subseteq Nat OBVIOUS
    <2>1. PICK m \in Bad : \A k \in Bad : m <= k BY <2>0, SmallestOf
    <2>2. m \in 1..n /\ ~(\E f : Flattens(f, q, m)) OBVIOUS
    <2>3. m # 1 BY <2>2, <1>1
    <2>4. m \in 2..n /\ m - 1 \in 1..n /\ ~(m <= m - 1) BY <2>2, <2>3
    <2>5. \E f : Flattens(f, q, m - 1) BY <2>1, <2>4
    <2> QED BY <2>2, <2>4, <2>5, <1>2
<1>4. n \in 1..n OBVIOUS
<1> QED BY <1>3, <1>4

(* Flattening lists whose lines are apart lists all their lines *)
ListEach(q, n, E) ==
    /\ Len(q) = n
    /\ \A i \in 1..n : Lists(q[i], E[i])
    /\ \A i, j \in 1..n : i < j => KeysApart(E[i], E[j])

AllOf(E, n) == UNION {E[i] : i \in 1..n}

LEMMA ListsAll ==
    ASSUME NEW q, NEW n \in Nat \ {0}, NEW E, ListEach(q, n, E)
    PROVE  Lists(FlattenSeq(q), AllOf(E, n))
<1> DEFINE U(k) == UNION {E[i] : i \in 1..k}
<1> USE DEF ListEach
<1> DEFINE f == FlatOf(q)
<1>1. PICK g : Flattens(g, q, n) BY FlattensExists
<1>2. g = [i \in 1..Len(q) |-> IF i = 1 THEN q[i] ELSE g[i - 1] \o q[i]]
    BY <1>1 DEF Flattens
<1>3. f = [i \in 1..Len(q) |-> IF i = 1 THEN q[i] ELSE f[i - 1] \o q[i]]
    BY <1>2 DEF FlatOf
<1> HIDE DEF f
<1>4. f[1] = q[1] /\ \A i \in 2..n : f[i] = f[i - 1] \o q[i]
    <2>1. 1 \in 1..n /\ \A i \in 2..n : i \in 1..n /\ i # 1 OBVIOUS
    <2> QED BY <1>3, <2>1
<1> DEFINE Bad == {k \in 1..n : ~Lists(f[k], U(k))}
<1>5. Lists(f[1], U(1))
    <2>1. 1 \in 1..n /\ \A i \in 1..1 : i = 1 OBVIOUS
    <2>2. U(1) = E[1] BY <2>1
    <2> QED BY <1>4, <2>1, <2>2
<1>6. ASSUME NEW k \in 2..n, Lists(f[k - 1], U(k - 1)) PROVE Lists(f[k], U(k))
    <2>1. k \in 1..n /\ \A i \in 1..(k - 1) : i \in 1..n /\ i < k OBVIOUS
    <2>2. KeysApart(U(k - 1), E[k]) BY <2>1 DEF KeysApart
    <2>3. U(k) = U(k - 1) \cup E[k]
        <3>1. 1..k = (1..(k - 1)) \cup {k} OBVIOUS
        <3> QED BY <3>1
    <2>4. Lists(q[k], E[k]) BY <2>1
    <2> HIDE DEF U
    <2>5. Lists(f[k - 1] \o q[k], U(k - 1) \cup E[k]) BY <1>6, <2>2, <2>4, ListsBoth
    <2> QED BY <2>3, <2>5, <1>4
<1> HIDE DEF U
<1>7. Bad = {}
    <2> SUFFICES ASSUME Bad # {} PROVE FALSE OBVIOUS
    <2>0. Bad \subseteq Nat OBVIOUS
    <2>1. PICK m \in Bad : \A k \in Bad : m <= k BY <2>0, SmallestOf
    <2>2. m \in 1..n /\ ~Lists(f[m], U(m)) OBVIOUS
    <2>3. m # 1 BY <2>2, <1>5
    <2>4. m \in 2..n /\ m - 1 \in 1..n /\ ~(m <= m - 1) BY <2>2, <2>3
    <2>5. Lists(f[m - 1], U(m - 1)) BY <2>1, <2>4
    <2> QED BY <2>2, <2>4, <2>5, <1>6
<1>8. n \in 1..n OBVIOUS
<1>9. Lists(f[n], U(n)) BY <1>7, <1>8
<1>10. FlattenSeq(q) = f[n] BY FlattenIs DEF f
<1> QED BY <1>9, <1>10 DEF U, AllOf

(* A report by directions: the host that sends in d, the streams of d and   *)
(* the name of their sum, and whether that host counts retransmits          *)
Tests == [dir : {"up", "down", "both"}, streams : 1..MaxStreams,
          udp : BOOLEAN, asks : BOOLEAN]
Dirs(t) == IF t.dir = "both" THEN {"up", "down"} ELSE {t.dir}
Sends(d) == IF d = "up" THEN "c" ELSE "s"
Part(t, d) == {[dir |-> d, id |-> i] : i \in 1..t.streams}
Name(t, d) == IF t.dir = "both" /\ d = "down" THEN "sum_bidir_reverse" ELSE "sum"
Counts(t, has, d) == ~t.udp /\ has[Sends(d)]
DirOf(h, pass) == IF MustBeSender(pass) = (h = "c") THEN "up" ELSE "down"

(* The lines of direction d, and those the host did not print too early *)
Belongs(t, d, e) ==
    IF e.sheet \in {"interval", "stream"}
    THEN e.about \in Part(t, d) /\ e.of = {e.about}
    ELSE e.about = Name(t, d) /\ e.of = Part(t, d)

IntervalLine(t, d, e) ==
    /\ e.sheet \in {"interval", "intervalSum"} /\ Belongs(t, d, e)
    /\ e.side = "both" /\ e.origin = "own"

ResultLine(t, json, has, d, e) ==
    /\ e.sheet \in {"stream", "sum"} /\ Belongs(t, d, e)
    /\ json \/ e.origin # "none"
    /\ e.side = "sender" /\ e.origin \in {"own", "peer"} =>
         e.retransmits = Counts(t, has, d)

ServersOutput == Line("server", "server", {}, "both", "peer", FALSE)

(* A host knows the numbers of its own side, the client those of both *)
OwnSide(h, d, side) == side = "sender" <=> h = Sends(d)
Known(h, d, side) == h = "c" \/ OwnSide(h, d, side)

(* What L must have of direction d *)
OfStream(h, d, x, L) ==
    \A side \in {"sender", "receiver"} :
        Known(h, d, side) =>
            \E e \in L : /\ e.sheet = "stream" /\ e.about = x
                         /\ e.side \in {side, "both"} /\ e.origin # "notAvailable"

OfSum(t, json, d, L) ==
    t.streams > 1 \/ json => \E e \in L : e.sheet = "sum" /\ e.of = Part(t, d)

Complete(h, t, json, d, L) ==
    (\A x \in Part(t, d) : OfStream(h, d, x, L)) /\ OfSum(t, json, d, L)

FlagRight(h, t, has, d, flag) ==
    flag \in BOOLEAN /\ (h = "c" \/ h = Sends(d) => flag = Counts(t, has, d))

(* Lines of different directions are about different things *)
LEMMA PartsApart ==
    ASSUME NEW t \in Tests, NEW d \in Dirs(t), NEW e \in Dirs(t), d # e,
           NEW a, NEW b, a.sheet \in {"interval", "intervalSum", "stream", "sum"},
           Belongs(t, d, a), Belongs(t, e, b)
    PROVE  ~SameKey(a, b)
<1>1. t.dir = "both" BY DEF Dirs
<1>2. Name(t, d) # Name(t, e) BY <1>1 DEF Name, Dirs
<1>3. \A x \in Part(t, d) : x \notin Part(t, e)
    <2> SUFFICES ASSUME NEW i, NEW j, [dir |-> d, id |-> i] = [dir |-> e, id |-> j]
                 PROVE  FALSE
        BY DEF Part
    <2>1. [dir |-> d, id |-> i].dir = d /\ [dir |-> e, id |-> j].dir = e OBVIOUS
    <2> QED BY <2>1
<1> QED BY <1>2, <1>3 DEF Belongs, SameKey

LEMMA LineIs ==
    ASSUME NEW sheet, NEW about, NEW of, NEW side, NEW origin, NEW retransmits
    PROVE  LET e == Line(sheet, about, of, side, origin, retransmits) IN
           /\ e.sheet = sheet /\ e.about = about /\ e.of = of
           /\ e.side = side /\ e.origin = origin /\ e.retransmits = retransmits
           /\ LET u == [e EXCEPT !.origin = "notAvailable"] IN
              /\ u.sheet = sheet /\ u.about = about /\ u.of = of
              /\ u.side = side /\ u.origin = "notAvailable" /\ u.retransmits = retransmits
BY DEF Line

(* The streams of a pass are those of one direction *)
LEMMA PassIs ==
    ASSUME repTest \in Tests, NEW h \in Hosts, NEW pass \in {-1, 0, 1},
           DirOf(h, pass) \in Dirs(repTest)
    PROVE  LET d == DirOf(h, pass) IN
           /\ OfPass(h, pass) = Part(repTest, d)
           /\ SumName(h, pass) = Name(repTest, d)
           /\ InOrder(h, pass) = [n \in 1..repTest.streams |-> [dir |-> d, id |-> n]]
           /\ \A x \in Part(repTest, d) : IsSender(h, x) <=> h = Sends(d)
           /\ MustBeSender(pass) <=> h = Sends(d)
<1> DEFINE d == DirOf(h, pass)
<1>1. MustBeSender(pass) \in BOOLEAN BY DEF MustBeSender
<1>2. h \in {"c", "s"} BY DEF Hosts
<1>3. d \in {"up", "down"} /\ (d = "up" <=> (MustBeSender(pass) <=> h = "c"))
    BY <1>1 DEF DirOf
<1>4. MustBeSender(pass) <=> h = Sends(d) BY <1>2, <1>3 DEF Sends
<1>5. InOrder(h, pass) = [n \in 1..repTest.streams |-> [dir |-> d, id |-> n]]
    BY DEF InOrder, DirOf
<1> HIDE DEF d
<1>6. \A x : IsSender(h, x) <=> (x.dir = "up" <=> h = "c") BY DEF IsSender
<1>7. \A x \in Part(repTest, d) : x.dir = d BY DEF Part
<1>8. SumName(h, pass) = Name(repTest, d)
    <2>1. ((h = "c") # MustBeSender(pass)) <=> d = "down" BY <1>1, <1>3
    <2> QED BY <2>1 DEF SumName, Name
<1>9. Streams = UNION {Part(repTest, e) : e \in Dirs(repTest)}
    <2>1. {"up", "down"} \cap (IF repTest.dir = "both" THEN {"up", "down"} ELSE {repTest.dir})
            = Dirs(repTest)
        BY DEF Tests, Dirs
    <2> QED BY <2>1 DEF Streams, Part
<1>10. ASSUME NEW e \in Dirs(repTest), NEW x \in Part(repTest, e)
       PROVE  (IsSender(h, x) = MustBeSender(pass)) <=> e = d
    <2>1. e \in {"up", "down"} BY DEF Dirs, Tests
    <2>2. x.dir = e BY DEF Part
    <2>3. IsSender(h, x) <=> (e = "up" <=> h = "c") BY <1>6, <2>2
    <2>4. IsSender(h, x) \in BOOLEAN BY DEF IsSender
    <2>5. (IsSender(h, x) = MustBeSender(pass)) <=> (IsSender(h, x) <=> MustBeSender(pass))
        BY <2>4, <1>1
    <2> QED BY <2>1, <2>3, <2>5, <1>3
<1>11. d \in Dirs(repTest) BY DEF d
<1>12. OfPass(h, pass) = Part(repTest, d)
    <2>1. OfPass(h, pass) \subseteq Part(repTest, d)
        <3> SUFFICES ASSUME NEW x \in Streams, IsSender(h, x) = MustBeSender(pass)
                     PROVE  x \in Part(repTest, d)
            BY DEF OfPass
        <3>1. PICK e \in Dirs(repTest) : x \in Part(repTest, e) BY <1>9
        <3> QED BY <3>1, <1>10
    <2>2. Part(repTest, d) \subseteq OfPass(h, pass)
        <3> SUFFICES ASSUME NEW x \in Part(repTest, d) PROVE x \in OfPass(h, pass)
            OBVIOUS
        <3>1. x \in Streams BY <1>9, <1>11
        <3> QED BY <3>1, <1>10, <1>11 DEF OfPass
    <2> QED BY <2>1, <2>2
<1>13. \A x \in Part(repTest, d) : IsSender(h, x) <=> h = Sends(d)
    BY <1>2, <1>3, <1>6, <1>7 DEF Sends
<1> QED BY <1>4, <1>5, <1>8, <1>12, <1>13 DEF d

(* The line of one side, and the list it is printed as *)
SideLines(h, d, sheet, about, of, side, L) ==
    /\ \A a \in L : /\ ResultLine(repTest, Json(h), repHas, d, a)
                    /\ a.sheet = sheet /\ a.about = about /\ a.of = of /\ a.side = side
    /\ Known(h, d, side) => \E a \in L : a.origin # "notAvailable"

SidePrinted(h, d, sheet, about, of, side, own, flag) ==
    LET e == Line(sheet, about, of, side, Origin(h, own), flag) IN
    /\ e.origin = "none" <=> ~Known(h, d, side)
    /\ Json(h) \/ e.origin # "none" => SideLines(h, d, sheet, about, of, side, {e})
    /\ \E L : /\ Lists(Printed(h, e), L)
              /\ SideLines(h, d, sheet, about, of, side, L)
    /\ \E L : /\ Lists(IF e.origin = "none" THEN <<>> ELSE <<e>>, L)
              /\ SideLines(h, d, sheet, about, of, side, L)

LEMMA SideLine ==
    ASSUME repTest \in Tests, NEW h \in Hosts, NEW d \in Dirs(repTest),
           NEW sheet \in {"stream", "sum"}, NEW side \in {"sender", "receiver"},
           NEW flag, side = "sender" => FlagRight(h, repTest, repHas, d, flag),
           NEW about, NEW of, NEW own, own <=> OwnSide(h, d, side),
           IF sheet = "stream" THEN about \in Part(repTest, d) /\ of = {about}
           ELSE about = Name(repTest, d) /\ of = Part(repTest, d)
    PROVE  SidePrinted(h, d, sheet, about, of, side, own, flag)
<1> DEFINE e == Line(sheet, about, of, side, Origin(h, own), flag)
           u == [e EXCEPT !.origin = "notAvailable"]
<1>1. /\ e.sheet = sheet /\ e.about = about /\ e.of = of /\ e.side = side
      /\ e.origin = Origin(h, own) /\ e.retransmits = flag
      /\ u.sheet = sheet /\ u.about = about /\ u.of = of /\ u.side = side
      /\ u.origin = "notAvailable" /\ u.retransmits = flag
    BY LineIs
<1>2. Origin(h, own) \in {"own", "peer", "none"} BY DEF Origin
<1>3. Origin(h, own) = "none" <=> ~Known(h, d, side) BY DEF Origin, Known
<1>4. side = "sender" /\ Origin(h, own) # "none" => flag = Counts(repTest, repHas, d)
    BY <1>3 DEF Known, OwnSide, FlagRight
<1> HIDE DEF e, u
<1>5. Belongs(repTest, d, e) /\ Belongs(repTest, d, u) BY <1>1 DEF Belongs
<1>6. Json(h) \/ e.origin # "none" => ResultLine(repTest, Json(h), repHas, d, e)
    BY <1>1, <1>4, <1>5 DEF ResultLine
<1>7. ResultLine(repTest, Json(h), repHas, d, u) BY <1>1, <1>5 DEF ResultLine
<1>8. Json(h) \/ e.origin # "none" => SideLines(h, d, sheet, about, of, side, {e})
    BY <1>1, <1>2, <1>6 DEF SideLines
<1>9. e.origin = "none" => SideLines(h, d, sheet, about, of, side, {u})
    BY <1>1, <1>3, <1>7 DEF SideLines
<1>10. e.origin = "none" => SideLines(h, d, sheet, about, of, side, {})
    BY <1>1, <1>3 DEF SideLines
<1>11. \E L : /\ Lists(Printed(h, e), L)
              /\ SideLines(h, d, sheet, about, of, side, L)
    <2>1. CASE Json(h) \/ e.origin # "none"
        <3>1. Printed(h, e) = <<e>> BY <2>1 DEF Printed
        <3> QED BY <3>1, <2>1, <1>8, ListsOne
    <2>2. CASE ~(Json(h) \/ e.origin # "none") /\ repLook[h] = "verbose"
        <3>1. Printed(h, e) = <<u>> BY <2>2 DEF Printed, u
        <3> QED BY <3>1, <2>2, <1>9, ListsOne
    <2>3. CASE ~(Json(h) \/ e.origin # "none") /\ repLook[h] # "verbose"
        <3>1. Printed(h, e) = <<>> BY <2>3 DEF Printed
        <3> QED BY <3>1, <2>3, <1>10, ListsNone
    <2> QED BY <2>1, <2>2, <2>3
<1>12. \E L : /\ Lists(IF e.origin = "none" THEN <<>> ELSE <<e>>, L)
              /\ SideLines(h, d, sheet, about, of, side, L)
    <2>1. CASE e.origin = "none" BY <2>1, <1>10, ListsNone
    <2>2. CASE e.origin # "none" BY <2>2, <1>8, ListsOne
    <2> QED BY <2>1, <2>2
<1> QED BY <1>1, <1>3, <1>8, <1>11, <1>12 DEF e, SidePrinted

(* Both lines together *)
LEMMA BothSides ==
    ASSUME NEW h, NEW d, NEW sheet, NEW about, NEW of, NEW s, NEW t, NEW E, NEW F,
           Lists(s, E), SideLines(h, d, sheet, about, of, "sender", E),
           Lists(t, F), SideLines(h, d, sheet, about, of, "receiver", F)
    PROVE  Lists(s \o t, E \cup F)
<1>1. KeysApart(E, F) BY DEF KeysApart, SideLines, SameKey
<1> QED BY <1>1, ListsBoth

LEMMA StreamReport ==
    ASSUME repTest \in Tests, NEW h \in Hosts, NEW d \in Dirs(repTest),
           NEW x \in Part(repTest, d), IsSender(h, x) <=> h = Sends(d),
           NEW flag, FlagRight(h, repTest, repHas, d, flag)
    PROVE  \E L : /\ Lists(StreamLines(h, flag, x), L)
                  /\ \A e \in L : /\ ResultLine(repTest, Json(h), repHas, d, e)
                                  /\ e.sheet = "stream" /\ e.about = x
                  /\ OfStream(h, d, x, L)
<1>1. CASE repTest.udp /\ Json(h)
    <2> DEFINE e == Line("stream", x, {x}, "both", Origin(h, TRUE), FALSE)
    <2>1. /\ e.sheet = "stream" /\ e.about = x /\ e.of = {x} /\ e.side = "both"
          /\ e.origin = Origin(h, TRUE)
        BY DEF Line
    <2>2. StreamLines(h, flag, x) = <<e>> BY <1>1 DEF StreamLines
    <2> HIDE DEF e
    <2>3. e.origin = "own" BY <2>1 DEF Origin
    <2>4. Belongs(repTest, d, e) BY <2>1 DEF Belongs
    <2>5. ResultLine(repTest, Json(h), repHas, d, e) BY <2>1, <2>3, <2>4 DEF ResultLine
    <2>6. OfStream(h, d, x, {e}) BY <2>1, <2>3 DEF OfStream
    <2> QED BY <2>1, <2>2, <2>5, <2>6, ListsOne
<1>2. CASE ~(repTest.udp /\ Json(h))
    <2> DEFINE one == Line("stream", x, {x}, "sender", Origin(h, IsSender(h, x)), flag)
               two == Line("stream", x, {x}, "receiver", Origin(h, ~IsSender(h, x)), FALSE)
    <2>1. StreamLines(h, flag, x) = Printed(h, one) \o Printed(h, two)
        BY <1>2 DEF StreamLines
    <2>2. PICK E : Lists(Printed(h, one), E) /\ SideLines(h, d, "stream", x, {x}, "sender", E)
        <3>1. IsSender(h, x) <=> OwnSide(h, d, "sender") BY DEF OwnSide
        <3> QED BY <3>1, SideLine DEF SidePrinted
    <2>3. PICK F : Lists(Printed(h, two), F) /\ SideLines(h, d, "stream", x, {x}, "receiver", F)
        <3>1. ~IsSender(h, x) <=> OwnSide(h, d, "receiver") BY DEF OwnSide
        <3> QED BY <3>1, SideLine DEF SidePrinted
    <2> HIDE DEF one, two
    <2>4. Lists(StreamLines(h, flag, x), E \cup F) BY <2>1, <2>2, <2>3, BothSides
    <2>5. OfStream(h, d, x, E \cup F) BY <2>2, <2>3 DEF OfStream, SideLines
    <2> QED BY <2>2, <2>3, <2>4, <2>5 DEF SideLines
<1> QED BY <1>1, <1>2

LEMMA SumReport ==
    ASSUME repTest \in Tests, NEW h \in Hosts, NEW pass \in {-1, 0, 1},
           NEW d, d = DirOf(h, pass), d \in Dirs(repTest),
           NEW flag, FlagRight(h, repTest, repHas, d, flag)
    PROVE  \E L : /\ Lists(SumLines(h, flag, pass), L)
                  /\ \A e \in L : ResultLine(repTest, Json(h), repHas, d, e) /\ e.sheet = "sum"
                  /\ OfSum(repTest, Json(h), d, L)
<1> DEFINE name == SumName(h, pass)
           of == OfPass(h, pass)
           one == Line("sum", name, of, "sender", Origin(h, MustBeSender(pass)), flag)
           two == Line("sum", name, of, "receiver", Origin(h, ~MustBeSender(pass)), FALSE)
<1>1. name = Name(repTest, d) /\ of = Part(repTest, d) /\ (MustBeSender(pass) <=> h = Sends(d))
    BY PassIs
<1>2. CASE ~HasSum(h)
    <2>1. SumLines(h, flag, pass) = <<>> BY <1>2 DEF SumLines
    <2>2. OfSum(repTest, Json(h), d, {}) BY <1>2 DEF OfSum, HasSum
    <2> QED BY <2>1, <2>2, ListsNone
<1>3. CASE HasSum(h)
    <2>1. /\ one.origin = "none" <=> ~Known(h, d, "sender")
          /\ Json(h) \/ one.origin # "none" => SideLines(h, d, "sum", name, of, "sender", {one})
          /\ \E L : /\ Lists(Printed(h, one), L)
                    /\ SideLines(h, d, "sum", name, of, "sender", L)
          /\ \E L : /\ Lists(IF one.origin = "none" THEN <<>> ELSE <<one>>, L)
                    /\ SideLines(h, d, "sum", name, of, "sender", L)
        <3>1. SidePrinted(h, d, "sum", name, of, "sender", MustBeSender(pass), flag)
            <4>1. PICK own \in BOOLEAN : own = (MustBeSender(pass))
                BY DEF MustBeSender
            <4>2. own <=> OwnSide(h, d, "sender") BY <1>1, <4>1 DEF OwnSide
            <4> HIDE DEF name, of
            <4>3. SidePrinted(h, d, "sum", name, of, "sender", own, flag)
                BY <1>1, <4>2, SideLine
            <4> QED BY <4>1, <4>3
        <3> HIDE DEF name, of
        <3> QED BY <3>1 DEF SidePrinted
    <2>2. /\ two.origin = "none" <=> ~Known(h, d, "receiver")
          /\ Json(h) \/ two.origin # "none" => SideLines(h, d, "sum", name, of, "receiver", {two})
          /\ \E L : /\ Lists(Printed(h, two), L)
                    /\ SideLines(h, d, "sum", name, of, "receiver", L)
          /\ \E L : /\ Lists(IF two.origin = "none" THEN <<>> ELSE <<two>>, L)
                    /\ SideLines(h, d, "sum", name, of, "receiver", L)
        <3>1. SidePrinted(h, d, "sum", name, of, "receiver", ~MustBeSender(pass), FALSE)
            <4>1. PICK own \in BOOLEAN : own = (~MustBeSender(pass))
                BY DEF MustBeSender
            <4>2. own <=> OwnSide(h, d, "receiver") BY <1>1, <4>1 DEF OwnSide
            <4> HIDE DEF name, of
            <4>3. SidePrinted(h, d, "sum", name, of, "receiver", own, FALSE)
                BY <1>1, <4>2, SideLine
            <4> QED BY <4>1, <4>3
        <3> HIDE DEF name, of
        <3> QED BY <3>1 DEF SidePrinted
    <2>3. ASSUME NEW E, SideLines(h, d, "sum", name, of, "sender", E),
                 NEW F, SideLines(h, d, "sum", name, of, "receiver", F)
          PROVE  /\ OfSum(repTest, Json(h), d, E \cup F)
                 /\ \A e \in E \cup F : /\ ResultLine(repTest, Json(h), repHas, d, e)
                                        /\ e.sheet = "sum"
        <3>1. Known(h, d, "sender") \/ Known(h, d, "receiver") BY DEF Known, OwnSide
        <3> HIDE DEF name, of
        <3> QED BY <3>1, <2>3, <1>1 DEF SideLines, OfSum
    <2>4. CASE ~repTest.udp
        <3>1. SumLines(h, flag, pass) = Printed(h, one) \o Printed(h, two)
            BY <1>3, <2>4 DEF SumLines
        <3> HIDE DEF one, two, name, of
        <3>2. PICK E : Lists(Printed(h, one), E) /\ SideLines(h, d, "sum", name, of, "sender", E)
            BY <2>1
        <3>3. PICK F : Lists(Printed(h, two), F) /\ SideLines(h, d, "sum", name, of, "receiver", F)
            BY <2>2
        <3>4. Lists(SumLines(h, flag, pass), E \cup F) BY <3>1, <3>2, <3>3, BothSides
        <3> QED BY <3>2, <3>3, <3>4, <2>3
    <2>5. CASE repTest.udp /\ Json(h)
        <3> DEFINE all == Line("sum", name, of, "both", "own", FALSE)
        <3>1. SumLines(h, flag, pass) = <<all, one, two>> BY <1>3, <2>5 DEF SumLines
        <3>2. /\ all.sheet = "sum" /\ all.about = name /\ all.of = of /\ all.side = "both"
              /\ all.origin = "own"
            BY DEF Line
        <3> HIDE DEF one, two, name, of, all
        <3>3. SideLines(h, d, "sum", name, of, "sender", {one}) BY <2>1, <2>5
        <3>4. SideLines(h, d, "sum", name, of, "receiver", {two}) BY <2>2, <2>5
        <3>5. ~SameKey(all, one) /\ ~SameKey(all, two) /\ ~SameKey(one, two)
            BY <3>2, <3>3, <3>4 DEF SideLines, SameKey
        <3>6. Lists(<<all, one, two>>, {all, one, two}) BY <3>5, ListsThree
        <3>9. ResultLine(repTest, Json(h), repHas, d, all)
            <4>1. Belongs(repTest, d, all) BY <3>2, <1>1 DEF Belongs
            <4> QED BY <4>1, <3>2 DEF ResultLine
        <3>10. OfSum(repTest, Json(h), d, {all, one, two})
            BY <3>2, <1>1 DEF OfSum
        <3>11. \A e \in {one} \cup {two} :
                  ResultLine(repTest, Json(h), repHas, d, e) /\ e.sheet = "sum"
            BY <3>3, <3>4, <2>3
        <3> QED BY <3>1, <3>2, <3>6, <3>9, <3>10, <3>11
    <2>6. CASE repTest.udp /\ ~Json(h)
        <3> DEFINE first == IF one.origin = "none" THEN <<>> ELSE <<one>>
                   second == IF two.origin = "none" THEN <<>> ELSE <<two>>
        <3>1. SumLines(h, flag, pass) = first \o second BY <1>3, <2>6 DEF SumLines
        <3> HIDE DEF one, two, name, of
        <3>2. PICK E : Lists(first, E) /\ SideLines(h, d, "sum", name, of, "sender", E)
            BY <2>1
        <3>3. PICK F : Lists(second, F) /\ SideLines(h, d, "sum", name, of, "receiver", F)
            BY <2>2
        <3> HIDE DEF first, second
        <3>4. Lists(SumLines(h, flag, pass), E \cup F) BY <3>1, <3>2, <3>3, BothSides
        <3> QED BY <3>2, <3>3, <3>4, <2>3
    <2> QED BY <2>4, <2>5, <2>6
<1> QED BY <1>2, <1>3

(* The report of one pass *)
LEMMA PassReport ==
    ASSUME ReportAssumption, repTest \in Tests, NEW h \in Hosts, NEW pass \in {-1, 0, 1},
           NEW d, d = DirOf(h, pass), d \in Dirs(repTest),
           NEW flag, FlagRight(h, repTest, repHas, d, flag)
    PROVE  LET list == InOrder(h, pass)
               ofStreams == [n \in DOMAIN list |-> StreamLines(h, flag, list[n])]
           IN  \E L : /\ Lists(FlattenSeq(ofStreams) \o SumLines(h, flag, pass), L)
                      /\ \A e \in L : ResultLine(repTest, Json(h), repHas, d, e)
                      /\ Complete(h, repTest, Json(h), d, L)
<1> DEFINE N == repTest.streams
           list == InOrder(h, pass)
           q == [n \in DOMAIN list |-> StreamLines(h, flag, list[n])]
           Of(n, L) == /\ Lists(StreamLines(h, flag, list[n]), L)
                       /\ \A e \in L : /\ ResultLine(repTest, Json(h), repHas, d, e)
                                       /\ e.sheet = "stream" /\ e.about = list[n]
                       /\ OfStream(h, d, list[n], L)
           E == [n \in 1..N |-> CHOOSE L : Of(n, L)]
<1>1. N \in Nat \ {0} BY DEF Tests, ReportAssumption
<1>2. /\ list = [n \in 1..N |-> [dir |-> d, id |-> n]]
      /\ \A x \in Part(repTest, d) : IsSender(h, x) <=> h = Sends(d)
    BY PassIs
<1>3. DOMAIN list = 1..N /\ \A n \in 1..N : list[n] \in Part(repTest, d)
    BY <1>2 DEF Part
<1>4. \A i, j \in 1..N : list[i] = list[j] => i = j
    <2> SUFFICES ASSUME NEW i \in 1..N, NEW j \in 1..N,
                        [dir |-> d, id |-> i] = [dir |-> d, id |-> j]
                 PROVE  i = j
        BY <1>2
    <2>1. [dir |-> d, id |-> i].id = i /\ [dir |-> d, id |-> j].id = j OBVIOUS
    <2> QED BY <2>1
<1>5. Part(repTest, d) = {list[n] : n \in 1..N} BY <1>2 DEF Part
<1> HIDE DEF list
<1>6. ASSUME NEW n \in 1..N PROVE Of(n, E[n])
    <2>1. \E L : Of(n, L)
        <3>1. list[n] \in Part(repTest, d) /\ (IsSender(h, list[n]) <=> h = Sends(d))
            BY <1>2, <1>3
        <3> QED BY <3>1, StreamReport
    <2> HIDE DEF Of
    <2> QED BY <2>1
<1> HIDE DEF E
<1>7. Len(q) = N /\ \A n \in 1..N : q[n] = StreamLines(h, flag, list[n])
    <2>1. q = [n \in 1..N |-> StreamLines(h, flag, list[n])] BY <1>3
    <2> QED BY <2>1, <1>1
<1> HIDE DEF q
<1>8. \A n \in 1..N : Lists(q[n], E[n]) BY <1>6, <1>7
<1>9. \A i, j \in 1..N : i < j => KeysApart(E[i], E[j])
    <2> SUFFICES ASSUME NEW i \in 1..N, NEW j \in 1..N, i < j,
                        NEW a \in E[i], NEW b \in E[j], SameKey(a, b)
                 PROVE  FALSE
        BY DEF KeysApart
    <2>1. a.about = list[i] /\ b.about = list[j] BY <1>6
    <2>2. i = j BY <2>1, <1>4 DEF SameKey
    <2> QED BY <2>2
<1> DEFINE U == UNION {E[n] : n \in 1..N}
<1>10. Lists(FlattenSeq(q), U)
    <2>1. ListEach(q, N, E) BY <1>7, <1>8, <1>9 DEF ListEach
    <2> HIDE DEF N, U
    <2>2. Lists(FlattenSeq(q), AllOf(E, N)) BY <1>1, <2>1, ListsAll
    <2> QED BY <2>2 DEF AllOf, U
<1>11. PICK F : /\ Lists(SumLines(h, flag, pass), F)
                /\ \A e \in F : ResultLine(repTest, Json(h), repHas, d, e) /\ e.sheet = "sum"
                /\ OfSum(repTest, Json(h), d, F)
    BY SumReport
<1>12. \A e \in U : ResultLine(repTest, Json(h), repHas, d, e) /\ e.sheet = "stream"
    BY <1>6
<1>13. KeysApart(U, F) BY <1>11, <1>12 DEF KeysApart, SameKey
<1>14. \A x \in Part(repTest, d) : OfStream(h, d, x, U)
    <2> SUFFICES ASSUME NEW n \in 1..N PROVE OfStream(h, d, list[n], U) BY <1>5
    <2>1. OfStream(h, d, list[n], E[n]) BY <1>6
    <2>2. E[n] \subseteq U OBVIOUS
    <2> HIDE DEF U
    <2> QED BY <2>1, <2>2 DEF OfStream
<1> HIDE DEF U
<1>15. Lists(FlattenSeq(q) \o SumLines(h, flag, pass), U \cup F)
    BY <1>10, <1>11, <1>13, ListsBoth
<1>16. Complete(h, repTest, Json(h), d, U \cup F)
    BY <1>11, <1>14 DEF Complete, OfStream, OfSum
<1> QED BY <1>11, <1>12, <1>15, <1>16 DEF q, list

(* The last interval, of all passes *)
LEMMA IntervalPassReport ==
    ASSUME ReportAssumption, repTest \in Tests, NEW h \in Hosts, NEW pass \in {-1, 0, 1},
           NEW d, d = DirOf(h, pass), d \in Dirs(repTest)
    PROVE  \E L : Lists(IntervalPass(h, pass), L) /\ \A e \in L : IntervalLine(repTest, d, e)
<1> DEFINE N == repTest.streams
           list == InOrder(h, pass)
           shows == repFlag[h] /\ MustBeSender(pass)
           one(n) == Line("interval", list[n], {list[n]}, "both", "own", shows)
           sum == Line("intervalSum", SumName(h, pass), OfPass(h, pass), "both", "own", shows)
           lines == [n \in DOMAIN list |-> Line("interval", list[n], {list[n]}, "both", "own", shows)]
           L == {one(n) : n \in 1..N}
           sums == IF HasSum(h) THEN <<sum>> ELSE <<>>
<1>1. N \in Nat \ {0} BY DEF Tests, ReportAssumption
<1>2. /\ list = [n \in 1..N |-> [dir |-> d, id |-> n]]
      /\ SumName(h, pass) = Name(repTest, d) /\ OfPass(h, pass) = Part(repTest, d)
    BY PassIs
<1>3. DOMAIN list = 1..N /\ \A n \in 1..N : list[n] \in Part(repTest, d)
    BY <1>2 DEF Part
<1>4. \A i, j \in 1..N : list[i] = list[j] => i = j
    <2> SUFFICES ASSUME NEW i \in 1..N, NEW j \in 1..N,
                        [dir |-> d, id |-> i] = [dir |-> d, id |-> j]
                 PROVE  i = j
        BY <1>2
    <2>1. [dir |-> d, id |-> i].id = i /\ [dir |-> d, id |-> j].id = j OBVIOUS
    <2> QED BY <2>1
<1>5. IntervalPass(h, pass) = lines \o sums BY DEF IntervalPass
<1> HIDE DEF list, shows
<1>6. \A n \in 1..N : /\ one(n).sheet = "interval" /\ one(n).about = list[n]
                      /\ one(n).of = {list[n]} /\ one(n).side = "both"
                      /\ one(n).origin = "own"
    BY DEF Line
<1>7. /\ sum.sheet = "intervalSum" /\ sum.about = Name(repTest, d)
      /\ sum.of = Part(repTest, d) /\ sum.side = "both" /\ sum.origin = "own"
    BY <1>2 DEF Line
<1>8. lines = [n \in 1..N |-> one(n)] BY <1>3
<1> HIDE DEF one, sum, lines
<1>9. lines \in Seq(L) /\ Len(lines) = N /\ \A n \in 1..N : lines[n] = one(n)
    BY <1>1, <1>8
<1>10. Lists(lines, L)
    <2>1. \A e \in L : In(e, lines) BY <1>9 DEF In
    <2>2. \A i, j \in 1..N : SameKey(lines[i], lines[j]) => i = j
        BY <1>4, <1>6, <1>9 DEF SameKey
    <2> QED BY <1>9, <2>1, <2>2 DEF Lists
<1>11. \A e \in L : IntervalLine(repTest, d, e) /\ e.sheet = "interval"
    BY <1>3, <1>6 DEF IntervalLine, Belongs
<1>12. IntervalLine(repTest, d, sum) BY <1>7 DEF IntervalLine, Belongs
<1> HIDE DEF L
<1>13. CASE HasSum(h)
    <2>1. KeysApart(L, {sum}) BY <1>7, <1>11 DEF KeysApart, SameKey
    <2>2. Lists(lines \o <<sum>>, L \cup {sum}) BY <2>1, <1>10, ListsOne, ListsBoth
    <2> QED BY <2>2, <1>5, <1>11, <1>12, <1>13
<1>14. CASE ~HasSum(h)
    <2>1. KeysApart(L, {}) BY DEF KeysApart
    <2>2. Lists(lines \o <<>>, L \cup {}) BY <2>1, <1>10, ListsNone, ListsBoth
    <2> QED BY <2>2, <1>5, <1>11, <1>14
<1> QED BY <1>13, <1>14

(* The passes of a host: one, or first up and then down *)
FirstPass(h) == IF h = "c" THEN -1 ELSE 0
SecondPass(h) == IF h = "c" THEN 0 ELSE 1

LEMMA PassesAre ==
    ASSUME repTest \in Tests, NEW h \in Hosts
    PROVE  IF repTest.dir = "both"
           THEN /\ PassesOf(h) = <<FirstPass(h), SecondPass(h)>>
                /\ FirstPass(h) \in {-1, 0, 1} /\ DirOf(h, FirstPass(h)) = "up"
                /\ SecondPass(h) \in {-1, 0, 1} /\ DirOf(h, SecondPass(h)) = "down"
           ELSE /\ PassesOf(h) = <<Mode(h, repTest.dir)>>
                /\ Mode(h, repTest.dir) \in {-1, 0, 1}
                /\ DirOf(h, Mode(h, repTest.dir)) = repTest.dir
<1>1. h \in {"c", "s"} BY DEF Hosts
<1>2. MustBeSender(-1) /\ MustBeSender(1) /\ ~MustBeSender(0) BY DEF MustBeSender
<1>3. CASE repTest.dir = "both"
    <2>1. PassesOf(h) = <<FirstPass(h), SecondPass(h)>>
        BY <1>3 DEF PassesOf, FirstPass, SecondPass
    <2>2. CASE h = "c" BY <1>3, <2>1, <2>2, <1>2 DEF FirstPass, SecondPass, DirOf
    <2>3. CASE h = "s"
        <3>1. h # "c" BY <2>3
        <3>2. FirstPass(h) = 0 /\ SecondPass(h) = 1 BY <3>1 DEF FirstPass, SecondPass
        <3>3. MustBeSender(0) = (h = "c") /\ MustBeSender(1) # (h = "c")
            BY <3>1 DEF MustBeSender
        <3> QED BY <1>3, <2>1, <3>2, <3>3 DEF DirOf
    <2> QED BY <1>1, <2>2, <2>3
<1>4. CASE repTest.dir # "both"
    <2>1. repTest.dir \in {"up", "down"} BY <1>4 DEF Tests
    <2>2. PassesOf(h) = <<Mode(h, repTest.dir)>> BY <1>4 DEF PassesOf
    <2>3. Mode(h, repTest.dir) \in {0, 1} BY <1>4 DEF Mode
    <2>4. Mode(h, repTest.dir) = 1 <=> (repTest.dir = "up" <=> h = "c") BY <1>4 DEF Mode
    <2>5. MustBeSender(Mode(h, repTest.dir)) <=> (repTest.dir = "up" <=> h = "c")
        BY <1>2, <2>3, <2>4
    <2>6. DirOf(h, Mode(h, repTest.dir)) = repTest.dir
        <3>1. MustBeSender(Mode(h, repTest.dir)) \in BOOLEAN BY DEF MustBeSender
        <3>2. (MustBeSender(Mode(h, repTest.dir)) = (h = "c")) <=> repTest.dir = "up"
            BY <2>5, <3>1
        <3> QED BY <3>2, <2>1 DEF DirOf
    <2> QED BY <1>4, <2>2, <2>3, <2>6
<1> QED BY <1>3, <1>4

LEMMA IntervalReport ==
    ASSUME ReportAssumption, repTest \in Tests, NEW h \in Hosts
    PROVE  \E L : /\ Lists(IntervalLines(h), L)
                  /\ \A e \in L : \E d \in Dirs(repTest) : IntervalLine(repTest, d, e)
<1> DEFINE q == [n \in DOMAIN PassesOf(h) |-> IntervalPass(h, PassesOf(h)[n])]
<1>1. IntervalLines(h) = FlattenSeq(q) BY DEF IntervalLines
<1>2. CASE repTest.dir # "both"
    <2> DEFINE p == Mode(h, repTest.dir)
    <2>1. PassesOf(h) = <<p>> /\ p \in {-1, 0, 1} /\ DirOf(h, p) = repTest.dir
        BY <1>2, PassesAre
    <2>2. repTest.dir \in Dirs(repTest) BY <1>2 DEF Dirs
    <2> HIDE DEF p
    <2>3. PICK L : /\ Lists(IntervalPass(h, p), L)
                   /\ \A e \in L : IntervalLine(repTest, repTest.dir, e)
        BY <2>1, <2>2, IntervalPassReport
    <2>4. q = <<IntervalPass(h, p)>>
        <3>1. DOMAIN PassesOf(h) = 1..1 /\ \A n \in 1..1 : PassesOf(h)[n] = p BY <2>1
        <3> QED BY <3>1
    <2> HIDE DEF q
    <2>5. Len(q) = 1 /\ q[1] = IntervalPass(h, p) BY <2>4
    <2> DEFINE E == [n \in 1..1 |-> L]
    <2>6. E[1] = L /\ \A i \in 1..1 : i = 1 OBVIOUS
    <2> HIDE DEF E
    <2>7. ListEach(q, 1, E) BY <2>3, <2>5, <2>6 DEF ListEach
    <2>8. Lists(FlattenSeq(q), AllOf(E, 1)) BY <2>7, ListsAll
    <2>9. AllOf(E, 1) = L BY <2>6 DEF AllOf
    <2> QED BY <1>1, <2>2, <2>3, <2>8, <2>9
<1>3. CASE repTest.dir = "both"
    <2> DEFINE a == FirstPass(h)
               b == SecondPass(h)
    <2>1. /\ PassesOf(h) = <<a, b>> /\ a \in {-1, 0, 1} /\ DirOf(h, a) = "up"
          /\ b \in {-1, 0, 1} /\ DirOf(h, b) = "down"
        BY <1>3, PassesAre
    <2>2. "up" \in Dirs(repTest) /\ "down" \in Dirs(repTest) BY <1>3 DEF Dirs
    <2> HIDE DEF a, b
    <2>3. PICK L : /\ Lists(IntervalPass(h, a), L)
                   /\ \A e \in L : IntervalLine(repTest, "up", e)
        BY <2>1, <2>2, IntervalPassReport
    <2>4. PICK M : /\ Lists(IntervalPass(h, b), M)
                   /\ \A e \in M : IntervalLine(repTest, "down", e)
        BY <2>1, <2>2, IntervalPassReport
    <2>5. Len(q) = 2 /\ q[1] = IntervalPass(h, a) /\ q[2] = IntervalPass(h, b)
        <3>1. /\ DOMAIN PassesOf(h) = 1..2
              /\ PassesOf(h)[1] = a /\ PassesOf(h)[2] = b
            BY <2>1
        <3>2. q = [n \in 1..2 |-> IntervalPass(h, PassesOf(h)[n])] BY <3>1
        <3> HIDE DEF q
        <3> QED BY <3>1, <3>2
    <2> HIDE DEF q
    <2>6. KeysApart(L, M)
        <3> SUFFICES ASSUME NEW e \in L, NEW f \in M PROVE ~SameKey(e, f) BY DEF KeysApart
        <3>1. /\ Belongs(repTest, "up", e) /\ Belongs(repTest, "down", f)
              /\ e.sheet \in {"interval", "intervalSum", "stream", "sum"}
            BY <2>3, <2>4 DEF IntervalLine
        <3> QED BY <3>1, <2>2, PartsApart
    <2> DEFINE E == [n \in 1..2 |-> IF n = 1 THEN L ELSE M]
    <2>7. E[1] = L /\ E[2] = M OBVIOUS
    <2> HIDE DEF E
    <2>8. \A i \in 1..2 : i = 1 \/ i = 2 OBVIOUS
    <2>9. \A i, j \in 1..2 : i < j => i = 1 /\ j = 2 OBVIOUS
    <2>10. ListEach(q, 2, E)
        BY <2>3, <2>4, <2>5, <2>6, <2>7, <2>8, <2>9 DEF ListEach
    <2>11. Lists(FlattenSeq(q), AllOf(E, 2)) BY <2>10, ListsAll
    <2>12. AllOf(E, 2) = L \cup M BY <2>7, <2>8 DEF AllOf
    <2> QED BY <1>1, <2>2, <2>3, <2>4, <2>11, <2>12
<1> QED BY <1>2, <1>3

(* What L is while the directions in done have been printed *)
OfReport(h, t, json, has, done, L) ==
    /\ \A e \in L : \/ h = "c" /\ e = ServersOutput
                    \/ \E d \in Dirs(t) : IntervalLine(t, d, e)
                    \/ \E d \in done : ResultLine(t, json, has, d, e)
    /\ \A d \in done : Complete(h, t, json, d, L)

(* The client has printed the server's output, or still holds it *)
ServersPart(h, t, json, server, L) ==
    h = "c" => /\ ServersOutput \in L <=> t.asks /\ ~json /\ ~server
               /\ server => t.asks

Contents(h, t, json, has, done, server, lines) ==
    \E L : /\ Lists(lines, L) /\ OfReport(h, t, json, has, done, L)
           /\ ServersPart(h, t, json, server, L)

(* The passes that are left when those of done are over *)
Left(h, t, done, passes) ==
    IF t.dir = "both"
    THEN \/ done = {} /\ passes = <<FirstPass(h), SecondPass(h)>>
         \/ done = {"up"} /\ passes = <<SecondPass(h)>>
    ELSE done = {} /\ passes = <<Mode(h, t.dir)>>

Mine(h, t, has) == CountsRetransmits(h, t, has)

(* The flags from which a pass takes its own *)
Flags(h, t, has, flag, tmp, other) ==
    IF t.dir = "both" THEN tmp = Mine(h, t, has) /\ (h = "c" => other = Mine("s", t, has))
    ELSE FlagRight(h, t, has, t.dir, flag)

HostReport(h, t, json, has, phase, passes, flag, tmp, other, server, lines) ==
    /\ phase = "idle" => flag = Mine(h, t, has) /\ (h = "c" => ~server)
    /\ phase = "printing" =>
         /\ Flags(h, t, has, flag, tmp, other)
         /\ \E done : /\ Left(h, t, done, passes)
                      /\ Contents(h, t, json, has, done, server, lines)
    /\ phase = "done" =>
         /\ t.dir = "both" \/ h = Sends(t.dir) => flag = Mine(h, t, has)
         /\ h = "c" /\ server => json
         /\ Contents(h, t, json, has, Dirs(t), server, lines)

ReportTypes ==
    /\ repTest \in Tests \cup {[dir |-> "none"]}
    /\ repLook \in [Hosts -> {"text", "verbose", "json"}]
    /\ repHas \in [Hosts -> BOOLEAN]
    /\ repPhase \in [Hosts -> {"idle", "printing", "done"}]
    /\ \E P : repPasses \in [Hosts -> P]
    /\ {repFlag, repTmp, repOther} \subseteq [Hosts -> BOOLEAN]
    /\ repServer \in BOOLEAN
    /\ \E S : repLines \in [Hosts -> S]

ReportOf(h) ==
    HostReport(h, repTest, repLook[h] = "json", repHas, repPhase[h], repPasses[h],
               repFlag[h], repTmp[h], repOther[h], repServer, repLines[h])

ReportInv ==
    /\ ReportTypes
    /\ repTest.dir = "none" => repPhase = [h \in Hosts |-> "idle"] /\ ~repServer
    /\ repTest.dir # "none" => \A h \in Hosts : ReportOf(h)

(* Which test there is, and what counting means in it *)
LEMMA TestIs ==
    ASSUME NEW t \in Tests \cup {[dir |-> "none"]}
    PROVE  t \in Tests <=> t.dir # "none"
<1>1. [dir |-> "none"].dir = "none" OBVIOUS
<1>2. t \in Tests => t.dir # "none" BY DEF Tests
<1> QED BY <1>1, <1>2

LEMMA MineIs ==
    ASSUME NEW t \in Tests, NEW h \in Hosts, NEW has \in [Hosts -> BOOLEAN]
    PROVE  /\ Mine(h, t, has) \in BOOLEAN
           /\ \A d \in Dirs(t) : h = Sends(d) => Mine(h, t, has) = Counts(t, has, d)
           /\ t.dir # "both" /\ h # Sends(t.dir) => ~Mine(h, t, has)
<1>1. h \in {"c", "s"} /\ has[h] \in BOOLEAN /\ t.udp \in BOOLEAN BY DEF Hosts, Tests
<1>2. t.dir # "both" => t.dir \in {"up", "down"} BY DEF Tests
<1>3. Mode(h, t.dir) = IF t.dir = "both" THEN -1 ELSE IF h = Sends(t.dir) THEN 1 ELSE 0
    BY <1>1, <1>2 DEF Mode, Sends
<1>4. Mine(h, t, has) <=> ~t.udp /\ has[h] /\ Mode(h, t.dir) # 0
    BY DEF Mine, CountsRetransmits
<1>5. Mine(h, t, has) \in BOOLEAN BY DEF Mine, CountsRetransmits
<1>6. ASSUME NEW d \in Dirs(t), h = Sends(d) PROVE Mine(h, t, has) = Counts(t, has, d)
    <2>1. Mode(h, t.dir) # 0 BY <1>3, <1>6 DEF Dirs
    <2>2. Counts(t, has, d) <=> ~t.udp /\ has[h] BY <1>6 DEF Counts
    <2>3. Counts(t, has, d) \in BOOLEAN BY DEF Counts
    <2> QED BY <2>1, <2>2, <2>3, <1>4, <1>5
<1>7. t.dir # "both" /\ h # Sends(t.dir) => ~Mine(h, t, has) BY <1>3, <1>4
<1> QED BY <1>5, <1>6, <1>7

LEMMA ReportBegins == ASSUME ReportInit PROVE ReportInv
<1>1. ReportTypes
    <2>1. repPasses \in [Hosts -> {<<>>}] /\ repLines \in [Hosts -> {<<>>}] BY DEF ReportInit
    <2> QED BY <2>1 DEF ReportInit, ReportTypes
<1>2. repTest.dir = "none" BY DEF ReportInit
<1> QED BY <1>1, <1>2 DEF ReportInit, ReportInv

LEMMA EndTestInv == ASSUME ReportInv, EndTest PROVE ReportInv'
<1>1. ReportTypes /\ repTest.dir = "none" /\ repPhase = [h \in Hosts |-> "idle"] /\ ~repServer
    BY DEF ReportInv, EndTest
<1>2. repTest' \in Tests
    BY DEF EndTest, Tests
<1>3. /\ repLook' \in [Hosts -> {"text", "verbose", "json"}] /\ repHas' \in [Hosts -> BOOLEAN]
      /\ repFlag' = [h \in Hosts |-> CountsRetransmits(h, repTest', repHas')]
      /\ repPhase' = repPhase /\ repPasses' = repPasses /\ repTmp' = repTmp
      /\ repOther' = repOther /\ repServer' = repServer /\ repLines' = repLines
    BY DEF EndTest
<1>4. \A h \in Hosts : repFlag'[h] = Mine(h, repTest', repHas') /\ repPhase'[h] = "idle"
    BY <1>1, <1>3 DEF Mine
<1>5. repFlag' \in [Hosts -> BOOLEAN]
    <2>1. \A h \in Hosts : CountsRetransmits(h, repTest', repHas') \in BOOLEAN
        BY DEF CountsRetransmits
    <2> QED BY <2>1, <1>3
<1>6. ReportTypes' BY <1>1, <1>2, <1>3, <1>5 DEF ReportTypes
<1>7. repTest'.dir # "none" BY <1>2 DEF Tests
<1>8. ASSUME NEW h \in Hosts PROVE ReportOf(h)'
    BY <1>1, <1>3, <1>4 DEF ReportOf, HostReport
<1> QED BY <1>6, <1>7, <1>8 DEF ReportInv

LEMMA DirsOfTest ==
    ASSUME NEW t \in Tests
    PROVE  Dirs(t) \subseteq {"up", "down"} /\ Dirs(t) # {}
BY DEF Tests, Dirs

(* Only the client's report depends on what it holds of the server *)
LEMMA ServerHoldsNothing ==
    ASSUME NEW t, NEW json, NEW has, NEW phase, NEW passes, NEW flag, NEW tmp, NEW other,
           NEW lines, NEW one, NEW two,
           HostReport("s", t, json, has, phase, passes, flag, tmp, other, one, lines)
    PROVE  HostReport("s", t, json, has, phase, passes, flag, tmp, other, two, lines)
<1>1. "s" # "c" OBVIOUS
<1>2. ASSUME NEW done, Contents("s", t, json, has, done, one, lines)
      PROVE  Contents("s", t, json, has, done, two, lines)
    BY <1>1, <1>2 DEF Contents, ServersPart
<1> QED BY <1>1, <1>2, Zenon DEF HostReport

LEMMA BeginReportInv ==
    ASSUME ReportAssumption, ReportInv, NEW h \in Hosts, BeginReport(h)
    PROVE  ReportInv'
<1> DEFINE t == repTest
           json == repLook[h] = "json"
           received == Mode(h, repTest.dir) = 0
           flag == IF h = "c" /\ received THEN repFlag["s"] ELSE repFlag[h]
           other == h = "c" /\ repTest.dir = "both" /\ repFlag["s"]
           server == repServer \/ (h = "c" /\ repTest.asks)
<1>1. /\ t.dir # "none" /\ repPhase[h] = "idle" /\ (h = "c" => repPhase["s"] = "done")
      /\ repFlag' = [repFlag EXCEPT ![h] = flag]
      /\ repTmp' = [repTmp EXCEPT ![h] = flag]
      /\ repOther' = [repOther EXCEPT ![h] = other]
      /\ repServer' = server
      /\ \E worthPrinting \in BOOLEAN : repLines' = [repLines EXCEPT ![h] =
                                IF worthPrinting THEN IntervalLines(h) ELSE <<>>]
      /\ repPhase' = [repPhase EXCEPT ![h] = "printing"]
      /\ repPasses' = [repPasses EXCEPT ![h] = PassesOf(h)]
      /\ UNCHANGED <<repTest, repLook, repHas>>
    BY DEF BeginReport
<1>2. ReportTypes /\ t \in Tests /\ \A k \in Hosts : ReportOf(k)
    <2>1. ReportTypes BY DEF ReportInv
    <2>2. t \in Tests BY <1>1, <2>1, TestIs DEF ReportTypes
    <2> QED BY <1>1, <2>1, <2>2 DEF ReportInv
<1>3. /\ h \in {"c", "s"} /\ "c" \in Hosts /\ "s" \in Hosts
      /\ repFlag[h] \in BOOLEAN /\ repFlag["s"] \in BOOLEAN
      /\ repHas \in [Hosts -> BOOLEAN] /\ t.asks \in BOOLEAN /\ repServer \in BOOLEAN
    BY <1>2 DEF ReportTypes, Hosts, Tests
<1>4. repFlag[h] = Mine(h, t, repHas) /\ (h = "c" => ~repServer)
    BY <1>1, <1>2 DEF ReportOf, HostReport
<1>5. h = "c" => (t.dir = "both" \/ "s" = Sends(t.dir) => repFlag["s"] = Mine("s", t, repHas))
    BY <1>1, <1>2, <1>3 DEF ReportOf, HostReport
<1>6. PICK lines : /\ repLines' = [repLines EXCEPT ![h] = lines]
                   /\ lines = IntervalLines(h) \/ lines = <<>>
    BY <1>1
<1>7. Contents(h, t, json, repHas, {}, server, lines)
    <2>1. PICK L : /\ Lists(lines, L)
                   /\ \A e \in L : \E d \in Dirs(t) : IntervalLine(t, d, e)
        <3>1. CASE lines = IntervalLines(h) BY <3>1, <1>2, IntervalReport
        <3>2. CASE lines = <<>> BY <3>2, ListsNone
        <3> QED BY <3>1, <3>2, <1>6
    <2>2. ServersOutput \notin L
        <3>1. ServersOutput.sheet = "server" BY DEF ServersOutput, Line
        <3> QED BY <3>1, <2>1 DEF IntervalLine
    <2>3. ServersPart(h, t, json, server, L) BY <2>2, <1>3, <1>4 DEF ServersPart
    <2>4. OfReport(h, t, json, repHas, {}, L) BY <2>1 DEF OfReport
    <2> QED BY <2>1, <2>3, <2>4 DEF Contents
<1>8. Flags(h, t, repHas, flag, flag, other)
    <2>1. CASE t.dir = "both"
        <3>1. ~received BY <2>1 DEF Mode
        <3> QED BY <3>1, <2>1, <1>3, <1>4, <1>5 DEF Flags
    <2>2. CASE t.dir # "both"
        <3>1. t.dir \in {"up", "down"} /\ Dirs(t) = {t.dir} BY <2>2, <1>2 DEF Tests, Dirs
        <3>2. received <=> h # Sends(t.dir) BY <3>1, <2>2, <1>3 DEF Mode, Sends
        <3>3. CASE h = Sends(t.dir)
            <4>1. flag = Mine(h, t, repHas) BY <3>2, <3>3, <1>4
            <4>2. flag = Counts(t, repHas, t.dir) BY <4>1, <3>1, <3>3, <1>2, <1>3, MineIs
            <4>3. flag \in BOOLEAN BY <1>3
            <4> HIDE DEF flag
            <4> QED BY <4>2, <4>3, <2>2 DEF Flags, FlagRight
        <3>4. CASE h = "c" /\ h # Sends(t.dir)
            <4>1. "s" = Sends(t.dir) BY <3>1, <3>4 DEF Sends
            <4>2. flag = Mine("s", t, repHas) BY <3>2, <3>4, <4>1, <1>5
            <4>3. flag = Counts(t, repHas, t.dir) BY <4>1, <4>2, <3>1, <1>2, <1>3, MineIs
            <4>4. flag \in BOOLEAN BY <1>3
            <4> HIDE DEF flag
            <4> QED BY <4>3, <4>4, <2>2 DEF Flags, FlagRight
        <3>5. CASE h # "c" /\ h # Sends(t.dir)
            <4>1. flag \in BOOLEAN BY <1>3
            <4> HIDE DEF flag
            <4> QED BY <4>1, <3>5, <2>2 DEF Flags, FlagRight
        <3> QED BY <3>3, <3>4, <3>5
    <2> QED BY <2>1, <2>2
<1>9. Left(h, t, {}, PassesOf(h)) BY <1>2, PassesAre DEF Left
<1> HIDE DEF json, flag, other, server
<1>10. HostReport(h, t, json, repHas, "printing", PassesOf(h), flag, flag, other, server, lines)
    BY <1>7, <1>8, <1>9 DEF HostReport
<1>11. /\ repPhase'[h] = "printing" /\ repPasses'[h] = PassesOf(h)
       /\ repFlag'[h] = flag /\ repTmp'[h] = flag /\ repOther'[h] = other
       /\ repLines'[h] = lines
       /\ \A k \in Hosts : k # h =>
            /\ repPhase'[k] = repPhase[k] /\ repPasses'[k] = repPasses[k]
            /\ repFlag'[k] = repFlag[k] /\ repTmp'[k] = repTmp[k]
            /\ repOther'[k] = repOther[k] /\ repLines'[k] = repLines[k]
    BY <1>1, <1>2, <1>6 DEF ReportTypes
<1>12. ReportOf(h)' BY <1>1, <1>10, <1>11 DEF ReportOf, json
<1>13. ASSUME NEW k \in Hosts, k # h PROVE ReportOf(k)'
    <2> DEFINE Is(held) == HostReport(k, t, repLook[k] = "json", repHas, repPhase[k], repPasses[k],
                                      repFlag[k], repTmp[k], repOther[k], held, repLines[k])
    <2>1. Is(repServer) BY <1>2 DEF ReportOf
    <2>2. Is(repServer')
        <3>1. CASE k = "s" BY <2>1, <3>1, ServerHoldsNothing
        <3>2. CASE k = "c"
            <4>1. h # "c" BY <1>13, <3>2
            <4>2. repServer' = repServer BY <4>1, <1>1, <1>3 DEF server
            <4> QED BY <2>1, <4>2
        <3> QED BY <3>1, <3>2 DEF Hosts
    <2>3. HostReport(k, repTest', repLook'[k] = "json", repHas', repPhase'[k], repPasses'[k],
                     repFlag'[k], repTmp'[k], repOther'[k], repServer', repLines'[k])
        BY <2>2, <1>1, <1>11, <1>13
    <2> QED BY <2>3 DEF ReportOf
<1>14. ReportTypes'
    <2>1. flag \in BOOLEAN /\ other \in BOOLEAN /\ server \in BOOLEAN
        BY <1>3 DEF flag, other, server
    <2>2. PICK P : repPasses \in [Hosts -> P] BY <1>2 DEF ReportTypes
    <2>3. repPasses' \in [Hosts -> P \cup {PassesOf(h)}] BY <1>1, <2>2
    <2>4. PICK S : repLines \in [Hosts -> S] BY <1>2 DEF ReportTypes
    <2>5. repLines' \in [Hosts -> S \cup {lines}] BY <1>6, <2>4
    <2>6. repFlag' \in [Hosts -> BOOLEAN] /\ repTmp' \in [Hosts -> BOOLEAN]
          /\ repOther' \in [Hosts -> BOOLEAN]
        BY <1>1, <1>2, <2>1 DEF ReportTypes
    <2>7. repPhase' \in [Hosts -> {"idle", "printing", "done"}] BY <1>1, <1>2 DEF ReportTypes
    <2>8. repServer' \in BOOLEAN BY <1>1, <2>1
    <2> QED BY <1>1, <1>2, <2>3, <2>5, <2>6, <2>7, <2>8 DEF ReportTypes
<1> QED BY <1>1, <1>12, <1>13, <1>14 DEF ReportInv

(* The pass that is next *)
LEMMA NextPass ==
    ASSUME repTest \in Tests, NEW h \in Hosts, NEW done, NEW passes,
           Left(h, repTest, done, passes)
    PROVE  LET pass == Head(passes)
               d == DirOf(h, pass)
           IN  /\ pass \in {-1, 0, 1} /\ d \in Dirs(repTest) \ done /\ done \subseteq Dirs(repTest)
               /\ Len(passes) = 1 => done \cup {d} = Dirs(repTest)
               /\ Len(passes) # 1 =>
                    /\ repTest.dir = "both"
                    /\ Left(h, repTest, done \cup {d}, Tail(passes))
<1>1. CASE repTest.dir # "both"
    <2> DEFINE p == Mode(h, repTest.dir)
    <2>1. p \in {-1, 0, 1} /\ DirOf(h, p) = repTest.dir BY <1>1, PassesAre
    <2>2. passes = <<p>> /\ done = {} BY <1>1 DEF Left
    <2> HIDE DEF p
    <2>3. Head(passes) = p /\ Len(passes) = 1 BY <2>2
    <2> QED BY <1>1, <2>1, <2>2, <2>3 DEF Dirs
<1>2. CASE repTest.dir = "both" /\ done = {} /\ passes = <<FirstPass(h), SecondPass(h)>>
    <2> DEFINE a == FirstPass(h)
               b == SecondPass(h)
    <2>1. a \in {-1, 0, 1} /\ DirOf(h, a) = "up" BY <1>2, PassesAre
    <2>2. passes = <<a, b>> BY <1>2
    <2> HIDE DEF a, b
    <2>3. Head(passes) = a /\ Len(passes) = 2 /\ Tail(passes) = <<b>> BY <2>2
    <2>4. Left(h, repTest, {"up"}, Tail(passes)) BY <1>2, <2>3 DEF Left, b
    <2> QED BY <1>2, <2>1, <2>3, <2>4 DEF Dirs
<1>3. CASE repTest.dir = "both" /\ done = {"up"} /\ passes = <<SecondPass(h)>>
    <2> DEFINE b == SecondPass(h)
    <2>1. b \in {-1, 0, 1} /\ DirOf(h, b) = "down" BY <1>3, PassesAre
    <2>2. passes = <<b>> BY <1>3
    <2> HIDE DEF b
    <2>3. Head(passes) = b /\ Len(passes) = 1 BY <2>2
    <2> QED BY <1>3, <2>1, <2>3 DEF Dirs
<1> QED BY <1>1, <1>2, <1>3 DEF Left

PassPrinted(h, t, json, has, d, report) ==
    \E R : /\ Lists(report, R)
           /\ \A e \in R : ResultLine(t, json, has, d, e)
           /\ Complete(h, t, json, d, R)

LEMMA OnePassMore ==
    ASSUME NEW t \in Tests, NEW h, NEW json, NEW has, NEW done, done \subseteq Dirs(t),
           NEW d \in Dirs(t) \ done, NEW server \in BOOLEAN, NEW lines,
           Contents(h, t, json, has, done, server, lines),
           NEW report, PassPrinted(h, t, json, has, d, report),
           NEW servers \in BOOLEAN, servers <=> h = "c" /\ server /\ ~json,
           NEW held, held = (server /\ ~servers),
           NEW new, new = lines \o report \o (IF servers THEN <<ServersOutput>> ELSE <<>>)
    PROVE  Contents(h, t, json, has, done \cup {d}, held, new)
<1>1. PICK L : /\ Lists(lines, L) /\ OfReport(h, t, json, has, done, L)
               /\ ServersPart(h, t, json, server, L)
    BY DEF Contents
<1>2. ServersOutput.sheet = "server" BY DEF ServersOutput, Line
<1> PICK R : /\ Lists(report, R) /\ \A e \in R : ResultLine(t, json, has, d, e)
             /\ Complete(h, t, json, d, R)
    BY DEF PassPrinted
<1>3. KeysApart(L, R)
    <2> SUFFICES ASSUME NEW a \in L, NEW b \in R PROVE ~SameKey(a, b) BY DEF KeysApart
    <2>1. b.sheet \in {"stream", "sum"} /\ Belongs(t, d, b) BY DEF ResultLine
    <2>2. CASE a = ServersOutput BY <2>1, <2>2, <1>2 DEF SameKey
    <2>3. ASSUME NEW e \in Dirs(t), IntervalLine(t, e, a) PROVE ~SameKey(a, b)
        BY <2>1, <2>3 DEF SameKey, IntervalLine
    <2>4. ASSUME NEW e \in done, ResultLine(t, json, has, e, a) PROVE ~SameKey(a, b)
        <3>1. a.sheet \in {"interval", "intervalSum", "stream", "sum"} /\ Belongs(t, e, a)
            BY <2>4 DEF ResultLine
        <3>2. e \in Dirs(t) /\ d \in Dirs(t) /\ e # d OBVIOUS
        <3> QED BY <2>1, <3>1, <3>2, PartsApart
    <2> QED BY <1>1, <2>2, <2>3, <2>4 DEF OfReport
<1> DEFINE M == L \cup R
<1>4. Lists(lines \o report, M) BY <1>1, <1>3, ListsBoth
<1>5. \A e \in M : \/ h = "c" /\ e = ServersOutput /\ e \in L
                   \/ \E k \in Dirs(t) : IntervalLine(t, k, e)
                   \/ \E k \in done \cup {d} : ResultLine(t, json, has, k, e)
    BY <1>1 DEF OfReport
<1>6. ServersOutput \in M => ServersOutput \in L
    BY <1>2, <1>5 DEF IntervalLine, ResultLine
<1>7. \A k \in done \cup {d} : Complete(h, t, json, k, M)
    BY <1>1 DEF OfReport, Complete, OfStream, OfSum
<1>8. L \subseteq M OBVIOUS
<1> HIDE DEF M
<1>9. CASE ~servers
    <2>1. Lists((lines \o report) \o <<>>, M)
        <3>1. KeysApart(M, {}) /\ M \cup {} = M BY DEF KeysApart
        <3>2. Lists((lines \o report) \o <<>>, M \cup {}) BY <3>1, <1>4, ListsNone, ListsBoth
        <3> QED BY <3>1, <3>2
    <2>2. OfReport(h, t, json, has, done \cup {d}, M) BY <1>5, <1>7 DEF OfReport
    <2>3. ServersPart(h, t, json, held, M)
        BY <1>1, <1>6, <1>8, <1>9 DEF ServersPart
    <2> QED BY <1>9, <2>1, <2>2, <2>3 DEF Contents
<1>10. CASE servers
    <2>1. h = "c" /\ server /\ ~json /\ t.asks /\ ServersOutput \notin M
        BY <1>1, <1>6, <1>10 DEF ServersPart
    <2> DEFINE N == M \cup {ServersOutput}
    <2>2. KeysApart(M, {ServersOutput})
        <3>1. \A e \in M : e.sheet # "server" BY <1>5, <1>8, <2>1 DEF IntervalLine, ResultLine
        <3> QED BY <3>1, <1>2 DEF KeysApart, SameKey
    <2>3. Lists((lines \o report) \o <<ServersOutput>>, N) BY <2>2, <1>4, ListsOne, ListsBoth
    <2>4. \A k \in done \cup {d} : Complete(h, t, json, k, N)
        BY <1>7 DEF Complete, OfStream, OfSum
    <2>5. OfReport(h, t, json, has, done \cup {d}, N) BY <1>5, <2>1, <2>4 DEF OfReport
    <2>6. ServersPart(h, t, json, held, N) BY <1>10, <2>1 DEF ServersPart
    <2> HIDE DEF N
    <2> QED BY <1>10, <2>3, <2>5, <2>6 DEF Contents
<1> QED BY <1>9, <1>10

LEMMA PrintPassInv ==
    ASSUME ReportAssumption, ReportInv, NEW h \in Hosts, PrintPass(h)
    PROVE  ReportInv'
<1>0. PICK json \in BOOLEAN : json = (repLook[h] = "json") OBVIOUS
<1> DEFINE t == repTest
           pass == Head(repPasses[h])
           flag == IF repTest.dir # "both" THEN repFlag[h]
                   ELSE IF MustBeSender(pass) THEN repTmp[h] ELSE repOther[h]
           list == InOrder(h, pass)
           ofStreams == [n \in DOMAIN list |-> StreamLines(h, flag, list[n])]
           report == FlattenSeq(ofStreams) \o SumLines(h, flag, pass)
           servers == h = "c" /\ repServer /\ ~Json(h)
           last == Len(repPasses[h]) = 1
           lines == repLines[h] \o report \o (IF servers THEN <<ServersOutput>> ELSE <<>>)
           left == IF last THEN IF repTest.dir = "both" THEN repTmp[h] ELSE flag ELSE flag
           phase == IF last THEN "done" ELSE "printing"
           d == DirOf(h, pass)
<1>1. /\ repPhase[h] = "printing"
      /\ repServer' = (repServer /\ ~servers)
      /\ repPasses' = [repPasses EXCEPT ![h] = Tail(@)]
      /\ repFlag' = [repFlag EXCEPT ![h] = left]
      /\ UNCHANGED <<repTest, repLook, repHas, repTmp, repOther>>
    BY DEF PrintPass
<1>2. repLines' = [repLines EXCEPT ![h] = lines] BY DEF PrintPass, ServersOutput
<1>3. ReportTypes BY DEF ReportInv
<1>4. repPhase' = [repPhase EXCEPT ![h] = phase]
    <2>1. last => repPhase' = [repPhase EXCEPT ![h] = "done"] BY DEF PrintPass
    <2>2. ~last => repPhase' = repPhase BY DEF PrintPass
    <2>3. repPhase = [repPhase EXCEPT ![h] = "printing"] BY <1>1, <1>3 DEF ReportTypes
    <2> QED BY <2>1, <2>2, <2>3
<1>5. t.dir # "none" /\ t \in Tests /\ \A k \in Hosts : ReportOf(k)
    <2>1. t.dir # "none"
        <3>1. repPhase # [k \in Hosts |-> "idle"] BY <1>1
        <3> QED BY <3>1 DEF ReportInv
    <2>2. t \in Tests BY <1>3, <2>1, TestIs DEF ReportTypes
    <2> QED BY <2>1, <2>2 DEF ReportInv
<1>6. PICK done : /\ Left(h, t, done, repPasses[h])
                  /\ Contents(h, t, json, repHas, done, repServer, repLines[h])
    BY <1>0, <1>1, <1>5 DEF ReportOf, HostReport
<1>7. Flags(h, t, repHas, repFlag[h], repTmp[h], repOther[h])
    BY <1>1, <1>5 DEF ReportOf, HostReport
<1>8. /\ pass \in {-1, 0, 1} /\ d \in Dirs(t) \ done /\ done \subseteq Dirs(t)
      /\ last => done \cup {d} = Dirs(t)
      /\ ~last => t.dir = "both" /\ Left(h, t, done \cup {d}, Tail(repPasses[h]))
    BY <1>5, <1>6, NextPass
<1>9. MustBeSender(pass) <=> h = Sends(d) BY <1>5, <1>8, PassIs
<1>10. /\ repFlag[h] \in BOOLEAN /\ repTmp[h] \in BOOLEAN /\ repOther[h] \in BOOLEAN
       /\ repServer \in BOOLEAN /\ repHas \in [Hosts -> BOOLEAN] /\ "s" \in Hosts
       /\ h \in {"c", "s"}
    BY <1>3 DEF ReportTypes, Hosts
<1>11. FlagRight(h, t, repHas, d, flag)
    <2>1. CASE t.dir # "both"
        <3>1. d = t.dir /\ flag = repFlag[h] BY <1>8, <2>1 DEF Dirs
        <3> HIDE DEF d, flag
        <3> QED BY <3>1, <2>1, <1>7 DEF Flags
    <2>2. CASE t.dir = "both" /\ h = Sends(d)
        <3>1. flag = Mine(h, t, repHas) BY <2>2, <1>7, <1>9 DEF Flags
        <3> HIDE DEF flag, d
        <3>2. flag = Counts(t, repHas, d) BY <3>1, <2>2, <1>5, <1>8, <1>10, MineIs
        <3>3. flag \in BOOLEAN BY <3>1, <1>5, <1>10, MineIs
        <3> QED BY <3>2, <3>3 DEF FlagRight
    <2>3. CASE t.dir = "both" /\ h # Sends(d)
        <3>1. flag = repOther[h] BY <2>3, <1>9
        <3>2. h = "c" => flag = Mine("s", t, repHas) BY <2>3, <3>1, <1>7 DEF Flags
        <3>3. h = "c" => "s" = Sends(d)
            <4>1. d \in {"up", "down"} BY <2>3, <1>8 DEF Dirs
            <4> HIDE DEF d
            <4> QED BY <4>1, <2>3 DEF Sends
        <3> HIDE DEF flag, d
        <3>4. h = "c" => flag = Counts(t, repHas, d)
            BY <3>2, <3>3, <1>5, <1>8, <1>10, MineIs
        <3> QED BY <3>1, <3>4, <2>3, <1>10 DEF FlagRight
    <2> QED BY <2>1, <2>2, <2>3
<1>12. PassPrinted(h, t, json, repHas, d, report)
    <2>1. PassPrinted(h, repTest, Json(h), repHas, d, report)
        <3> DEFINE e == d
        <3>1. e = DirOf(h, pass) /\ e \in Dirs(repTest) BY <1>8
        <3>2. FlagRight(h, repTest, repHas, e, flag) BY <1>11
        <3> HIDE DEF e, flag, pass
        <3>3. LET lst == InOrder(h, pass)
                  of == [n \in DOMAIN lst |-> StreamLines(h, flag, lst[n])]
              IN  \E L : /\ Lists(FlattenSeq(of) \o SumLines(h, flag, pass), L)
                         /\ \A u \in L : ResultLine(repTest, Json(h), repHas, e, u)
                         /\ Complete(h, repTest, Json(h), e, L)
            BY <3>1, <3>2, <1>5, <1>8, PassReport
        <3> QED BY <3>3 DEF e, PassPrinted
    <2>2. Json(h) = json BY <1>0 DEF Json
    <2> HIDE DEF report, d
    <2> QED BY <2>1, <2>2
<1>13. servers \in BOOLEAN /\ (servers <=> h = "c" /\ repServer /\ ~json) BY <1>0 DEF Json
<1>14. left \in BOOLEAN BY <1>10
<1>15. last /\ (t.dir = "both" \/ h = Sends(t.dir)) => left = Mine(h, t, repHas)
    <2>1. CASE t.dir = "both" BY <2>1, <1>7 DEF Flags
    <2>2. CASE t.dir # "both" /\ h = Sends(t.dir)
        <3>1. left = repFlag[h] /\ t.dir \in Dirs(t) BY <2>2 DEF Dirs
        <3> HIDE DEF left
        <3>2. repFlag[h] = Counts(t, repHas, t.dir) BY <2>2, <1>7 DEF Flags, FlagRight
        <3> QED BY <3>1, <3>2, <2>2, <1>5, <1>10, MineIs
    <2> QED BY <2>1, <2>2
<1>16. ~last => Flags(h, t, repHas, left, repTmp[h], repOther[h])
    BY <1>7, <1>8 DEF Flags
<1> HIDE DEF pass, flag, report, servers, last, left, d
<1>17. Contents(h, t, json, repHas, done \cup {d}, repServer', lines)
    <2>1. PICK b \in BOOLEAN : b = servers BY <1>13
    <2>2. b <=> h = "c" /\ repServer /\ ~json BY <2>1, <1>13
    <2>3. repServer' = (repServer /\ ~b) BY <2>1, <1>1
    <2>4. lines = repLines[h] \o report \o (IF b THEN <<ServersOutput>> ELSE <<>>) BY <2>1
    <2>5. t \in Tests BY <1>5
    <2>6. done \subseteq Dirs(t) BY <1>8
    <2>7. d \in Dirs(t) \ done BY <1>8
    <2>8. repServer \in BOOLEAN BY <1>10
    <2>9. Contents(h, t, json, repHas, done, repServer, repLines[h]) BY <1>6
    <2> HIDE DEF lines, t
    <2> QED BY <2>2, <2>3, <2>4, <2>5, <2>6, <2>7, <2>8, <2>9, <1>12, OnePassMore, Zenon
<1> HIDE DEF lines
<1>18. HostReport(h, t, json, repHas, phase, Tail(repPasses[h]), left, repTmp[h],
                  repOther[h], repServer', lines)
    <2>1. CASE last
        <3>1. Contents(h, t, json, repHas, Dirs(t), repServer', lines) BY <2>1, <1>8, <1>17
        <3>2. h = "c" /\ repServer' => json BY <1>1, <1>10, <1>13
        <3>3. phase = "done" BY <2>1
        <3> HIDE DEF phase
        <3> QED BY <2>1, <3>1, <3>2, <3>3, <1>15 DEF HostReport
    <2>2. CASE ~last
        <3>1. phase = "printing" BY <2>2
        <3> HIDE DEF phase
        <3> QED BY <2>2, <3>1, <1>8, <1>16, <1>17 DEF HostReport
    <2> QED BY <2>1, <2>2
<1>19. phase \in {"idle", "printing", "done"} OBVIOUS
<1> HIDE DEF phase
<1>20. /\ repPhase'[h] = phase /\ repPasses'[h] = Tail(repPasses[h])
       /\ repFlag'[h] = left /\ repTmp'[h] = repTmp[h] /\ repOther'[h] = repOther[h]
       /\ repLines'[h] = lines
       /\ \A k \in Hosts : k # h =>
            /\ repPhase'[k] = repPhase[k] /\ repPasses'[k] = repPasses[k]
            /\ repFlag'[k] = repFlag[k] /\ repTmp'[k] = repTmp[k]
            /\ repOther'[k] = repOther[k] /\ repLines'[k] = repLines[k]
    BY <1>1, <1>2, <1>3, <1>4 DEF ReportTypes
<1>21. ReportOf(h)'
    <2>1. HostReport(h, repTest', repLook'[h] = "json", repHas', repPhase'[h], repPasses'[h],
                     repFlag'[h], repTmp'[h], repOther'[h], repServer', repLines'[h])
        BY <1>0, <1>1, <1>18, <1>20
    <2> QED BY <2>1 DEF ReportOf
<1>22. ASSUME NEW k \in Hosts, k # h PROVE ReportOf(k)'
    <2> DEFINE Is(held) == HostReport(k, t, repLook[k] = "json", repHas, repPhase[k], repPasses[k],
                                      repFlag[k], repTmp[k], repOther[k], held, repLines[k])
    <2>1. Is(repServer) BY <1>5 DEF ReportOf
    <2>2. Is(repServer')
        <3>1. CASE k = "s" BY <2>1, <3>1, ServerHoldsNothing
        <3>2. CASE k = "c"
            <4>1. h # "c" BY <1>22, <3>2
            <4>2. repServer' = repServer BY <4>1, <1>1, <1>10, <1>13
            <4> QED BY <2>1, <4>2
        <3> QED BY <3>1, <3>2 DEF Hosts
    <2>3. HostReport(k, repTest', repLook'[k] = "json", repHas', repPhase'[k], repPasses'[k],
                     repFlag'[k], repTmp'[k], repOther'[k], repServer', repLines'[k])
        BY <2>2, <1>1, <1>20, <1>22
    <2> QED BY <2>3 DEF ReportOf
<1>23. ReportTypes'
    <2>1. PICK P : repPasses \in [Hosts -> P] BY <1>3 DEF ReportTypes
    <2>2. repPasses' \in [Hosts -> P \cup {Tail(repPasses[h])}] BY <1>1, <2>1
    <2>3. PICK S : repLines \in [Hosts -> S] BY <1>3 DEF ReportTypes
    <2>4. repLines' \in [Hosts -> S \cup {lines}] BY <1>2, <2>3
    <2>5. repFlag' \in [Hosts -> BOOLEAN] BY <1>1, <1>3, <1>14 DEF ReportTypes
    <2>6. repPhase' \in [Hosts -> {"idle", "printing", "done"}]
        BY <1>3, <1>4, <1>19 DEF ReportTypes
    <2>7. repServer' \in BOOLEAN BY <1>1, <1>10
    <2>8. repTmp' \in [Hosts -> BOOLEAN] /\ repOther' \in [Hosts -> BOOLEAN]
        BY <1>1, <1>3 DEF ReportTypes
    <2> QED BY <1>1, <1>3, <2>2, <2>4, <2>5, <2>6, <2>7, <2>8 DEF ReportTypes
<1> QED BY <1>1, <1>5, <1>21, <1>22, <1>23 DEF ReportInv

(* Every line of a list has a place in it, and the other way round *)
LEMMA PlacesOf ==
    ASSUME NEW s, NEW L, Lists(s, L)
    PROVE  /\ Len(s) \in Nat
           /\ \A i \in 1..Len(s) : s[i] \in L
           /\ \A e \in L : \E i \in 1..Len(s) : s[i] = e
BY LenProperties, ElementOfSeq DEF Lists, In

DoneReport(h, L) ==
    /\ Lists(repLines[h], L)
    /\ OfReport(h, repTest, Json(h), repHas, Dirs(repTest), L)
    /\ ServersPart(h, repTest, Json(h), repServer, L)

LEMMA StreamsAre ==
    ASSUME repTest \in Tests, NEW x \in Streams
    PROVE  \E d \in Dirs(repTest) : x \in Part(repTest, d)
<1>1. {"up", "down"} \cap (IF repTest.dir = "both" THEN {"up", "down"} ELSE {repTest.dir})
        = Dirs(repTest)
    BY DEF Tests, Dirs
<1> QED BY <1>1 DEF Streams, Part

LEMMA OnceOnHost ==
    ASSUME repTest \in Tests, NEW h \in Hosts, NEW L, DoneReport(h, L)
    PROVE  /\ \A i, j \in 1..Len(repLines[h]) :
                SameKey(repLines[h][i], repLines[h][j]) => i = j
           /\ \A x \in Streams, side \in {"sender", "receiver"} :
                (h = "c" \/ IsSender(h, x) = (side = "sender")) =>
                   \E i \in LinesOfSheet(h, "stream") :
                      LET line == repLines[h][i]
                      IN  /\ line.about = x /\ line.side \in {side, "both"}
                          /\ line.origin # "notAvailable"
<1>1. \A i, j \in 1..Len(repLines[h]) : SameKey(repLines[h][i], repLines[h][j]) => i = j
    BY DEF DoneReport, Lists
<1>2. ASSUME NEW x \in Streams, NEW side \in {"sender", "receiver"},
             h = "c" \/ IsSender(h, x) = (side = "sender")
      PROVE  \E i \in LinesOfSheet(h, "stream") :
                LET line == repLines[h][i]
                IN  /\ line.about = x /\ line.side \in {side, "both"}
                    /\ line.origin # "notAvailable"
    <2>1. PICK d \in Dirs(repTest) : x \in Part(repTest, d) BY StreamsAre
    <2>2. x.dir = d /\ d \in {"up", "down"} /\ h \in {"c", "s"}
        BY <2>1, DirsOfTest DEF Part, Hosts
    <2>3. IsSender(h, x) <=> h = Sends(d) BY <2>2 DEF IsSender, Sends
    <2>4. Known(h, d, side)
        <3>1. IsSender(h, x) \in BOOLEAN BY DEF IsSender
        <3> QED BY <1>2, <2>3, <3>1 DEF Known, OwnSide
    <2>5. OfStream(h, d, x, L) BY <2>1 DEF DoneReport, OfReport, Complete
    <2>6. PICK e \in L : /\ e.sheet = "stream" /\ e.about = x
                         /\ e.side \in {side, "both"} /\ e.origin # "notAvailable"
        BY <2>4, <2>5 DEF OfStream
    <2>7. PICK i \in 1..Len(repLines[h]) : repLines[h][i] = e BY PlacesOf DEF DoneReport
    <2> QED BY <2>6, <2>7 DEF LinesOfSheet
<1> QED BY <1>1, <1>2

LEMMA SumsOnHost ==
    ASSUME repTest \in Tests, NEW h \in Hosts, NEW L, DoneReport(h, L), HasSum(h)
    PROVE  Streams \subseteq UNION {repLines[h][i].of : i \in LinesOfSheet(h, "sum")}
<1> SUFFICES ASSUME NEW x \in Streams
             PROVE  \E i \in LinesOfSheet(h, "sum") : x \in repLines[h][i].of
    OBVIOUS
<1>1. PICK d \in Dirs(repTest) : x \in Part(repTest, d) BY StreamsAre
<1>2. OfSum(repTest, Json(h), d, L) BY DEF DoneReport, OfReport, Complete
<1>3. PICK e \in L : e.sheet = "sum" /\ e.of = Part(repTest, d) BY <1>2 DEF OfSum, HasSum
<1>4. PICK i \in 1..Len(repLines[h]) : repLines[h][i] = e BY PlacesOf DEF DoneReport
<1> QED BY <1>1, <1>3, <1>4 DEF LinesOfSheet

(* A sum's name tells its direction *)
LEMMA SumsOfName ==
    ASSUME repTest \in Tests, NEW L, NEW M, DoneReport("c", L), DoneReport("s", M),
           NEW e \in L, NEW f \in M, e.sheet \in {"sum", "intervalSum"},
           e.sheet = f.sheet, e.about = f.about
    PROVE  e.of = f.of
<1>1. ServersOutput.sheet = "server" BY DEF ServersOutput, Line
<1>2. PICK d \in Dirs(repTest) : Belongs(repTest, d, e)
    BY <1>1 DEF DoneReport, OfReport, IntervalLine, ResultLine
<1>3. PICK k \in Dirs(repTest) : Belongs(repTest, k, f)
    BY <1>1 DEF DoneReport, OfReport, IntervalLine, ResultLine
<1>4. d = k
    <2> SUFFICES ASSUME d # k PROVE FALSE OBVIOUS
    <2>1. repTest.dir = "both" /\ d \in {"up", "down"} /\ k \in {"up", "down"} BY DEF Dirs
    <2>2. Name(repTest, d) # Name(repTest, k) BY <2>1 DEF Name
    <2> QED BY <2>2, <1>2, <1>3 DEF Belongs
<1> QED BY <1>2, <1>3, <1>4 DEF Belongs

LEMMA RetransmitsOnHost ==
    ASSUME ReportAssumption, repTest \in Tests, repHas \in [Hosts -> BOOLEAN],
           NEW h \in Hosts, NEW L, DoneReport(h, L),
           NEW e \in L, e.sheet \in {"stream", "sum"}, e.side = "sender",
           e.origin \in {"own", "peer"}
    PROVE  e.retransmits =
             (~repTest.udp /\ repHas[IF \E x \in e.of : x.dir = "up" THEN "c" ELSE "s"])
<1>1. ServersOutput.sheet = "server" BY DEF ServersOutput, Line
<1>2. PICK d \in Dirs(repTest) : ResultLine(repTest, Json(h), repHas, d, e)
    BY <1>1 DEF DoneReport, OfReport, IntervalLine
<1>3. e.retransmits = Counts(repTest, repHas, d) BY <1>2 DEF ResultLine
<1>4. (\E x \in e.of : x.dir = "up") <=> d = "up"
    <2>1. \A x \in Part(repTest, d) : x.dir = d BY DEF Part
    <2>2. e.of \subseteq Part(repTest, d) /\ e.of # {}
        <3>1. 1 \in 1..repTest.streams BY DEF Tests, ReportAssumption
        <3>2. [dir |-> d, id |-> 1] \in Part(repTest, d) BY <3>1 DEF Part
        <3> QED BY <1>2, <3>2 DEF ResultLine, Belongs
    <2> QED BY <2>1, <2>2
<1> QED BY <1>3, <1>4 DEF Counts, Sends

LEMMA OriginsOnHost ==
    ASSUME NEW h \in Hosts, NEW L, DoneReport(h, L), NEW e \in L
    PROVE  Json(h) \/ e.origin # "none"
<1>1. ServersOutput.origin = "peer" BY DEF ServersOutput, Line
<1> QED BY <1>1 DEF DoneReport, OfReport, IntervalLine, ResultLine

(* The lines of the server's output on the client: one or none *)
LEMMA ServersOutputOnce ==
    ASSUME repTest \in Tests, NEW L, DoneReport("c", L), repServer => Json("c")
    PROVE  Cardinality(LinesOfSheet("c", "server")) =
             IF repTest.asks /\ ~Json("c") THEN 1 ELSE 0
<1> DEFINE s == repLines["c"]
           S == LinesOfSheet("c", "server")
<1>1. ServersOutput.sheet = "server" BY DEF ServersOutput, Line
<1>2. \A e \in L : e.sheet = "server" <=> e = ServersOutput
    BY <1>1 DEF DoneReport, OfReport, IntervalLine, ResultLine
<1>3. ServersOutput \in L <=> repTest.asks /\ ~Json("c")
    BY DEF DoneReport, ServersPart
<1>4. Lists(s, L) BY DEF DoneReport
<1>5. /\ \A i \in 1..Len(s) : s[i] \in L
      /\ \A e \in L : \E i \in 1..Len(s) : s[i] = e
    BY <1>4, PlacesOf
<1>6. S = {i \in 1..Len(s) : s[i] = ServersOutput} BY <1>2, <1>5 DEF LinesOfSheet
<1> HIDE DEF s, S
<1>7. CASE ServersOutput \in L
    <2>1. PICK i \in 1..Len(s) : s[i] = ServersOutput BY <1>5, <1>7
    <2>2. \A j \in S : j = i BY <2>1, <1>4, <1>6 DEF Lists, SameKey
    <2>3. S = {i} BY <2>1, <2>2, <1>6
    <2> QED BY <2>3, <1>3, <1>7, FS_Singleton DEF S
<1>8. CASE ServersOutput \notin L
    <2>1. S = {} BY <1>5, <1>6, <1>8
    <2> QED BY <2>1, <1>3, <1>8, FS_EmptySet DEF S
<1> QED BY <1>7, <1>8

LEMMA ReportsDoAgree == ASSUME ReportAssumption, ReportInv PROVE ReportsAgree
<1> SUFFICES ASSUME ReportDone
             PROVE  /\ EachStreamOnce /\ SumsOfBothHostsMatch /\ RetransmitsOfTheSender
                    /\ \A h \in Hosts : \A i \in 1..Len(repLines[h]) :
                          Json(h) \/ repLines[h][i].origin # "none"
                    /\ Cardinality(LinesOfSheet("c", "server")) =
                          IF repTest.asks /\ ~Json("c") THEN 1 ELSE 0
                    /\ repTest.dir = "both" =>
                          \A h \in Hosts : repFlag[h] = CountsRetransmits(h, repTest, repHas)
    BY DEF ReportsAgree
<1>1. "c" \in Hosts /\ "s" \in Hosts /\ \A h \in Hosts : repPhase[h] = "done"
    BY DEF ReportDone, Hosts
<1>2. repTest.dir # "none" /\ ReportTypes
    <2>1. repPhase # [h \in Hosts |-> "idle"] BY <1>1
    <2> QED BY <2>1 DEF ReportInv
<1>3. repTest \in Tests /\ repHas \in [Hosts -> BOOLEAN] BY <1>2, TestIs DEF ReportTypes
<1>4. \A h \in Hosts :
        /\ repTest.dir = "both" => repFlag[h] = Mine(h, repTest, repHas)
        /\ h = "c" /\ repServer => Json(h)
        /\ \E L : DoneReport(h, L)
    <2> SUFFICES ASSUME NEW h \in Hosts
                 PROVE  /\ repTest.dir = "both" => repFlag[h] = Mine(h, repTest, repHas)
                        /\ h = "c" /\ repServer => repLook[h] = "json"
                        /\ \E L : DoneReport(h, L)
        BY DEF Json
    <2>1. ReportOf(h) /\ repPhase[h] = "done" BY <1>1, <1>2 DEF ReportInv
    <2>2. /\ repTest.dir = "both" => repFlag[h] = Mine(h, repTest, repHas)
          /\ h = "c" /\ repServer => repLook[h] = "json"
          /\ Contents(h, repTest, repLook[h] = "json", repHas, Dirs(repTest), repServer,
                      repLines[h])
        BY <2>1 DEF ReportOf, HostReport
    <2>3. \E L : DoneReport(h, L) BY <2>2 DEF Contents, DoneReport, Json
    <2> QED BY <2>2, <2>3
<1>5. EachStreamOnce
    BY <1>3, <1>4, OnceOnHost DEF EachStreamOnce, SameKey
<1>6. SumsOfBothHostsMatch
    <2>1. \A h \in Hosts : HasSum(h) =>
            Streams \subseteq UNION {repLines[h][i].of : i \in LinesOfSheet(h, "sum")}
        BY <1>3, <1>4, SumsOnHost
    <2>2. PICK L : DoneReport("c", L) BY <1>1, <1>4
    <2>3. PICK M : DoneReport("s", M) BY <1>1, <1>4
    <2>4. /\ \A i \in 1..Len(repLines["c"]) : repLines["c"][i] \in L
          /\ \A j \in 1..Len(repLines["s"]) : repLines["s"][j] \in M
        BY <2>2, <2>3, PlacesOf DEF DoneReport
    <2>5. \A e \in L, f \in M :
            (e.sheet \in {"sum", "intervalSum"} /\ e.sheet = f.sheet /\ e.about = f.about)
               => e.of = f.of
        BY <2>2, <2>3, <1>3, SumsOfName
    <2> QED BY <2>1, <2>4, <2>5 DEF SumsOfBothHostsMatch
<1>7. RetransmitsOfTheSender
    <2> SUFFICES ASSUME NEW h \in Hosts, NEW i \in 1..Len(repLines[h]),
                        repLines[h][i].sheet \in {"stream", "sum"},
                        repLines[h][i].side = "sender",
                        repLines[h][i].origin \in {"own", "peer"}
                 PROVE  repLines[h][i].retransmits =
                          (~repTest.udp /\ repHas[IF \E x \in repLines[h][i].of : x.dir = "up"
                                                  THEN "c" ELSE "s"])
        BY DEF RetransmitsOfTheSender
    <2>1. PICK L : DoneReport(h, L) BY <1>4
    <2>2. repLines[h][i] \in L BY <2>1, PlacesOf DEF DoneReport
    <2> QED BY <2>1, <2>2, <1>3, RetransmitsOnHost
<1>8. \A h \in Hosts : \A i \in 1..Len(repLines[h]) :
        Json(h) \/ repLines[h][i].origin # "none"
    <2> SUFFICES ASSUME NEW h \in Hosts, NEW i \in 1..Len(repLines[h])
                 PROVE  Json(h) \/ repLines[h][i].origin # "none"
        OBVIOUS
    <2>1. PICK L : DoneReport(h, L) BY <1>4
    <2>2. repLines[h][i] \in L BY <2>1, PlacesOf DEF DoneReport
    <2> QED BY <2>1, <2>2, OriginsOnHost
<1>9. Cardinality(LinesOfSheet("c", "server")) = IF repTest.asks /\ ~Json("c") THEN 1 ELSE 0
    BY <1>1, <1>3, <1>4, ServersOutputOnce
<1> QED BY <1>4, <1>5, <1>6, <1>7, <1>8, <1>9 DEF Mine

(* ReportsAgree: the reports of the two hosts agree, whatever the test, the *)
(* looks and what the kernels count: every stream once, sums of one name of *)
(* the same streams, no number a host does not have, retransmits of the     *)
(* sender only, the server's output once                                    *)
THEOREM ReportsMatch == ReportSpec => []ReportsAgree
<1>1. ReportInit => ReportInv BY ReportBegins
<1>2. ReportInv /\ [ReportNext]_repVars => ReportInv'
    <2> SUFFICES ASSUME ReportInv, [ReportNext]_repVars PROVE ReportInv' OBVIOUS
    <2>1. CASE EndTest BY <2>1, EndTestInv
    <2>2. ASSUME NEW h \in Hosts, BeginReport(h) PROVE ReportInv'
        BY <2>2, ReportAssumption, BeginReportInv
    <2>3. ASSUME NEW h \in Hosts, PrintPass(h) PROVE ReportInv'
        BY <2>3, ReportAssumption, PrintPassInv
    <2>4. CASE UNCHANGED repVars
        <3>1. /\ repTest' = repTest /\ repLook' = repLook /\ repHas' = repHas
              /\ repPhase' = repPhase /\ repPasses' = repPasses /\ repFlag' = repFlag
              /\ repTmp' = repTmp /\ repOther' = repOther /\ repServer' = repServer
              /\ repLines' = repLines
            BY <2>4 DEF repVars
        <3> QED BY <3>1 DEF ReportInv, ReportTypes, ReportOf
    <2> QED BY <2>1, <2>2, <2>3, <2>4 DEF ReportNext
<1>3. ReportInv => ReportsAgree BY ReportAssumption, ReportsDoAgree
<1> QED BY <1>1, <1>2, <1>3, PTL DEF ReportSpec
=============================================================================
