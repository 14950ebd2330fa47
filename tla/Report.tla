------------------------------- MODULE Report -------------------------------
(***************************************************************************)
(* The last report of one test on both hosts: iperf_reporter_callback,     *)
(* iperf_print_intermediate and iperf_print_results (iperf_api.c).  Each   *)
(* host prints its sending and its receiving streams in passes of their    *)
(* own; the server prints before the results are exchanged, the client     *)
(* after.  Of a number only its origin is kept: the host measured it       *)
(* itself, has it from its peer, or does not know it.                      *)
(***************************************************************************)
EXTENDS Integers, SequencesExt

CONSTANT MaxStreams \* bound: streams of a direction

ASSUME ReportAssumption == MaxStreams \in Nat \ {0}

Hosts == {"c", "s"}

VARIABLES
    repTest,   \* the test: direction, streams, protocol, server output asked for
    repLook,   \* per host: "text", "verbose" or "json"
    repHas,    \* per host: whether its kernel counts retransmits
    repPhase,  \* per host: "idle", "printing" or "done"
    repPasses, \* per host: values of current_mode that are left
    repFlag,   \* per host: sender_has_retransmits
    repTmp,    \* per host: tmp_sender_has_retransmits of iperf_print_results
    repOther,  \* per host: other_side_has_retransmits
    repServer, \* the client still holds output of the server
    repLines   \* history, per host: what has been printed

repVars == <<repTest, repLook, repHas, repPhase, repPasses, repFlag, repTmp,
             repOther, repServer, repLines>>

Streams ==
    {[dir |-> d, id |-> i] : d \in {"up", "down"} \cap
        (IF repTest.dir = "both" THEN {"up", "down"} ELSE {repTest.dir}),
        i \in 1..repTest.streams}

IsSender(h, stream) == (stream.dir = "up") = (h = "c")

(* test->mode: 1 SENDER, 0 RECEIVER, -1 BIDIRECTIONAL *)
Mode(h, dir) ==
    IF dir = "both" THEN -1 ELSE IF (dir = "up") = (h = "c") THEN 1 ELSE 0

(* check_sender_has_retransmits and get_parameters *)
CountsRetransmits(h, test, has) == ~test.udp /\ has[h] /\ Mode(h, test.dir) # 0

(* current_mode from lower_mode to upper_mode: what the client sends first *)
PassesOf(h) ==
    IF repTest.dir # "both" THEN <<Mode(h, repTest.dir)>>
    ELSE IF h = "c" THEN <<-1, 0>> ELSE <<0, 1>>

MustBeSender(pass) == pass * pass = 1

OfPass(h, pass) == {x \in Streams : IsSender(h, x) = MustBeSender(pass)}

ReportInit ==
    /\ repTest = [dir |-> "none"]
    /\ repLook = [h \in Hosts |-> "text"]
    /\ repHas = [h \in Hosts |-> FALSE]
    /\ repPhase = [h \in Hosts |-> "idle"]
    /\ repPasses = [h \in Hosts |-> <<>>]
    /\ repFlag = [h \in Hosts |-> FALSE]
    /\ repTmp = [h \in Hosts |-> FALSE]
    /\ repOther = [h \in Hosts |-> FALSE]
    /\ repServer = FALSE
    /\ repLines = [h \in Hosts |-> <<>>]

(* The options of both hosts and the exchange of parameters have fixed all  *)
(* that the report depends on.  Only a client asks for the server's output. *)
EndTest ==
    /\ repTest.dir = "none"
    /\ \E dir \in {"up", "down", "both"}, n \in 1..MaxStreams, udp, asks \in BOOLEAN :
          repTest' = [dir |-> dir, streams |-> n, udp |-> udp, asks |-> asks]
    /\ repLook' \in [Hosts -> {"text", "verbose", "json"}]
    /\ repHas' \in [Hosts -> BOOLEAN]
    /\ repFlag' = [h \in Hosts |-> CountsRetransmits(h, repTest', repHas')]
    /\ UNCHANGED <<repPhase, repPasses, repTmp, repOther, repServer, repLines>>

-----------------------------------------------------------------------------
(* Mutant: the server's passes have the client's names. *)
SumNameOfTheClient(h, pass) ==
    IF repTest.dir = "both" /\ h = "c" /\ ~MustBeSender(pass)
    THEN "sum_bidir_reverse" ELSE "sum"

(* sum_name: what the server sends is the reverse channel, on both hosts *)
SumName(h, pass) ==
    IF repTest.dir = "both" /\ (h = "c") # MustBeSender(pass)
    THEN "sum_bidir_reverse" ELSE "sum"

Json(h) == repLook[h] = "json"
HasSum(h) == repTest.streams > 1 \/ Json(h)

Line(sheet, about, of, side, origin, retransmits) ==
    [sheet |-> sheet, about |-> about, of |-> of, side |-> side,
     origin |-> origin, retransmits |-> retransmits]

(* The streams of a pass as the list has them *)
InOrder(h, pass) ==
    LET dir == IF MustBeSender(pass) = (h = "c") THEN "up" ELSE "down"
    IN  [n \in 1..repTest.streams |-> [dir |-> dir, id |-> n]]

(* print_interval_results and the interval's sum, for one pass *)
IntervalPass(h, pass) ==
    LET shows == repFlag[h] /\ MustBeSender(pass)
        list == InOrder(h, pass)
    IN  [n \in DOMAIN list |-> Line("interval", list[n], {list[n]}, "both", "own", shows)] \o
        (IF HasSum(h)
         THEN <<Line("intervalSum", SumName(h, pass), OfPass(h, pass), "both", "own", shows)>>
         ELSE <<>>)

IntervalLines(h) ==
    FlattenSeq([n \in DOMAIN PassesOf(h) |-> IntervalPass(h, PassesOf(h)[n])])

(* iperf_print_intermediate: the last interval is dropped if it is short    *)
(* and empty in every stream.  Then iperf_print_results.  The client is     *)
(* here after EXCHANGE_RESULTS, the server before it (TEST_END), when the   *)
(* client has nothing from it yet.                                          *)
BeginReport(h) ==
    /\ repTest.dir # "none" /\ repPhase[h] = "idle"
    /\ h = "c" => repPhase["s"] = "done"
    /\ \E worthPrinting \in BOOLEAN :
          LET received == Mode(h, repTest.dir) = 0
              flag == IF h = "c" /\ received THEN repFlag["s"] ELSE repFlag[h]
          IN  /\ repFlag' = [repFlag EXCEPT ![h] = flag]
              /\ repTmp' = [repTmp EXCEPT ![h] = flag]
              /\ repOther' = [repOther EXCEPT ![h] =
                                h = "c" /\ repTest.dir = "both" /\ repFlag["s"]]
              /\ repServer' = (repServer \/ (h = "c" /\ repTest.asks))
              /\ repLines' = [repLines EXCEPT ![h] =
                                IF worthPrinting THEN IntervalLines(h) ELSE <<>>]
    /\ repPhase' = [repPhase EXCEPT ![h] = "printing"]
    /\ repPasses' = [repPasses EXCEPT ![h] = PassesOf(h)]
    /\ UNCHANGED <<repTest, repLook, repHas>>

-----------------------------------------------------------------------------
(* Where the number of a side comes from *)
Origin(h, own) == IF own THEN "own" ELSE IF h = "c" THEN "peer" ELSE "none"

(* The server does not print its peer's numbers as text, and says so only   *)
(* when it is verbose.                                                      *)
Printed(h, line) ==
    IF Json(h) \/ line.origin # "none" THEN <<line>>
    ELSE IF repLook[h] = "verbose" THEN <<[line EXCEPT !.origin = "notAvailable"]>>
    ELSE <<>>

(* The sender's and the receiver's line of one stream; with UDP and JSON    *)
(* one object has both.                                                     *)
StreamLines(h, flag, x) ==
    IF repTest.udp /\ Json(h)
    THEN <<Line("stream", x, {x}, "both", Origin(h, TRUE), FALSE)>>
    ELSE Printed(h, Line("stream", x, {x}, "sender", Origin(h, IsSender(h, x)), flag)) \o
         Printed(h, Line("stream", x, {x}, "receiver", Origin(h, ~IsSender(h, x)), FALSE))

(* The sums; for UDP as text, what is not available is not mentioned, and   *)
(* as JSON there is a third, older one.                                     *)
SumLines(h, flag, pass) ==
    LET name == SumName(h, pass)
        of == OfPass(h, pass)
        sent == Line("sum", name, of, "sender", Origin(h, MustBeSender(pass)), flag)
        received == Line("sum", name, of, "receiver", Origin(h, ~MustBeSender(pass)), FALSE)
        available(line) == IF line.origin = "none" THEN <<>> ELSE <<line>>
    IN  IF ~HasSum(h) THEN <<>>
        ELSE IF ~repTest.udp THEN Printed(h, sent) \o Printed(h, received)
        ELSE IF Json(h) THEN <<Line("sum", name, of, "both", "own", FALSE), sent, received>>
        ELSE available(sent) \o available(received)

(* One turn of the loop over current_mode.  With two directions the flag is *)
(* the one of the host that sends.                                          *)
PrintPass(h) ==
    LET pass == Head(repPasses[h])
        flag == IF repTest.dir # "both" THEN repFlag[h]
                ELSE IF MustBeSender(pass) THEN repTmp[h] ELSE repOther[h]
        list == InOrder(h, pass)
        ofStreams == [n \in DOMAIN list |-> StreamLines(h, flag, list[n])]
        report == FlattenSeq(ofStreams) \o SumLines(h, flag, pass)
        servers == h = "c" /\ repServer /\ ~Json(h)
    IN  /\ repPhase[h] = "printing"
        /\ repLines' = [repLines EXCEPT ![h] = @ \o report \o
              (IF servers THEN <<Line("server", "server", {}, "both", "peer", FALSE)>>
               ELSE <<>>)]
        /\ repServer' = (repServer /\ ~servers)
        /\ repPasses' = [repPasses EXCEPT ![h] = Tail(@)]
        /\ IF Len(repPasses[h]) = 1
           THEN /\ repPhase' = [repPhase EXCEPT ![h] = "done"]
                /\ repFlag' = [repFlag EXCEPT ![h] =
                      IF repTest.dir = "both" THEN repTmp[h] ELSE flag]
           ELSE /\ repFlag' = [repFlag EXCEPT ![h] = flag]
                /\ UNCHANGED repPhase
        /\ UNCHANGED <<repTest, repLook, repHas, repTmp, repOther>>

ReportNext == EndTest \/ \E h \in Hosts : BeginReport(h) \/ PrintPass(h)

ReportSpec == ReportInit /\ [][ReportNext]_repVars

-----------------------------------------------------------------------------
ReportDone == \A h \in Hosts : repPhase[h] = "done"
LinesOfSheet(h, sheet) ==
    {i \in 1..Len(repLines[h]) : repLines[h][i].sheet = sheet}

(* No host prints a line of a sheet twice; every stream has a line for      *)
(* either side on the client, and for its own side on the server.           *)
EachStreamOnce ==
    \A h \in Hosts :
        /\ \A i, j \in 1..Len(repLines[h]) :
              LET one == repLines[h][i] other == repLines[h][j]
              IN  (one.sheet = other.sheet /\ one.about = other.about
                   /\ one.side = other.side) => i = j
        /\ \A x \in Streams, side \in {"sender", "receiver"} :
              (h = "c" \/ IsSender(h, x) = (side = "sender")) =>
                 \E i \in LinesOfSheet(h, "stream") :
                    LET line == repLines[h][i]
                    IN  /\ line.about = x /\ line.side \in {side, "both"}
                        /\ line.origin # "notAvailable"

(* A sum of the same name adds up the same streams on both hosts, and the   *)
(* sums of a sheet are of all streams.                                      *)
SumsOfBothHostsMatch ==
    /\ \A i \in 1..Len(repLines["c"]), j \in 1..Len(repLines["s"]) :
          LET one == repLines["c"][i] other == repLines["s"][j]
          IN  (one.sheet \in {"sum", "intervalSum"} /\ one.sheet = other.sheet
           /\ one.about = other.about)
              => one.of = other.of
    /\ \A h \in Hosts : HasSum(h) =>
          Streams \subseteq UNION {repLines[h][i].of : i \in LinesOfSheet(h, "sum")}

(* Retransmits are shown exactly for what a host that counts them has sent; *)
(* the server knows nothing of its client's.                                *)
RetransmitsOfTheSender ==
    \A h \in Hosts : \A i \in 1..Len(repLines[h]) :
        LET line == repLines[h][i]
            sends == IF \E x \in line.of : x.dir = "up" THEN "c" ELSE "s"
        IN  (line.sheet \in {"stream", "sum"} /\ line.side = "sender"
             /\ line.origin \in {"own", "peer"}) =>
                line.retransmits = (~repTest.udp /\ repHas[sends])

(* The reports of a test agree (the comments of iperf_print_results: "the   *)
(* name reported on the server and client are compatible", "the server      *)
(* cannot report on client-side summary statistics"): every stream is       *)
(* reported once, sums of one name have the same streams on both hosts,     *)
(* text never shows a number the host does not have, retransmits are those  *)
(* of the sender, the client prints the server's output once and the flags  *)
(* are what they were.                                                      *)
ReportsAgree ==
    ReportDone =>
       /\ EachStreamOnce /\ SumsOfBothHostsMatch /\ RetransmitsOfTheSender
       /\ \A h \in Hosts : \A i \in 1..Len(repLines[h]) :
             Json(h) \/ repLines[h][i].origin # "none"
       /\ Cardinality(LinesOfSheet("c", "server")) =
             IF repTest.asks /\ ~Json("c") THEN 1 ELSE 0
       /\ repTest.dir = "both" =>
             \A h \in Hosts : repFlag[h] = CountsRetransmits(h, repTest, repHas)
=============================================================================
