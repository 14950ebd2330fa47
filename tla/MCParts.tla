------------------------------ MODULE MCParts ------------------------------
(* The parts that can be understood alone, one per behaviour: the topic.    *)
EXTENDS Udp, Sockets, Report, Options, Form, Monitor
LOCAL INSTANCE FiniteSetsExt

VARIABLE topic

MCSocketOptions ==
    UNION {kSubset(k, {"bind", "cport", "device", "timeout", "v6", "nodelay", "mss",
                       "window", "small", "stranger", "congestion", "disk", "tos"})
           : k \in 0..2}

MCRates ==
    {[value |-> 0, unit |-> "bits/sec"], [value |-> 900, unit |-> "Kbits/sec"],
     [value |-> 2, unit |-> "Mbits/sec"]}

Only(t, Next) == topic = t /\ Next
Others(t, vars) == topic # t => UNCHANGED vars

Init ==
    /\ topic \in {"udp", "sockets", "report", "options", "form", "monitor"}
    /\ UdpInit /\ SocketInit /\ ReportInit /\ OptionsInit /\ FormInit /\ MonitorInit

Next ==
    /\ UNCHANGED topic
    /\ \/ Only("udp", UdpNext)
       \/ Only("sockets", SocketNext)
       \/ Only("report", ReportNext)
       \/ Only("options", OptionsNext)
       \/ Only("form", FormNext)
       \/ Only("monitor", MonitorNext)
    /\ Others("udp", udpVars) /\ Others("sockets", sockVars)
    /\ Others("report", repVars) /\ Others("options", optVars)
    /\ Others("form", frmVars) /\ Others("monitor", monVars)

Spec == Init /\ [][Next]_<<topic, udpVars, sockVars, repVars, optVars, frmVars, monVars>>
=============================================================================
