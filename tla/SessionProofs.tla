--------------------------- MODULE SessionProofs ---------------------------
(***************************************************************************)
(* Theorems about Session, for any clients, options and number of faults:  *)
(* its types; a test runs with the options of its own client; a client     *)
(* that is done and was not stopped has exchanged its results.             *)
(***************************************************************************)
EXTENDS Session, TLAPS

ClientRecord ==
    [pc : ClientPc, state : State, next : Nat, armed : BOOLEAN, closed : BOOLEAN,
     stopped : BOOLEAN, accepted : BOOLEAN, trouble : BOOLEAN, crossed : BOOLEAN,
     finished : BOOLEAN, outcome : {"none", "failed", "done"}]

ServerRecord ==
    [pc : ServerPc, state : State, ctrl : Connection \cup {NULL},
     listening : BOOLEAN, streams : Seq(Stream), done : BOOLEAN,
     workers : BOOLEAN, held : SUBSET Option]

ClientTypes ==
    /\ cl \in [Client -> ClientRecord]
    /\ \A c \in Client : cl[c].next \in 1..Connections(c)

TypeInv ==
    /\ setup \in Setups
    /\ ClientTypes
    /\ srv \in ServerRecord
    /\ backlog \in Seq(Connection)
    /\ link \in [Client -> {"none", "open", "shut"}]
    /\ faults \in 0..MaxFaults

(* The two options that iperf_reset_test does not put back *)
Kept == {"get_server_output", "repeating_payload"}

(* Without a client the server holds only what is never put back; with one, *)
(* what this client asked for besides.                                      *)
HeldInv ==
    /\ srv.ctrl = NULL /\ srv.pc \notin {"cleanup", "reset", "exited", "gone"} =>
         srv.held \subseteq Kept
    /\ srv.ctrl # NULL => srv.held \ Kept \subseteq setup[Peer].asks

(* What a client, and what befalls it, may do to the state *)
ClientMove(c) ==
    ClientStep(c) \/ Dial(c) \/ Stop(c) \/ Terminate(c) \/ Vanish(c) \/ TimesOut(c)
    \/ GivesUp(c)

-----------------------------------------------------------------------------
(* What the assumption on the setups says of one client *)
LEMMA SetupOf ==
    ASSUME setup \in Setups, NEW c \in Client
    PROVE  /\ setup[c].dir \in {"up", "down", "both"}
           /\ setup[c].streams \in Nat \ {0}
           /\ setup[c].asks \subseteq Option
           /\ Connections(c) \in Nat \ {0}
<1>1. IsSetup(setup[c])
  BY SetupsAssumption
<1> QED
  BY <1>1 DEF IsSetup, Connections

LEMMA InitTypes == Init => TypeInv /\ HeldInv
<1> SUFFICES ASSUME Init PROVE TypeInv /\ HeldInv
  OBVIOUS
<1>1. ClientTypes
  BY SetupOf DEF Init, ClientTypes, ClientRecord, ClientPc, State, Announcement
<1>2. srv \in ServerRecord
  <2>1. <<>> \in Seq(Stream)
    OBVIOUS
  <2> QED
    BY <2>1 DEF Init, ServerRecord, ServerPc, State
<1>3. /\ backlog \in Seq(Connection) /\ faults \in 0..MaxFaults /\ setup \in Setups
      /\ link \in [Client -> {"none", "open", "shut"}]
  BY FaultsAssumption DEF Init
<1>4. HeldInv
  BY DEF Init, HeldInv
<1> QED
  BY <1>1, <1>2, <1>3, <1>4 DEF TypeInv

-----------------------------------------------------------------------------
(* A client's record changes, and its next stream stays within its streams. *)
LEMMA OneClient ==
    ASSUME ClientTypes, NEW c \in Client, NEW r \in ClientRecord,
           r.next \in 1..Connections(c), cl' = [cl EXCEPT ![c] = r],
           setup' = setup
    PROVE  ClientTypes'
<1>1. cl' \in [Client -> ClientRecord]
  BY DEF ClientTypes
<1>2. \A d \in Client : Connections(d)' = Connections(d)
  BY DEF Connections
<1>3. \A d \in Client : cl'[d].next \in 1..Connections(d)
  BY DEF ClientTypes
<1> QED
  BY <1>1, <1>2, <1>3 DEF ClientTypes

(* A client that is over, or back at the test of its loop, is as before in *)
(* everything else.                                                         *)
LEMMA OverBack ==
    ASSUME NEW r \in ClientRecord
    PROVE  /\ \A how \in {"failed", "done"} :
                Over(r, how) \in ClientRecord /\ Over(r, how).next = r.next
           /\ Back(r) \in ClientRecord /\ Back(r).next = r.next
<1>1. \A how \in {"failed", "done"} :
         Over(r, how) \in ClientRecord /\ Over(r, how).next = r.next
  BY DEF Over, ClientRecord, ClientPc
<1>2. /\ [r EXCEPT !.pc = "select"] \in ClientRecord
      /\ [r EXCEPT !.pc = "select"].next = r.next
  BY DEF ClientRecord, ClientPc
<1> QED
  BY <1>1, <1>2 DEF Back

LEMMA FailsTypes ==
    ASSUME ClientTypes, NEW c \in Client, NEW state \in State, Fails(c, state),
           setup' = setup
    PROVE  ClientTypes'
<1> DEFINE q == Over(cl[c], "failed")
           r == [q EXCEPT !.state = state, !.closed = TRUE]
<1>1. cl[c] \in ClientRecord /\ cl[c].next \in 1..Connections(c)
  BY DEF ClientTypes
<1>2. q \in ClientRecord /\ q.next = cl[c].next
  BY <1>1, OverBack
<1>3. cl' = [cl EXCEPT ![c] = r]
  BY DEF Fails
<1> HIDE DEF q
<1>4. r \in ClientRecord /\ r.next = cl[c].next
  BY <1>2 DEF ClientRecord
<1> QED
  BY <1>1, <1>3, <1>4, OneClient

LEMMA ClientStepTypes ==
    ASSUME TypeInv, NEW c \in Client,
           ClientMove(c)
    PROVE  ClientTypes'
<1>0. /\ ClientTypes /\ cl \in [Client -> ClientRecord]
      /\ cl[c] \in ClientRecord /\ cl[c].next \in 1..Connections(c)
  BY DEF TypeInv, ClientTypes
<1>1. CASE SendCookie(c)
  <2> DEFINE r == Back(cl[c])
  <2>1. cl' = [cl EXCEPT ![c] = r]
    BY <1>1 DEF SendCookie
  <2>2. r \in ClientRecord /\ r.next = cl[c].next
    BY <1>0, OverBack, <1>1 DEF ClientRecord, ClientPc, State, Told
  <2> QED
    BY <1>0, <1>1, <2>1, <2>2, OneClient DEF SendCookie
<1>2. CASE Receive(c)
  <2> DEFINE m == Head(s2c[c])
             q == [cl[c] EXCEPT !.state = m]
             r == CASE m = "PARAM_EXCHANGE" -> [q EXCEPT !.pc = "params"]
                    [] m = "CREATE_STREAMS" -> [q EXCEPT !.pc = "streams"]
                    [] m = "EXCHANGE_RESULTS" -> [q EXCEPT !.pc = "results"]
                    [] m = "TEST_START" -> [q EXCEPT !.armed = TRUE]
                    [] OTHER -> q
  <2>1. cl' = [cl EXCEPT ![c] = r] /\ m \in State
    BY <1>2 DEF Receive, State
  <2> HIDE DEF m
  <2>2. q \in ClientRecord /\ q.next = cl[c].next
    BY <1>0, <2>1 DEF ClientRecord
  <2> HIDE DEF q
  <2>3. r \in ClientRecord /\ r.next = cl[c].next
    BY <2>2 DEF ClientRecord, ClientPc
  <2> QED
    BY <1>0, <1>2, <2>1, <2>3, OneClient DEF Receive
<1>3. CASE Finish(c)
  <2> DEFINE q == Over(cl[c], "done")
             r == [q EXCEPT !.state = "IPERF_DONE", !.closed = TRUE]
  <2>1. cl' = [cl EXCEPT ![c] = r]
    BY <1>3 DEF Finish
  <2>2. q \in ClientRecord /\ q.next = cl[c].next
    BY <1>0, OverBack
  <2> HIDE DEF q
  <2>3. r \in ClientRecord /\ r.next = cl[c].next
    BY <2>2 DEF ClientRecord, State, Told
  <2> QED
    BY <1>0, <1>3, <2>1, <2>3, OneClient DEF Finish
<1>4. CASE Refused(c)
  BY <1>0, <1>4, FailsTypes DEF Refused, State
<1>5. CASE SendLength(c)
  <2> DEFINE r == [cl[c] EXCEPT !.pc = IF @ = "params" THEN "paramsBody"
                                       ELSE "resultsBody"]
  <2>1. cl' = [cl EXCEPT ![c] = r]
    BY <1>5 DEF SendLength
  <2>2. r \in ClientRecord /\ r.next = cl[c].next
    BY <1>0, OverBack, <1>5 DEF ClientRecord, ClientPc, State, Told
  <2> QED
    BY <1>0, <1>5, <2>1, <2>2, OneClient DEF SendLength
<1>6. CASE SendBody(c)
  <2> DEFINE r == IF cl[c].pc = "paramsBody" THEN Back(cl[c])
                  ELSE [cl[c] EXCEPT !.pc = "getResults"]
  <2>1. cl' = [cl EXCEPT ![c] = r]
    BY <1>6 DEF SendBody
  <2>2. r \in ClientRecord /\ r.next = cl[c].next
    BY <1>0, OverBack, <1>6 DEF ClientRecord, ClientPc, State, Told
  <2> QED
    BY <1>0, <1>6, <2>1, <2>2, OneClient DEF SendBody
<1>7. CASE ConnectStream(c)
  <2> DEFINE q == [cl[c] EXCEPT !.next = cl[c].next + 1]
  <2>0. Connections(c) \in Nat \ {0}
    BY SetupOf DEF TypeInv
  <2>1. setup' = setup
    BY <1>7 DEF ConnectStream
  <2>2. CASE cl[c].next = Connections(c)
    <3>1. cl' = [cl EXCEPT ![c] = Back(cl[c])]
      BY <1>7, <2>2 DEF ConnectStream
    <3> QED
      BY <1>0, <2>1, <3>1, OverBack, OneClient
  <2>3. CASE cl[c].next # Connections(c)
    <3>1. cl' = [cl EXCEPT ![c] = q]
      BY <1>7, <2>3 DEF ConnectStream
    <3>2. q \in ClientRecord /\ q.next \in 1..Connections(c)
      BY <1>0, <2>0, <2>3 DEF ClientRecord
    <3> QED
      BY <1>0, <2>1, <3>1, <3>2, OneClient
  <2> QED
    BY <2>2, <2>3
<1>8. CASE StreamRefused(c)
  BY <1>0, <1>8, FailsTypes DEF StreamRefused, ClientRecord
<1>9. CASE Expire(c)
  <2> DEFINE r == [cl[c] EXCEPT !.pc = "ending"]
  <2>1. cl' = [cl EXCEPT ![c] = r]
    BY <1>9 DEF Expire
  <2>2. r \in ClientRecord /\ r.next = cl[c].next
    BY <1>0, OverBack, <1>9 DEF ClientRecord, ClientPc, State, Told
  <2> QED
    BY <1>0, <1>9, <2>1, <2>2, OneClient DEF Expire
<1>10. CASE SendEnd(c)
  <2> DEFINE r == [cl[c] EXCEPT !.pc = "select", !.state = "TEST_END"]
  <2>1. cl' = [cl EXCEPT ![c] = r]
    BY <1>10 DEF SendEnd
  <2>2. r \in ClientRecord /\ r.next = cl[c].next
    BY <1>0, OverBack, <1>10 DEF ClientRecord, ClientPc, State, Told
  <2> QED
    BY <1>0, <1>10, <2>1, <2>2, OneClient DEF SendEnd
<1>11. CASE GetResults(c)
  <2> DEFINE r == Back(cl[c])
  <2>1. cl' = [cl EXCEPT ![c] = r]
    BY <1>11 DEF GetResults
  <2>2. r \in ClientRecord /\ r.next = cl[c].next
    BY <1>0, OverBack, <1>11 DEF ClientRecord, ClientPc, State, Told
  <2> QED
    BY <1>0, <1>11, <2>1, <2>2, OneClient DEF GetResults
<1>12. CASE WakeUp(c)
  <2> DEFINE r == Back(cl[c])
  <2>1. cl' = [cl EXCEPT ![c] = r]
    BY <1>12 DEF WakeUp
  <2>2. r \in ClientRecord /\ r.next = cl[c].next
    BY <1>0, OverBack, <1>12 DEF ClientRecord, ClientPc, State, Told
  <2> QED
    BY <1>0, <1>12, <2>1, <2>2, OneClient DEF WakeUp
<1>13. CASE LinkLost(c) \/ GivesUp(c)
  BY <1>0, <1>13, FailsTypes DEF LinkLost, GivesUp, ClientRecord
<1>14. CASE Dial(c)
  <2> DEFINE r == IF srv.listening THEN [cl[c] EXCEPT !.pc = "cookie"]
                  ELSE Over(cl[c], "failed")
  <2>1. cl' = [cl EXCEPT ![c] = r]
    BY <1>14 DEF Dial
  <2>2. r \in ClientRecord /\ r.next = cl[c].next
    BY <1>0, OverBack DEF ClientRecord, ClientPc
  <2> QED
    BY <1>0, <1>14, <2>1, <2>2, OneClient DEF Dial
<1>15. CASE Stop(c)
  <2> DEFINE r == [cl[c] EXCEPT !.stopped = TRUE, !.trouble = TRUE,
                                !.state = "IPERF_DONE"]
  <2>1. cl' = [cl EXCEPT ![c] = r]
    BY <1>15 DEF Stop
  <2>2. r \in ClientRecord /\ r.next = cl[c].next
    BY <1>0, OverBack, <1>15 DEF ClientRecord, ClientPc, State, Told
  <2> QED
    BY <1>0, <1>15, <2>1, <2>2, OneClient DEF Stop
<1>16. CASE Terminate(c)
  <2> DEFINE q == Over(cl[c], "failed")
             r == [q EXCEPT !.trouble = TRUE, !.closed = TRUE,
                            !.state = "CLIENT_TERMINATE"]
  <2>1. cl' = [cl EXCEPT ![c] = r]
    BY <1>16 DEF Terminate
  <2>2. q \in ClientRecord /\ q.next = cl[c].next
    BY <1>0, OverBack
  <2> HIDE DEF q
  <2>3. r \in ClientRecord /\ r.next = cl[c].next
    BY <2>2 DEF ClientRecord, State, Told
  <2> QED
    BY <1>0, <1>16, <2>1, <2>3, OneClient DEF Terminate
<1>17. CASE Vanish(c)
  <2> DEFINE q == Over(cl[c], "failed")
             r == [q EXCEPT !.trouble = TRUE]
  <2>1. cl' = [cl EXCEPT ![c] = r]
    BY <1>17 DEF Vanish
  <2>2. q \in ClientRecord /\ q.next = cl[c].next
    BY <1>0, OverBack
  <2> HIDE DEF q
  <2>3. r \in ClientRecord /\ r.next = cl[c].next
    BY <2>2 DEF ClientRecord, State, Told
  <2> QED
    BY <1>0, <1>17, <2>1, <2>3, OneClient DEF Vanish
<1>18. CASE TimesOut(c)
  <2> DEFINE q == Over(cl[c], "failed")
             r == [q EXCEPT !.trouble = TRUE, !.closed = TRUE]
  <2>1. cl' = [cl EXCEPT ![c] = r]
    BY <1>18 DEF TimesOut
  <2>2. q \in ClientRecord /\ q.next = cl[c].next
    BY <1>0, OverBack
  <2> HIDE DEF q
  <2>3. r \in ClientRecord /\ r.next = cl[c].next
    BY <2>2 DEF ClientRecord
  <2> QED
    BY <1>0, <1>18, <2>1, <2>3, OneClient DEF TimesOut
<1> QED
  BY <1>1, <1>2, <1>3, <1>4, <1>5, <1>6, <1>7, <1>8, <1>9, <1>10, <1>11, <1>12,
     <1>13, <1>14, <1>15, <1>16, <1>17, <1>18 DEF ClientMove, ClientStep

(* What a client does leaves the server, the options and the typing of the *)
(* connections alone.                                                       *)
LEMMA ClientMoveTypes ==
    ASSUME TypeInv, NEW c \in Client,
           ClientMove(c)
    PROVE  TypeInv' /\ UNCHANGED <<setup, srv>>
<1>1. ClientTypes'
  BY ClientStepTypes
<1>2. UNCHANGED <<setup, srv>>
  BY DEF ClientMove, ClientStep, SendCookie, Receive, Finish, Refused, SendLength,
         SendBody, ConnectStream, StreamRefused, Expire, SendEnd, GetResults, WakeUp,
         LinkLost, GivesUp, TimesOut, Dial, Stop, Terminate, Vanish
<1>3. backlog' \in Seq(Connection)
  <2>1. cl[c].next \in Nat
    BY SetupOf DEF TypeInv, ClientTypes, ClientRecord
  <2>2. <<c, 0>> \in Connection /\ <<c, cl[c].next>> \in Connection
    BY <2>1 DEF Connection
  <2>3. CASE UNCHANGED backlog
    BY <2>3 DEF TypeInv
  <2>4. CASE Dial(c)
    <3>1. backlog' = Append(backlog, <<c, 0>>) \/ backlog' = backlog
      BY <2>4 DEF Dial
    <3>2. backlog \in Seq(Connection)
      BY DEF TypeInv
    <3>3. \A x \in Connection : Append(backlog, x) \in Seq(Connection)
      BY <3>2
    <3> QED
      BY <2>2, <3>1, <3>2, <3>3
  <2>5. CASE ConnectStream(c)
    BY <2>2, <2>5 DEF ConnectStream, TypeInv
  <2> QED
    BY <2>3, <2>4, <2>5
    DEF ClientMove, ClientStep, SendCookie, Receive, Finish, Refused, SendLength, SendBody,
        StreamRefused, Expire, SendEnd, GetResults, WakeUp, LinkLost, GivesUp,
        TimesOut, Stop, Terminate, Vanish
<1>4. link' \in [Client -> {"none", "open", "shut"}]
  <2>1. CASE Dial(c)
    BY <2>1 DEF Dial, TypeInv
  <2>2. CASE UNCHANGED link
    BY <2>2 DEF TypeInv
  <2> QED
    BY <2>1, <2>2
    DEF ClientMove, ClientStep, SendCookie, Receive, Finish, Refused, SendLength, SendBody,
        ConnectStream, StreamRefused, Expire, SendEnd, GetResults, WakeUp,
        LinkLost, GivesUp, TimesOut, Stop, Terminate, Vanish
<1>5. faults' \in 0..MaxFaults
  <2>1. CASE UNCHANGED faults
    BY <2>1 DEF TypeInv
  <2>2. CASE Fault
    BY <2>2, FaultsAssumption DEF TypeInv, Fault
  <2> QED
    BY <2>1, <2>2
    DEF ClientMove, ClientStep, SendCookie, Receive, Finish, Refused, SendLength, SendBody,
        ConnectStream, StreamRefused, Expire, SendEnd, GetResults, WakeUp,
        LinkLost, GivesUp, TimesOut, Dial, Stop, Terminate, Vanish
<1> QED
  BY <1>1, <1>2, <1>3, <1>4, <1>5 DEF TypeInv

-----------------------------------------------------------------------------
(* What the server, and what befalls it, may do to the state *)
ServerMove ==
    ServerStep \/ ListenFails \/ AcceptFails \/ RelistenFails \/ NewStreamFails
    \/ IdleRestart \/ Killed \/ ServerVanishes

(* A mark in the history of a client keeps the types. *)
LEMMA MarkTypes ==
    ASSUME ClientTypes, setup' = setup, NEW p,
           \/ cl' = [cl EXCEPT ![p].trouble = TRUE]
           \/ cl' = [cl EXCEPT ![p].crossed = TRUE]
           \/ cl' = [cl EXCEPT ![p].accepted = TRUE]
           \/ cl' = [cl EXCEPT ![p].finished = TRUE]
    PROVE  ClientTypes'
<1>1. CASE p \in Client
  <2>1. PICK r \in {[cl[p] EXCEPT !.trouble = TRUE], [cl[p] EXCEPT !.crossed = TRUE],
                    [cl[p] EXCEPT !.accepted = TRUE],
                    [cl[p] EXCEPT !.finished = TRUE]} : cl' = [cl EXCEPT ![p] = r]
    OBVIOUS
  <2>2. cl[p] \in ClientRecord /\ cl[p].next \in 1..Connections(p)
    BY <1>1 DEF ClientTypes
  <2>3. r \in ClientRecord /\ r.next = cl[p].next
    BY <2>1, <2>2 DEF ClientRecord
  <2> QED
    BY <1>1, <2>1, <2>2, <2>3, OneClient
<1>2. CASE p \notin Client
  <2>1. cl' = cl
    BY <1>2 DEF ClientTypes
  <2> QED
    BY <2>1 DEF ClientTypes, Connections
<1> QED
  BY <1>1, <1>2

LEMMA ServerKeepsClients ==
    ASSUME TypeInv, ServerMove
    PROVE  ClientTypes' /\ setup' = setup
<1>0. ClientTypes
  BY DEF TypeInv
<1>1. setup' = setup
  BY DEF ServerMove, ServerStep, Listen, Accept, Deny, AcceptStream,
         AcceptStranger, Handle, HandleEnd, HandleDone, Read, ReadCookie,
         ReadParams, ReadResults, ReadTimesOut, ReadGarbled, TimeOut,
         ReceiveTimesOut, GraceEnds, Cleanup, Reset, ListenFails, RelistenFails,
         NewStreamFails, AcceptFails, IdleRestart, Killed, ServerVanishes
<1>2. \/ UNCHANGED cl
      \/ \E p : \/ cl' = [cl EXCEPT ![p].trouble = TRUE]
                \/ cl' = [cl EXCEPT ![p].crossed = TRUE]
                \/ cl' = [cl EXCEPT ![p].accepted = TRUE]
                \/ cl' = [cl EXCEPT ![p].finished = TRUE]
  <2>1. CASE Accept
    BY <2>1 DEF Accept
  <2>2. CASE ReadResults
    BY <2>2 DEF ReadResults
  <2>3. CASE RelistenFails \/ NewStreamFails \/ AcceptFails
    BY <2>3 DEF RelistenFails, NewStreamFails, AcceptFails
  <2>4. CASE Late
    BY <2>4 DEF Late
  <2>5. CASE UNCHANGED cl
    BY <2>5
  <2> QED
    BY <2>1, <2>2, <2>3, <2>4, <2>5
    DEF ServerMove, ServerStep, Listen, Deny, AcceptStream, AcceptStranger,
        Handle, HandleEnd, HandleDone, Read, ReadCookie, ReadParams,
        ReadTimesOut, ReadGarbled, TimeOut, ReceiveTimesOut, GraceEnds, Cleanup,
        Reset, ListenFails, IdleRestart, Killed, ServerVanishes
<1>3. CASE UNCHANGED cl
  BY <1>0, <1>1, <1>3 DEF ClientTypes, Connections
<1> QED
  BY <1>0, <1>1, <1>2, <1>3, MarkTypes

LEMMA ServerKeepsLinks ==
    ASSUME TypeInv, ServerMove
    PROVE  /\ link' \in [Client -> {"none", "open", "shut"}]
           /\ faults' \in 0..MaxFaults
<1>1. \/ UNCHANGED link
      \/ \E cs : link' = [c \in Client |-> IF c \in cs THEN "shut" ELSE link[c]]
  <2>1. ASSUME NEW cs, Shut(cs)
        PROVE  link' = [c \in Client |-> IF c \in cs THEN "shut" ELSE link[c]]
    BY <2>1 DEF Shut
  <2>2. CASE ReadParams
    BY <2>2 DEF ReadParams
  <2>3. CASE AcceptStream
    BY <2>1, <2>3 DEF AcceptStream, Starts
  <2>4. CASE Deny \/ AcceptStranger
    BY <2>1, <2>4 DEF Deny, AcceptStranger
  <2>5. CASE GraceEnds \/ Cleanup \/ Killed
    BY <2>1, <2>5 DEF GraceEnds, Cleanup, Killed
  <2>6. CASE UNCHANGED link
    BY <2>6
  <2> QED
    BY <2>2, <2>3, <2>4, <2>5, <2>6
    DEF ServerMove, ServerStep, Listen, Accept, Handle, HandleEnd, HandleDone,
        Read, ReadCookie, ReadResults, ReadTimesOut, ReadGarbled, TimeOut,
        ReceiveTimesOut, Reset, ListenFails, RelistenFails, NewStreamFails,
        AcceptFails, IdleRestart, ServerVanishes
<1>2. link' \in [Client -> {"none", "open", "shut"}]
  <2>1. link \in [Client -> {"none", "open", "shut"}]
    BY DEF TypeInv
  <2>2. ASSUME NEW cs,
               link' = [c \in Client |-> IF c \in cs THEN "shut" ELSE link[c]]
        PROVE  link' \in [Client -> {"none", "open", "shut"}]
    BY <2>1, <2>2
  <2> QED
    BY <1>1, <2>1, <2>2
<1>3. UNCHANGED faults \/ Fault
  BY DEF ServerMove, ServerStep, Listen, Accept, Deny, AcceptStream,
         AcceptStranger, Handle, HandleEnd, HandleDone, Read, ReadCookie,
         ReadParams, ReadResults, ReadTimesOut, ReadGarbled, TimeOut,
         ReceiveTimesOut, GraceEnds, Cleanup, Reset, ListenFails, RelistenFails,
         NewStreamFails, AcceptFails, IdleRestart, Killed, ServerVanishes, Late
<1>4. faults' \in 0..MaxFaults
  BY <1>3, FaultsAssumption DEF TypeInv, Fault
<1> QED
  BY <1>2, <1>4

(* Connections are taken from the front, or all of them are lost. *)
LEMMA ServerKeepsBacklog ==
    ASSUME TypeInv, ServerMove
    PROVE  backlog' \in Seq(Connection)
<1>1. \/ UNCHANGED backlog \/ backlog' = <<>>
      \/ backlog # <<>> /\ backlog' = Tail(backlog)
  BY DEF ServerMove, ServerStep, Listen, Accept, Deny, AcceptStream,
         AcceptStranger, Handle, HandleEnd, HandleDone, Read, ReadCookie,
         ReadParams, ReadResults, ReadTimesOut, ReadGarbled, TimeOut,
         ReceiveTimesOut, GraceEnds, Cleanup, Reset, ListenFails, RelistenFails,
         NewStreamFails, AcceptFails, IdleRestart, Killed, ServerVanishes
<1>2. backlog \in Seq(Connection)
  BY DEF TypeInv
<1>3. <<>> \in Seq(Connection)
  OBVIOUS
<1>4. backlog # <<>> => Tail(backlog) \in Seq(Connection)
  BY <1>2
<1> QED
  BY <1>1, <1>2, <1>3, <1>4

(* The server's record keeps its types. *)
LEMMA ServerRecordTypes ==
    ASSUME TypeInv, ServerMove
    PROVE  srv' \in ServerRecord
<1>0. /\ srv \in ServerRecord /\ backlog \in Seq(Connection) /\ setup \in Setups
  BY DEF TypeInv
<1>1. GiveUp \in ServerRecord
  BY <1>0 DEF GiveUp, ServerRecord, ServerPc
<1>2. CASE srv' = srv \/ srv' = GiveUp
  BY <1>0, <1>1, <1>2
<1>3. CASE Listen
  BY <1>0, <1>3 DEF Listen, ServerRecord, ServerPc, State
<1>4. CASE ListenFails
  BY <1>0, <1>4 DEF ListenFails, ServerRecord, ServerPc
<1>5. CASE Accept
  <2> DEFINE conn == Head(backlog)
  <2>1. conn \in Connection
    BY <1>0, <1>5 DEF Accept
  <2>2. \/ srv' = [srv EXCEPT !.pc = "cookie", !.ctrl = conn]
        \/ srv' = [srv EXCEPT !.pc = "params", !.ctrl = conn,
                              !.state = "PARAM_EXCHANGE"]
    BY <1>5 DEF Accept
  <2> HIDE DEF conn
  <2> QED
    BY <1>0, <2>1, <2>2 DEF ServerRecord, ServerPc, State, Announcement
<1>6. CASE ReadCookie
  BY <1>0, <1>6 DEF ReadCookie, ServerRecord, ServerPc, State, Announcement
<1>7. CASE ReadParams
  <2> DEFINE held == Taken(srv.held, setup[Peer].asks)
  <2>1. Peer \in Client
    BY <1>0, <1>7 DEF ReadParams, Proper, Serving, Peer, ServerRecord, Connection
  <2>2. held \in SUBSET Option
    BY <1>0, <2>1, SetupOf DEF Taken, ServerRecord
  <2>3. srv' = [srv EXCEPT !.pc = "select", !.state = "CREATE_STREAMS",
                           !.held = held]
    BY <1>7 DEF ReadParams
  <2> HIDE DEF held
  <2> QED
    BY <1>0, <2>2, <2>3 DEF ServerRecord, ServerPc, State, Announcement
<1>8. CASE RelistenFails
  <2>1. srv' = [GiveUp EXCEPT !.state = "SERVER_ERROR"]
    BY <1>8 DEF RelistenFails
  <2> QED
    BY <1>1, <2>1 DEF ServerRecord, State, Refusal
<1>9. CASE AcceptStream
  <2> DEFINE i == Len(srv.streams) + 1
             new == [owner |-> Peer, conn |-> Head(backlog)[2],
                     id |-> NewId(Len(srv.streams)), sender |-> ServerSends(Peer, i)]
             streams == Append(srv.streams, new)
  <2>1. Peer \in Client
    BY <1>0, <1>9 DEF AcceptStream, Proper, Serving, Peer, ServerRecord, Connection
  <2>2. Head(backlog)[2] \in Nat
    <3>1. Head(backlog) \in Connection
      BY <1>0, <1>9 DEF AcceptStream
    <3> QED
      BY <3>1 DEF Connection
  <2>3. srv.streams \in Seq(Stream)
    BY <1>0 DEF ServerRecord
  <2>4. NewId(Len(srv.streams)) \in Nat
    BY <2>3 DEF NewId
  <2>5. ServerSends(Peer, i) \in BOOLEAN
    BY DEF ServerSends
  <2>6. new \in Stream
    BY <2>1, <2>2, <2>4, <2>5 DEF Stream
  <2>7. streams \in Seq(Stream)
    BY <2>3, <2>6
  <2>8. \/ srv' = [srv EXCEPT !.streams = streams]
        \/ srv' = [srv EXCEPT !.state = "TEST_RUNNING", !.streams = streams,
                              !.workers = TRUE, !.done = FALSE]
    BY <1>9 DEF AcceptStream, Starts
  <2> HIDE DEF streams
  <2> QED
    BY <1>0, <2>7, <2>8 DEF ServerRecord, State, Announcement
<1>10. CASE HandleEnd
  BY <1>0, <1>10 DEF HandleEnd, ServerRecord, ServerPc, State, Announcement
<1>11. CASE HandleDone
  <2>1. PICK state \in {"IPERF_DONE", GiveUp.state} :
          srv' = [GiveUp EXCEPT !.state = state]
    BY <1>11 DEF HandleDone
  <2> QED
    BY <1>1, <2>1 DEF ServerRecord, State, Told
<1>12. CASE ReadResults
  BY <1>0, <1>12 DEF ReadResults, ServerRecord, ServerPc, State, Announcement
<1>13. CASE GraceEnds
  <2>1. srv' = [GiveUp EXCEPT !.done = TRUE, !.streams = <<>>, !.ctrl = NULL]
    BY <1>13 DEF GraceEnds
  <2>2. \A none \in Seq(Stream) :
          [GiveUp EXCEPT !.done = TRUE, !.streams = none, !.ctrl = NULL]
            \in ServerRecord
    BY <1>1 DEF ServerRecord
  <2>3. <<>> \in Seq(Stream)
    OBVIOUS
  <2> QED
    BY <2>1, <2>2, <2>3
<1>14. CASE Cleanup
  BY <1>0, <1>14 DEF Cleanup, ServerRecord, ServerPc
<1>15. CASE Reset
  <2> DEFINE held == srv.held \ Restored
  <2>1. srv' = [srv EXCEPT !.pc = "listen", !.state = "NEW", !.streams = <<>>,
                           !.done = FALSE, !.held = held]
    BY <1>0, <1>15 DEF Reset, ResetTest, ServerRecord
  <2>2. held \in SUBSET Option
    BY <1>0 DEF ServerRecord
  <2> HIDE DEF held
  <2>3. \A none \in Seq(Stream) :
          [srv EXCEPT !.pc = "listen", !.state = "NEW", !.streams = none,
                      !.done = FALSE, !.held = held] \in ServerRecord
    BY <1>0, <2>2 DEF ServerRecord, ServerPc, State
  <2>4. <<>> \in Seq(Stream)
    OBVIOUS
  <2> QED
    BY <2>1, <2>3, <2>4
<1>16. CASE Killed \/ ServerVanishes
  BY <1>0, <1>16 DEF Killed, ServerVanishes, ServerRecord, ServerPc, State, Refusal
<1> QED
  BY <1>2, <1>3, <1>4, <1>5, <1>6, <1>7, <1>8, <1>9, <1>10, <1>11, <1>12, <1>13,
     <1>14, <1>15, <1>16
  DEF ServerMove, ServerStep, Deny, AcceptStranger, Handle, Read, ReadTimesOut,
      ReadGarbled, TimeOut, ReceiveTimesOut, NewStreamFails, AcceptFails, IdleRestart

-----------------------------------------------------------------------------
(* Every step keeps the types. *)
LEMMA StepTypes == TypeInv /\ [Next]_vars => TypeInv'
<1> SUFFICES ASSUME TypeInv, [Next]_vars PROVE TypeInv'
  OBVIOUS
<1>1. ASSUME NEW c \in Client,
             ClientMove(c)
      PROVE  TypeInv'
  BY <1>1, ClientMoveTypes
<1>2. CASE ServerMove
  BY <1>2, ServerKeepsClients, ServerKeepsLinks, ServerKeepsBacklog,
     ServerRecordTypes DEF TypeInv
<1>3. CASE UNCHANGED vars
  <2>1. ClientTypes'
    BY <1>3 DEF vars, TypeInv, ClientTypes, Connections
  <2> QED
    BY <1>3, <2>1 DEF vars, TypeInv
<1> QED
  BY <1>1, <1>2, <1>3 DEF Next, ServerMove, ClientMove

(* What the run checks as types follows from the sharper statement. *)
LEMMA TypesFollow == TypeInv => TypeOK
<1> SUFFICES ASSUME TypeInv PROVE TypeOK
  OBVIOUS
<1>1. ASSUME NEW c \in Client
      PROVE  /\ cl[c].pc \in ClientPc /\ cl[c].state \in State
             /\ cl[c].next \in 1..Connections(c)
             /\ \A f \in {"armed", "closed", "stopped", "accepted", "trouble",
                          "crossed", "finished"} : cl[c][f] \in BOOLEAN
             /\ cl[c].outcome \in {"none", "failed", "done"}
             /\ link[c] \in {"none", "open", "shut"}
  <2>1. cl[c] \in ClientRecord /\ cl[c].next \in 1..Connections(c)
    BY DEF TypeInv, ClientTypes
  <2>2. link[c] \in {"none", "open", "shut"}
    BY DEF TypeInv
  <2> QED
    BY <2>1, <2>2 DEF ClientRecord
<1>2. /\ srv.pc \in ServerPc /\ srv.state \in State
      /\ srv.ctrl \in Connection \cup {NULL}
      /\ srv.streams \in Seq(Stream) /\ srv.held \subseteq Option
  BY DEF TypeInv, ServerRecord
<1> QED
  BY <1>1, <1>2 DEF TypeInv, TypeOK

(* Clients and server only ever hold what the structures of the code can   *)
(* hold, and a client never connects more streams than it has, for any      *)
(* number of clients, any options and any number of faults.                 *)
THEOREM TypeCorrect == Spec => []TypeOK
<1>1. Init => TypeInv
  BY InitTypes
<1>2. TypeInv /\ [Next]_vars => TypeInv'
  BY StepTypes
<1> QED
  BY <1>1, <1>2, TypesFollow, PTL DEF Spec

-----------------------------------------------------------------------------
(* Options of an earlier test.  A test ends in iperf_reset_test, which puts *)
(* back all the options but two; until it has, nobody is served.            *)

LEMMA RestoredOrKept == Option = Restored \cup Kept
  BY DEF Option, Restored, Kept

LEMMA HeldStep == TypeInv /\ HeldInv /\ [Next]_vars => HeldInv'
<1> SUFFICES ASSUME TypeInv, HeldInv, [Next]_vars PROVE HeldInv'
  OBVIOUS
<1>0. srv \in ServerRecord
  BY DEF TypeInv
<1>14. setup' = setup
  <2>1. CASE ServerMove
    BY <2>1, ServerKeepsClients
  <2> QED
    BY <2>1, ClientMoveTypes DEF Next, ServerMove, ClientMove, vars
(* The options held and the client served stay, and so does the place in    *)
(* the loop unless the next one is not restricted either.                   *)
<1>1. ASSUME srv'.held = srv.held, srv'.ctrl = srv.ctrl,
             srv.ctrl = NULL =>
               \/ srv'.pc \in {"cleanup", "reset", "exited", "gone"}
               \/ srv.pc \notin {"cleanup", "reset", "exited", "gone"}
      PROVE  HeldInv'
  BY <1>1, <1>14 DEF HeldInv, Peer
<1>2. CASE UNCHANGED srv
  BY <1>1, <1>2
<1>3. CASE \E c \in Client : ClientMove(c)
  BY <1>2, <1>3, ClientMoveTypes
<1>4. CASE srv' = GiveUp
  <2>1. srv'.held = srv.held /\ srv'.ctrl = srv.ctrl /\ srv'.pc = "cleanup"
    BY <1>0, <1>4 DEF GiveUp, ServerRecord
  <2> QED
    BY <1>1, <2>1
<1>5. CASE Listen \/ ListenFails
  <2>1. /\ srv'.held = srv.held /\ srv'.ctrl = srv.ctrl
        /\ srv.pc \notin {"cleanup", "reset", "exited", "gone"}
    BY <1>0, <1>5 DEF Listen, ListenFails, ServerRecord
  <2> QED
    BY <1>1, <2>1
<1>6. CASE Accept
  <2>1. srv'.held = srv.held /\ srv'.ctrl # NULL
    <3> DEFINE conn == Head(backlog)
    <3>1. conn \in Connection
      BY <1>6 DEF Accept, TypeInv
    <3>2. conn # NULL
      BY <3>1 DEF Connection, NULL
    <3>3. \/ srv' = [srv EXCEPT !.pc = "cookie", !.ctrl = conn]
          \/ srv' = [srv EXCEPT !.pc = "params", !.ctrl = conn,
                                !.state = "PARAM_EXCHANGE"]
      BY <1>6 DEF Accept
    <3> HIDE DEF conn
    <3> QED
      BY <1>0, <3>2, <3>3 DEF ServerRecord
  <2>2. srv.held \subseteq Kept
    BY <1>6 DEF Accept, Serving, HeldInv
  <2> QED
    BY <2>1, <2>2 DEF HeldInv
<1>7. CASE ReadParams
  <2>1. srv'.held = srv.held \cup setup[Peer].asks /\ srv'.ctrl = srv.ctrl
    BY <1>0, <1>7 DEF ReadParams, Taken, ServerRecord
  <2>2. srv.ctrl # NULL
    BY <1>7 DEF ReadParams, Proper, Serving
  <2> QED
    BY <2>1, <2>2, <1>14 DEF HeldInv, Peer
<1>8. CASE ReadCookie \/ ReadResults \/ HandleEnd
  <2>1. /\ srv'.held = srv.held /\ srv'.ctrl = srv.ctrl
        /\ srv.pc \notin {"cleanup", "reset", "exited", "gone"}
    BY <1>0, <1>8 DEF ReadCookie, ReadResults, HandleEnd, ServerRecord
  <2> QED
    BY <1>1, <2>1
<1>9. CASE RelistenFails
  <2>1. srv' = [srv EXCEPT !.pc = "cleanup", !.state = "SERVER_ERROR"]
    BY <1>0, <1>9 DEF RelistenFails, GiveUp, ServerRecord
  <2>2. srv'.held = srv.held /\ srv'.ctrl = srv.ctrl /\ srv'.pc = "cleanup"
    BY <1>0, <2>1 DEF ServerRecord
  <2> QED
    BY <1>1, <2>2
<1>10. CASE AcceptStream
  <2>1. PICK streams : \/ srv' = [srv EXCEPT !.streams = streams]
                       \/ srv' = [srv EXCEPT !.state = "TEST_RUNNING",
                                             !.streams = streams,
                                             !.workers = TRUE, !.done = FALSE]
    BY <1>10 DEF AcceptStream, Starts
  <2>2. srv'.held = srv.held /\ srv'.ctrl = srv.ctrl
    BY <1>0, <2>1 DEF ServerRecord
  <2>3. srv.pc \notin {"cleanup", "reset", "exited", "gone"}
    BY <1>10 DEF AcceptStream
  <2> QED
    BY <1>1, <2>2, <2>3
<1>11. CASE HandleDone
  <2>1. PICK state : srv' = [GiveUp EXCEPT !.state = state]
    BY <1>11 DEF HandleDone
  <2>2. srv'.held = srv.held /\ srv'.ctrl = srv.ctrl /\ srv'.pc = "cleanup"
    BY <1>0, <2>1 DEF GiveUp, ServerRecord
  <2> QED
    BY <1>1, <2>2
<1>12. CASE GraceEnds \/ Cleanup \/ Killed \/ ServerVanishes
  <2>1. srv'.ctrl = NULL /\ srv'.pc \in {"cleanup", "reset", "exited", "gone"}
    BY <1>0, <1>12 DEF GraceEnds, GiveUp, Cleanup, Killed, ServerVanishes, ServerRecord
  <2> QED
    BY <2>1 DEF HeldInv
<1>13. CASE Reset
  <2>1. srv'.held = srv.held \ Restored /\ srv'.ctrl = srv.ctrl
    BY <1>0, <1>13 DEF Reset, ResetTest, ServerRecord
  <2>2. srv.held \subseteq Option
    BY <1>0 DEF ServerRecord
  <2>3. srv'.held \subseteq Kept
    BY <2>1, <2>2, RestoredOrKept
  <2> QED
    BY <2>1, <2>3 DEF HeldInv
<1> QED
  BY <1>2, <1>3, <1>4, <1>5, <1>6, <1>7, <1>8, <1>9, <1>10, <1>11, <1>12, <1>13
  DEF Next, ClientMove, ServerStep, Deny, AcceptStranger, Handle, Read, ReadTimesOut,
      ReadGarbled, TimeOut, ReceiveTimesOut, NewStreamFails, AcceptFails, IdleRestart,
      vars

(* A test runs with the options its own client asked for, and the two that *)
(* iperf_reset_test does not put back: however many tests, strangers, stops *)
(* and failures the server has been through.                                *)
THEOREM OptionsOfThisClient == Spec => []HeldIsAsked
<1>1. Init => TypeInv /\ HeldInv
  BY InitTypes
<1>2. TypeInv /\ HeldInv /\ [Next]_vars => TypeInv' /\ HeldInv'
  BY StepTypes, HeldStep
<1>3. HeldInv => HeldIsAsked
  BY DEF HeldInv, HeldIsAsked, Proper, Serving, Kept
<1> QED
  BY <1>1, <1>2, <1>3, PTL DEF Spec

-----------------------------------------------------------------------------
(* Who says it is done.  DISPLAY_RESULTS is on its way only to a client the *)
(* server has exchanged results with, and nothing else but a Stop sets      *)
(* IPERF_DONE in a client.                                                  *)

Byte == State \cup {"len", "json", "errno"}
Without(q) == \A i \in 1..Len(q) : q[i] # "DISPLAY_RESULTS"

DoneOf(r, q) ==
    r.finished \/ /\ Without(q)
                  /\ r.state = "IPERF_DONE" \/ r.outcome = "done" => r.stopped

DoneInv ==
    /\ s2c \in [Client -> Seq(Byte)]
    /\ \A c \in Client : DoneOf(cl[c], s2c[c])

LEMMA ServerBytes ==
    /\ <<"PARAM_EXCHANGE">> \in Seq(Byte) /\ Without(<<"PARAM_EXCHANGE">>)
    /\ <<"CREATE_STREAMS">> \in Seq(Byte) /\ Without(<<"CREATE_STREAMS">>)
    /\ <<"EXCHANGE_RESULTS">> \in Seq(Byte) /\ Without(<<"EXCHANGE_RESULTS">>)
    /\ <<"ACCESS_DENIED">> \in Seq(Byte) /\ Without(<<"ACCESS_DENIED">>)
    /\ <<"SERVER_TERMINATE">> \in Seq(Byte) /\ Without(<<"SERVER_TERMINATE">>)
    /\ <<"TEST_START", "TEST_RUNNING">> \in Seq(Byte)
    /\ Without(<<"TEST_START", "TEST_RUNNING">>)
    /\ <<"SERVER_ERROR", "errno">> \in Seq(Byte)
    /\ Without(<<"SERVER_ERROR", "errno">>)
    /\ <<"len", "json", "DISPLAY_RESULTS">> \in Seq(Byte)
  BY DEF Byte, State, Announcement, Refusal, Without

(* Reading from the front and throwing away brings no DISPLAY_RESULTS. *)
LEMMA Shorter ==
    ASSUME NEW q \in Seq(Byte)
    PROVE  /\ <<>> \in Seq(Byte) /\ Without(<<>>)
           /\ q # <<>> => Tail(q) \in Seq(Byte) /\ (Without(q) => Without(Tail(q)))
           /\ Len(q) >= 2 => /\ SubSeq(q, 3, Len(q)) \in Seq(Byte)
                             /\ Without(q) => Without(SubSeq(q, 3, Len(q)))
<1>1. <<>> \in Seq(Byte) /\ Without(<<>>)
  BY DEF Without
<1>2. q # <<>> => Tail(q) \in Seq(Byte) /\ (Without(q) => Without(Tail(q)))
  BY DEF Without
<1>3. ASSUME Len(q) >= 2
      PROVE  /\ SubSeq(q, 3, Len(q)) \in Seq(Byte)
             /\ Without(q) => Without(SubSeq(q, 3, Len(q)))
  BY <1>3 DEF Without
<1> QED
  BY <1>1, <1>2, <1>3

LEMMA Longer ==
    ASSUME NEW q \in Seq(Byte), NEW bytes \in Seq(Byte)
    PROVE  /\ q \o bytes \in Seq(Byte)
           /\ Without(q) /\ Without(bytes) => Without(q \o bytes)
<1>1. q \o bytes \in Seq(Byte)
  OBVIOUS
<1>2. ASSUME Without(q), Without(bytes), NEW i \in 1..Len(q \o bytes)
      PROVE  (q \o bytes)[i] # "DISPLAY_RESULTS"
  <2>1. CASE i <= Len(q)
    BY <1>2, <2>1 DEF Without
  <2>2. CASE i > Len(q)
    <3>1. (q \o bytes)[i] = bytes[i - Len(q)] /\ i - Len(q) \in 1..Len(bytes)
      BY <2>2
    <3> QED
      BY <1>2, <3>1 DEF Without
  <2> QED
    BY <2>1, <2>2
<1> QED
  BY <1>1, <1>2 DEF Without

LEMMA InitDone == Init => DoneInv
<1> SUFFICES ASSUME Init PROVE DoneInv
  OBVIOUS
<1>1. <<>> \in Seq(Byte) /\ Without(<<>>)
  BY DEF Without
<1> QED
  BY <1>1 DEF Init, DoneInv, DoneOf

(* A client changes its record and reads what has come for it. *)
LEMMA OneDone ==
    ASSUME TypeInv, DoneInv, NEW c \in Client, NEW r, NEW q \in Seq(Byte),
           cl' = [cl EXCEPT ![c] = r], s2c' = [s2c EXCEPT ![c] = q],
           DoneOf(r, q)
    PROVE  DoneInv'
<1>1. cl \in [Client -> ClientRecord]
  BY DEF TypeInv, ClientTypes
<1>2. s2c' \in [Client -> Seq(Byte)]
  BY DEF DoneInv
<1>3. ASSUME NEW d \in Client PROVE DoneOf(cl'[d], s2c'[d])
  BY <1>1 DEF DoneInv
<1> QED
  BY <1>2, <1>3 DEF DoneInv

(* The record of a client after a step that neither finishes nor stops it *)
Follows(r, old) ==
    /\ r.finished = old.finished /\ r.stopped = old.stopped
    /\ r.state = "IPERF_DONE" => old.state = "IPERF_DONE"
    /\ r.outcome = "done" => old.outcome = "done" \/ old.state = "IPERF_DONE"

LEMMA OverBackFollow ==
    ASSUME NEW r \in ClientRecord
    PROVE  /\ Follows(Over(r, "failed"), r) /\ Follows(Back(r), r)
           /\ Over(r, "failed") \in ClientRecord /\ Over(r, "done") \in ClientRecord
<1>1. /\ Over(r, "failed") \in ClientRecord /\ Over(r, "done") \in ClientRecord
  BY OverBack
<1>2. Follows(Over(r, "failed"), r)
  BY DEF Follows, Over, ClientRecord
<1>3. CASE r.state = "IPERF_DONE"
  <2>1. Back(r) = Over(r, "done")
    BY <1>3 DEF Back
  <2>2. Follows(Over(r, "done"), r)
    BY <1>3 DEF Follows, Over, ClientRecord
  <2> QED
    BY <1>1, <1>2, <2>1, <2>2
<1>4. CASE r.state # "IPERF_DONE"
  <2>1. Back(r) = [r EXCEPT !.pc = "select"]
    BY <1>4 DEF Back
  <2>2. Follows([r EXCEPT !.pc = "select"], r)
    BY <1>4 DEF Follows, ClientRecord
  <2> QED
    BY <1>1, <1>2, <2>1, <2>2
<1> QED
  BY <1>3, <1>4

LEMMA KeepDone ==
    ASSUME TypeInv, DoneInv, NEW c \in Client, NEW r, Follows(r, cl[c]),
           cl' = [cl EXCEPT ![c] = r],
           \/ UNCHANGED s2c
           \/ s2c' = [s2c EXCEPT ![c] = <<>>]
           \/ s2c[c] # <<>> /\ s2c' = [s2c EXCEPT ![c] = Tail(s2c[c])]
           \/ /\ Len(s2c[c]) >= 2
              /\ s2c' = [s2c EXCEPT ![c] = SubSeq(s2c[c], 3, Len(s2c[c]))]
    PROVE  DoneInv'
<1>1. s2c[c] \in Seq(Byte) /\ s2c \in [Client -> Seq(Byte)]
  BY DEF DoneInv
<1>2. \E q \in Seq(Byte) : /\ s2c' = [s2c EXCEPT ![c] = q]
                           /\ Without(s2c[c]) => Without(q)
  <2>1. s2c = [s2c EXCEPT ![c] = s2c[c]]
    BY <1>1
  <2> QED
    BY <1>1, <2>1, Shorter
<1>3. PICK q \in Seq(Byte) : /\ s2c' = [s2c EXCEPT ![c] = q]
                             /\ Without(s2c[c]) => Without(q)
  BY <1>2
<1>4. DoneOf(r, q)
  BY <1>3 DEF DoneInv, DoneOf, Follows
<1> QED
  BY <1>3, <1>4, OneDone

LEMMA FailsDone ==
    ASSUME TypeInv, DoneInv, NEW c \in Client, NEW state,
           state # "IPERF_DONE" \/ state = cl[c].state, Fails(c, state)
    PROVE  DoneInv'
<1> DEFINE q == Over(cl[c], "failed")
           r == [q EXCEPT !.state = state, !.closed = TRUE]
<1>1. cl[c] \in ClientRecord
  BY DEF TypeInv, ClientTypes
<1>2. q \in ClientRecord /\ Follows(q, cl[c])
  BY <1>1, OverBackFollow
<1>3. cl' = [cl EXCEPT ![c] = r] /\ s2c' = [s2c EXCEPT ![c] = <<>>]
  BY DEF Fails
<1> HIDE DEF q
<1>4. Follows(r, cl[c])
  BY <1>2 DEF Follows, ClientRecord
<1> QED
  BY <1>3, <1>4, KeepDone

LEMMA ClientDone ==
    ASSUME TypeInv, DoneInv, NEW c \in Client,
           ClientMove(c)
    PROVE  DoneInv'
<1>0. cl[c] \in ClientRecord /\ s2c[c] \in Seq(Byte)
  BY DEF TypeInv, ClientTypes, DoneInv
<1>1. CASE SendCookie(c) \/ WakeUp(c)
  <2>1. cl' = [cl EXCEPT ![c] = Back(cl[c])] /\ UNCHANGED s2c
    BY <1>1 DEF SendCookie, WakeUp
  <2> QED
    BY <1>0, <2>1, OverBackFollow, KeepDone
<1>2. CASE Receive(c)
  <2> DEFINE m == Head(s2c[c])
  <2>1. PICK pc \in ClientPc, armed \in BOOLEAN :
          cl' = [cl EXCEPT ![c] =
                   [cl[c] EXCEPT !.state = m, !.pc = pc, !.armed = armed]]
    <3> DEFINE q == [cl[c] EXCEPT !.state = m]
               To(pc, armed) ==
                 [cl[c] EXCEPT !.state = m, !.pc = pc, !.armed = armed]
    <3>1. cl' = [cl EXCEPT ![c] =
                   CASE m = "PARAM_EXCHANGE" -> [q EXCEPT !.pc = "params"]
                     [] m = "CREATE_STREAMS" -> [q EXCEPT !.pc = "streams"]
                     [] m = "EXCHANGE_RESULTS" -> [q EXCEPT !.pc = "results"]
                     [] m = "TEST_START" -> [q EXCEPT !.armed = TRUE]
                     [] OTHER -> q]
      BY <1>2 DEF Receive
    <3> HIDE DEF m
    <3>2. /\ [q EXCEPT !.pc = "params"] = To("params", cl[c].armed)
          /\ [q EXCEPT !.pc = "streams"] = To("streams", cl[c].armed)
          /\ [q EXCEPT !.pc = "results"] = To("results", cl[c].armed)
          /\ [q EXCEPT !.armed = TRUE] = To(cl[c].pc, TRUE)
          /\ q = To(cl[c].pc, cl[c].armed)
      BY <1>0 DEF ClientRecord
    <3>3. \E pc \in ClientPc, armed \in BOOLEAN :
            cl' = [cl EXCEPT ![c] = To(pc, armed)]
      <4>1. /\ cl[c].pc \in ClientPc /\ cl[c].armed \in BOOLEAN
            /\ {"params", "streams", "results"} \subseteq ClientPc
        BY <1>0 DEF ClientRecord, ClientPc
      <4> HIDE DEF q, To
      <4> QED
        BY <3>1, <3>2, <4>1
    <3> QED
      BY <3>3
  <2> DEFINE r == [cl[c] EXCEPT !.state = m, !.pc = pc, !.armed = armed]
  <2>2. m # "IPERF_DONE" /\ s2c[c] # <<>>
        /\ s2c' = [s2c EXCEPT ![c] = Tail(s2c[c])]
    BY <1>2 DEF Receive, Announcement
  <2> HIDE DEF m
  <2>3. Follows(r, cl[c])
    BY <1>0, <2>2 DEF Follows, ClientRecord
  <2> HIDE DEF r
  <2> QED
    BY <2>1, <2>2, <2>3, KeepDone DEF r
<1>3. CASE Finish(c)
  <2>1. cl[c].finished
    <3>1. s2c[c] # <<>> /\ s2c[c][1] = "DISPLAY_RESULTS"
      BY <1>0, <1>3 DEF Finish
    <3>2. ~Without(s2c[c])
      BY <1>0, <3>1 DEF Without
    <3> QED
      BY <3>2 DEF DoneInv, DoneOf
  <2> DEFINE q == Over(cl[c], "done")
             r == [q EXCEPT !.state = "IPERF_DONE", !.closed = TRUE]
  <2>2. cl' = [cl EXCEPT ![c] = r] /\ s2c' = [s2c EXCEPT ![c] = <<>>]
    BY <1>3 DEF Finish
  <2>3. q \in ClientRecord /\ q.finished = cl[c].finished
    BY <1>0, OverBackFollow DEF Over, ClientRecord
  <2> HIDE DEF q
  <2>4. r.finished
    BY <2>1, <2>3 DEF ClientRecord
  <2>5. DoneOf(r, <<>>)
    BY <2>4 DEF DoneOf
  <2>6. <<>> \in Seq(Byte)
    OBVIOUS
  <2> HIDE DEF r
  <2> QED
    BY <2>2, <2>5, <2>6, OneDone
<1>4. CASE Refused(c)
  <2>1. Head(s2c[c]) # "IPERF_DONE" /\ Fails(c, Head(s2c[c]))
    BY <1>4 DEF Refused, Refusal
  <2> QED
    BY <2>1, FailsDone
<1>5. CASE StreamRefused(c) \/ LinkLost(c) \/ GivesUp(c)
  BY <1>5, FailsDone DEF StreamRefused, LinkLost, GivesUp
<1>6. CASE SendLength(c) \/ Expire(c)
  <2>1. PICK pc : cl' = [cl EXCEPT ![c] = [cl[c] EXCEPT !.pc = pc]]
    BY <1>6 DEF SendLength, Expire
  <2>2. Follows([cl[c] EXCEPT !.pc = pc], cl[c]) /\ UNCHANGED s2c
    BY <1>0, <1>6 DEF Follows, ClientRecord, SendLength, Expire
  <2> QED
    BY <2>1, <2>2, KeepDone
<1>7. CASE SendBody(c)
  <2>1. \/ cl' = [cl EXCEPT ![c] = Back(cl[c])]
        \/ cl' = [cl EXCEPT ![c] = [cl[c] EXCEPT !.pc = "getResults"]]
    BY <1>7 DEF SendBody
  <2>2. Follows([cl[c] EXCEPT !.pc = "getResults"], cl[c]) /\ UNCHANGED s2c
    BY <1>0, <1>7 DEF Follows, ClientRecord, SendBody
  <2> QED
    BY <1>0, <2>1, <2>2, OverBackFollow, KeepDone
<1>8. CASE ConnectStream(c)
  <2>1. \/ cl' = [cl EXCEPT ![c] = Back(cl[c])]
        \/ cl' = [cl EXCEPT ![c] = [cl[c] EXCEPT !.next = cl[c].next + 1]]
    BY <1>8 DEF ConnectStream
  <2>2. Follows([cl[c] EXCEPT !.next = cl[c].next + 1], cl[c]) /\ UNCHANGED s2c
    BY <1>0, <1>8 DEF Follows, ClientRecord, ConnectStream
  <2> QED
    BY <1>0, <2>1, <2>2, OverBackFollow, KeepDone
<1>9. CASE SendEnd(c)
  <2> DEFINE r == [cl[c] EXCEPT !.pc = "select", !.state = "TEST_END"]
  <2>1. cl' = [cl EXCEPT ![c] = r] /\ UNCHANGED s2c
    BY <1>9 DEF SendEnd
  <2>2. Follows(r, cl[c])
    BY <1>0 DEF Follows, ClientRecord
  <2> QED
    BY <2>1, <2>2, KeepDone
<1>10. CASE GetResults(c)
  <2>1. /\ cl' = [cl EXCEPT ![c] = Back(cl[c])] /\ Len(s2c[c]) >= 2
        /\ s2c' = [s2c EXCEPT ![c] = SubSeq(s2c[c], 3, Len(s2c[c]))]
    BY <1>10 DEF GetResults, Framed
  <2> QED
    BY <1>0, <2>1, OverBackFollow, KeepDone
<1>11. CASE Dial(c)
  <2>1. \/ cl' = [cl EXCEPT ![c] = [cl[c] EXCEPT !.pc = "cookie"]]
        \/ cl' = [cl EXCEPT ![c] = Over(cl[c], "failed")]
    BY <1>11 DEF Dial
  <2>2. Follows([cl[c] EXCEPT !.pc = "cookie"], cl[c]) /\ UNCHANGED s2c
    BY <1>0, <1>11 DEF Follows, ClientRecord, Dial
  <2> QED
    BY <1>0, <2>1, <2>2, OverBackFollow, KeepDone
<1>12. CASE Stop(c)
  <2> DEFINE r == [cl[c] EXCEPT !.stopped = TRUE, !.trouble = TRUE,
                                !.state = "IPERF_DONE"]
  <2>1. cl' = [cl EXCEPT ![c] = r] /\ UNCHANGED s2c
    BY <1>12 DEF Stop
  <2>2. r.stopped /\ r.finished = cl[c].finished
    BY <1>0 DEF ClientRecord
  <2>3. s2c' = [s2c EXCEPT ![c] = s2c[c]]
    BY <2>1 DEF DoneInv
  <2>4. DoneOf(r, s2c[c])
    BY <2>2 DEF DoneInv, DoneOf
  <2> HIDE DEF r
  <2> QED
    BY <1>0, <2>1, <2>3, <2>4, OneDone
<1>13. CASE Terminate(c)
  <2> DEFINE q == Over(cl[c], "failed")
             r == [q EXCEPT !.trouble = TRUE, !.closed = TRUE,
                            !.state = "CLIENT_TERMINATE"]
  <2>1. cl' = [cl EXCEPT ![c] = r] /\ s2c' = [s2c EXCEPT ![c] = <<>>]
    BY <1>13 DEF Terminate
  <2>2. q \in ClientRecord /\ Follows(q, cl[c])
    BY <1>0, OverBackFollow
  <2> HIDE DEF q
  <2>3. Follows(r, cl[c])
    BY <2>2 DEF Follows, ClientRecord
  <2> QED
    BY <2>1, <2>3, KeepDone
<1>14. CASE Vanish(c)
  <2> DEFINE q == Over(cl[c], "failed")
             r == [q EXCEPT !.trouble = TRUE]
  <2>1. cl' = [cl EXCEPT ![c] = r] /\ UNCHANGED s2c
    BY <1>14 DEF Vanish
  <2>2. q \in ClientRecord /\ Follows(q, cl[c])
    BY <1>0, OverBackFollow
  <2> HIDE DEF q
  <2>3. Follows(r, cl[c])
    BY <2>2 DEF Follows, ClientRecord
  <2> QED
    BY <2>1, <2>3, KeepDone
<1>15. CASE TimesOut(c)
  <2> DEFINE q == Over(cl[c], "failed")
             r == [q EXCEPT !.trouble = TRUE, !.closed = TRUE]
  <2>1. cl' = [cl EXCEPT ![c] = r] /\ s2c' = [s2c EXCEPT ![c] = <<>>]
    BY <1>15 DEF TimesOut
  <2>2. q \in ClientRecord /\ Follows(q, cl[c])
    BY <1>0, OverBackFollow
  <2> HIDE DEF q
  <2>3. Follows(r, cl[c])
    BY <2>2 DEF Follows, ClientRecord
  <2> QED
    BY <2>1, <2>3, KeepDone
<1> QED
  BY <1>1, <1>2, <1>3, <1>4, <1>5, <1>6, <1>7, <1>8, <1>9, <1>10, <1>11, <1>12,
     <1>13, <1>14, <1>15 DEF ClientMove, ClientStep

(* A mark in a client's history: nothing is lost of what it was and did. *)
Marked ==
    \A c \in Client :
      /\ cl'[c].state = cl[c].state /\ cl'[c].outcome = cl[c].outcome
      /\ cl'[c].stopped = cl[c].stopped /\ (cl[c].finished => cl'[c].finished)

LEMMA MarkIsMarked ==
    ASSUME TypeInv, NEW p,
           \/ UNCHANGED cl
           \/ cl' = [cl EXCEPT ![p].trouble = TRUE]
           \/ cl' = [cl EXCEPT ![p].crossed = TRUE]
           \/ cl' = [cl EXCEPT ![p].accepted = TRUE]
           \/ cl' = [cl EXCEPT ![p].finished = TRUE]
    PROVE  Marked
<1>0. cl \in [Client -> ClientRecord]
  BY DEF TypeInv, ClientTypes
<1>1. ASSUME NEW c \in Client
      PROVE  /\ cl'[c].state = cl[c].state /\ cl'[c].outcome = cl[c].outcome
             /\ cl'[c].stopped = cl[c].stopped
             /\ (cl[c].finished => cl'[c].finished)
  <2>1. \/ cl'[c] = cl[c]
        \/ cl'[c] = [cl[c] EXCEPT !.trouble = TRUE]
        \/ cl'[c] = [cl[c] EXCEPT !.crossed = TRUE]
        \/ cl'[c] = [cl[c] EXCEPT !.accepted = TRUE]
        \/ cl'[c] = [cl[c] EXCEPT !.finished = TRUE]
    BY <1>0
  <2>2. cl[c] \in ClientRecord
    BY <1>0
  <2> QED
    BY <2>1, <2>2 DEF ClientRecord
<1> QED
  BY <1>1 DEF Marked

(* What the server sends: no DISPLAY_RESULTS, or to a client that finished. *)
LEMMA ToClientDone ==
    ASSUME TypeInv, DoneInv, NEW p, NEW bytes \in Seq(Byte), ToClient(p, bytes),
           Marked, Without(bytes) \/ (p \in Client => cl'[p].finished)
    PROVE  DoneInv'
<1>0. s2c \in [Client -> Seq(Byte)]
  BY DEF DoneInv
<1>1. ASSUME NEW c \in Client
      PROVE  s2c'[c] \in Seq(Byte) /\ DoneOf(cl'[c], s2c'[c])
  <2>1. s2c'[c] = s2c[c] \/ (c = p /\ s2c'[c] = s2c[c] \o bytes)
    BY <1>0 DEF ToClient
  <2>2. s2c[c] \in Seq(Byte)
    BY <1>0
  <2>3. s2c'[c] \in Seq(Byte)
    BY <2>1, <2>2, Longer
  <2>4. Without(s2c[c]) /\ ~cl'[c].finished => Without(s2c'[c])
    BY <2>1, <2>2, Longer
  <2>5. DoneOf(cl[c], s2c[c])
    BY DEF DoneInv
  <2>6. /\ cl'[c].state = cl[c].state /\ cl'[c].outcome = cl[c].outcome
        /\ cl'[c].stopped = cl[c].stopped /\ (cl[c].finished => cl'[c].finished)
    BY DEF Marked
  <2> QED
    BY <2>3, <2>4, <2>5, <2>6 DEF DoneOf
<1>2. s2c' \in [Client -> Seq(Byte)]
  <2>1. s2c' = [c \in Client |-> s2c'[c]]
    BY <1>0 DEF ToClient
  <2> QED
    BY <1>1, <2>1
<1> QED
  BY <1>1, <1>2 DEF DoneInv

LEMMA SilentDone ==
    ASSUME TypeInv, DoneInv, Marked, UNCHANGED s2c
    PROVE  DoneInv'
<1>1. ASSUME NEW c \in Client PROVE DoneOf(cl'[c], s2c'[c])
  BY DEF DoneInv, DoneOf, Marked
<1> QED
  BY <1>1 DEF DoneInv

LEMMA ServerDone ==
    ASSUME TypeInv, DoneInv, ServerMove
    PROVE  DoneInv'
<1>1. CASE Accept
  <2>1. Marked
    BY <1>1, MarkIsMarked DEF Accept
  <2> QED
    BY <1>1, <2>1, SilentDone DEF Accept
<1>2. CASE Deny \/ AcceptStranger
  <2>1. Marked
    BY <1>2, MarkIsMarked DEF Deny, AcceptStranger
  <2>2. UNCHANGED s2c \/ \E p : ToClient(p, <<"ACCESS_DENIED">>)
    BY <1>2 DEF Deny, AcceptStranger
  <2> QED
    BY <2>1, <2>2, SilentDone, ToClientDone, ServerBytes
<1>3. CASE ReadCookie
  <2>1. Marked /\ ToClient(Peer, <<"PARAM_EXCHANGE">>)
    BY <1>3, MarkIsMarked DEF ReadCookie
  <2> QED
    BY <2>1, ToClientDone, ServerBytes
<1>4. CASE ReadParams
  <2>1. Marked /\ ToClient(Peer, <<"CREATE_STREAMS">>)
    BY <1>4, MarkIsMarked DEF ReadParams
  <2> QED
    BY <2>1, ToClientDone, ServerBytes
<1>5. CASE RelistenFails
  <2>1. Marked /\ ToClient(Peer, <<"SERVER_ERROR", "errno">>)
    BY <1>5, MarkIsMarked DEF RelistenFails
  <2> QED
    BY <2>1, ToClientDone, ServerBytes
<1>6. CASE AcceptStream
  <2>1. Marked
    BY <1>6, MarkIsMarked DEF AcceptStream
  <2>2. UNCHANGED s2c \/ ToClient(Peer, <<"TEST_START", "TEST_RUNNING">>)
    BY <1>6 DEF AcceptStream, Starts
  <2> QED
    BY <2>1, <2>2, SilentDone, ToClientDone, ServerBytes
<1>7. CASE HandleEnd
  <2>1. Marked /\ ToClient(Peer, <<"EXCHANGE_RESULTS">>)
    BY <1>7, MarkIsMarked DEF HandleEnd
  <2> QED
    BY <2>1, ToClientDone, ServerBytes
<1>8. CASE ReadResults
  <2>1. /\ cl' = [cl EXCEPT ![Peer].finished = TRUE]
        /\ ToClient(Peer, <<"len", "json", "DISPLAY_RESULTS">>)
    BY <1>8 DEF ReadResults
  <2>2. Marked
    BY <2>1, MarkIsMarked
  <2>3. Peer \in Client => cl'[Peer].finished
    <3>1. cl \in [Client -> ClientRecord]
      BY DEF TypeInv, ClientTypes
    <3>2. \A r \in ClientRecord : [r EXCEPT !.finished = TRUE].finished
      BY DEF ClientRecord
    <3> QED
      BY <2>1, <3>1, <3>2
  <2> QED
    BY <2>1, <2>2, <2>3, ToClientDone, ServerBytes
<1>9. CASE Killed
  <2>1. Marked
    BY <1>9, MarkIsMarked DEF Killed
  <2>2. UNCHANGED s2c \/ ToClient(Peer, <<"SERVER_TERMINATE">>)
    BY <1>9 DEF Killed
  <2> QED
    BY <2>1, <2>2, SilentDone, ToClientDone, ServerBytes
<1>10. CASE UNCHANGED s2c /\ (NewStreamFails \/ AcceptFails)
  <2>1. Marked
    BY <1>10, MarkIsMarked DEF NewStreamFails, AcceptFails
  <2> QED
    BY <1>10, <2>1, SilentDone
<1>11. CASE UNCHANGED s2c /\ (Late \/ UNCHANGED cl)
  <2>1. UNCHANGED cl \/ cl' = [cl EXCEPT ![Peer].trouble = TRUE]
    BY <1>11 DEF Late
  <2>2. Marked
    BY <2>1, MarkIsMarked
  <2> QED
    BY <1>11, <2>2, SilentDone
<1> QED
  BY <1>1, <1>2, <1>3, <1>4, <1>5, <1>6, <1>7, <1>8, <1>9, <1>10, <1>11
  DEF ServerMove, ServerStep, Listen, Handle, HandleDone, Read, ReadTimesOut,
      ReadGarbled, TimeOut, ReceiveTimesOut, GraceEnds, Cleanup, Reset,
      ListenFails, NewStreamFails, AcceptFails, IdleRestart, ServerVanishes

LEMMA DoneStep == TypeInv /\ DoneInv /\ [Next]_vars => DoneInv'
<1> SUFFICES ASSUME TypeInv, DoneInv, [Next]_vars PROVE DoneInv'
  OBVIOUS
<1>1. CASE UNCHANGED vars
  BY <1>1 DEF vars, DoneInv
<1>2. CASE Next
  BY <1>2, ClientDone, ServerDone DEF Next, ServerMove, ClientMove
<1> QED
  BY <1>1, <1>2

(* A client that reports success without having been stopped has exchanged *)
(* results with the server in full: whatever is lost, late or refused.      *)
THEOREM DoneMeansFinished == Spec => []DoneIsFinished
<1>1. Init => TypeInv /\ DoneInv
  BY InitTypes, InitDone
<1>2. TypeInv /\ DoneInv /\ [Next]_vars => TypeInv' /\ DoneInv'
  BY StepTypes, DoneStep
<1>3. DoneInv => DoneIsFinished
  BY DEF DoneInv, DoneOf, DoneIsFinished
<1> QED
  BY <1>1, <1>2, <1>3, PTL DEF Spec
=============================================================================
