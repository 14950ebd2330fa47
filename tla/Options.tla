------------------------------ MODULE Options ------------------------------
(***************************************************************************)
(* iperf_parse_arguments (iperf_api.c): the loop over getopt_long takes    *)
(* the options in the order they are written, each setting fields, flags   *)
(* and, for some, checking what earlier options have set; the checks that  *)
(* need all options come after the loop.  An option stands for those that  *)
(* are handled alike, an argument for its class (in range or not).  The    *)
(* build has no SCTP, SSL, MSG_TRUNC, sendfile or SO_BINDTODEVICE.         *)
(***************************************************************************)
EXTENDS Integers, FiniteSets, FiniteSetsExt

CONSTANT MaxOptions \* bound: options on a command line

ASSUME OptionsAssumption == MaxOptions \in Nat

\* Handled by the library for any role, for a server, and for a client
AnyRole == {"port", "file", "logfile", "json"}
ServerOnly == {"daemon", "bitrateLimit"}
ClientOnly == {"udp", "rate", "time", "bytes", "blocks", "tinyLength", "hugeLength",
               "parallel", "reverse", "bidir"}
\* An argument out of range, an option of another build, a host with a device
Refused == {"outOfRange", "unsupported", "clientOnDevice"}
AllOptions == {"client", "server"} \cup AnyRole \cup ServerOnly \cup ClientOnly \cup Refused

VARIABLES
    optGiven,   \* the command line, {} before there is one
    optLeft,    \* what getopt_long has still to return
    optTest,    \* fields of struct iperf_test that options set
    optFlags,   \* client_flag, server_flag, rate_flag, duration_flag
    optVerdict  \* "none", "parsing", "accepted" or "refused"

optVars == <<optGiven, optLeft, optTest, optFlags, optVerdict>>

(* iperf_defaults, as far as the options below go *)
Defaults ==
    [role |-> "none", reverse |-> FALSE, bidirectional |-> FALSE, mode |-> "unset",
     udp |-> FALSE, retransmits |-> TRUE, duration |-> "default", bytes |-> "none",
     blocks |-> "none", length |-> "default", rate |-> "unset", file |-> FALSE]

OptionsInit ==
    /\ optGiven = {} /\ optLeft = {} /\ optTest = Defaults /\ optFlags = {}
    /\ optVerdict = "none"

CommandLine ==
    /\ optVerdict = "none"
    /\ \E given \in UNION {kSubset(k, AllOptions) : k \in 1..MaxOptions} :
          optGiven' = given /\ optLeft' = given
    /\ optVerdict' = "parsing"
    /\ UNCHANGED <<optTest, optFlags>>

-----------------------------------------------------------------------------
(* check_sender_has_retransmits, on a kernel that counts them *)
CheckRetransmits(test) ==
    [test EXCEPT !.retransmits = test.mode # "RECEIVER" /\ ~test.udp]

DirectionOf(role, mode) ==
    CASE role = "client" -> "RECEIVER"
      [] role = "server" -> "SENDER"
      [] OTHER -> mode

Opposite(role, mode) ==
    CASE role = "client" -> "SENDER"
      [] role = "server" -> "RECEIVER"
      [] OTHER -> mode

(* Mutant: a --reverse or --bidir before the role is forgotten. *)
SetRoleAnew(test, role) ==
    CheckRetransmits([test EXCEPT !.role = role, !.mode = Opposite(role, @)])

(* iperf_set_test_role *)
SetRole(test, role) ==
    LET mode == IF test.reverse THEN DirectionOf(role, test.mode)
                ELSE IF test.bidirectional THEN "BIDIRECTIONAL"
                ELSE Opposite(role, test.mode)
    IN  CheckRetransmits([test EXCEPT !.role = role, !.mode = mode])

(* iperf_set_test_reverse(test, 1) *)
SetReverse(test) ==
    CheckRetransmits([test EXCEPT !.reverse = TRUE, !.mode = DirectionOf(test.role, @)])

(* iperf_set_test_bidirectional(test, 1) does not look at the retransmits *)
SetBidirectional(test) ==
    [test EXCEPT !.bidirectional = TRUE, !.mode = "BIDIRECTIONAL"]

(* The cases of the switch that return -1 while options are being read *)
RefusedAtOnce(o) ==
    \/ o \in Refused
    \/ o = "server" /\ optTest.role = "client"
    \/ o = "client" /\ optTest.role = "server"
    \/ o = "reverse" /\ optTest.bidirectional
    \/ o = "bidir" /\ optTest.reverse

Apply(test, o) ==
    CASE o \in {"client", "server"} -> SetRole(test, o)
      [] o = "reverse"              -> SetReverse(test)
      [] o = "bidir"                -> SetBidirectional(test)
      [] o = "udp"                  -> CheckRetransmits([test EXCEPT !.udp = TRUE])
      [] o = "time"                 -> [test EXCEPT !.duration = "given"]
      [] o = "bytes"                -> [test EXCEPT !.bytes = "given"]
      [] o = "blocks"               -> [test EXCEPT !.blocks = "given"]
      [] o = "tinyLength"           -> [test EXCEPT !.length = "tiny"]
      [] o = "hugeLength"           -> [test EXCEPT !.length = "huge"]
      [] o = "rate"                 -> [test EXCEPT !.rate = "given"]
      [] o = "file"                 -> [test EXCEPT !.file = TRUE]
      [] OTHER                      -> test

FlagsOf(o) ==
    (IF o \in ClientOnly THEN {"client"} ELSE {}) \cup
    (IF o \in ServerOnly THEN {"server"} ELSE {}) \cup ({o} \cap {"rate", "time"})

ReadOption ==
    /\ optVerdict = "parsing"
    /\ \E o \in optLeft :
          IF RefusedAtOnce(o)
          THEN optVerdict' = "refused" /\ UNCHANGED <<optLeft, optTest, optFlags>>
          ELSE /\ optLeft' = optLeft \ {o}
               /\ optTest' = Apply(optTest, o)
               /\ optFlags' = optFlags \cup FlagsOf(o)
               /\ UNCHANGED optVerdict
    /\ UNCHANGED optGiven

-----------------------------------------------------------------------------
RoleMismatch ==
    \/ optTest.role = "client" /\ "server" \in optFlags
    \/ optTest.role = "server" /\ "client" \in optFlags

(* A UDP length may be 16 to 65507, a TCP length 1 to 1 MByte; "tiny" is    *)
(* below and "huge" above what UDP takes.                                   *)
LengthMismatch == optTest.udp /\ optTest.length \in {"tiny", "huge"}

(* Without an end condition, a client that sends a file stops at its end;   *)
(* stat() may fail, then the duration remains.                              *)
WithFileSize(found) ==
    IF /\ optTest.bytes = "none" /\ optTest.blocks = "none" /\ "time" \notin optFlags
       /\ optTest.file /\ optTest.role = "client" /\ found
    THEN "size of the file" ELSE optTest.bytes

(* What follows the loop, in the order of the source *)
FinishOptions ==
    /\ optVerdict = "parsing" /\ optLeft = {}
    /\ \E found \in BOOLEAN :
          LET bytes == WithFileSize(found)
              ends == {bytes, optTest.blocks} # {"none"}
              rate == IF "rate" \in optFlags THEN optTest.rate
                      ELSE IF optTest.udp THEN "1 Mbit/s" ELSE "unlimited"
              conditions ==
                 {c \in {"time", "bytes", "blocks"} :
                    \/ c = "time" /\ "time" \in optFlags
                    \/ c = "bytes" /\ bytes # "none"
                    \/ c = "blocks" /\ optTest.blocks # "none"}
              early ==
                 \/ RoleMismatch
                 \/ LengthMismatch
                 \/ optTest.role = "client" /\ optTest.file /\ optTest.udp
          IN  IF early
              THEN optVerdict' = "refused" /\ UNCHANGED optTest
              ELSE /\ optTest' = [optTest EXCEPT !.bytes = bytes, !.rate = rate,
                         !.length = IF @ # "default" THEN @
                                    ELSE IF optTest.udp THEN "from MSS" ELSE "128 KB",
                         !.duration = IF ends /\ "time" \notin optFlags THEN "0" ELSE @]
                   /\ optVerdict' = IF Cardinality(conditions) > 1 \/ optTest.role = "none"
                                    THEN "refused" ELSE "accepted"
    /\ UNCHANGED <<optGiven, optLeft, optFlags>>

OptionsNext == CommandLine \/ ReadOption \/ FinishOptions
OptionsSpec == OptionsInit /\ [][OptionsNext]_optVars

-----------------------------------------------------------------------------
Has(o) == o \in optGiven

(* What usage and manual describe, on the set of options alone *)
Acceptable ==
    /\ ~(Has("client") <=> Has("server"))
    /\ optGiven \cap Refused = {}
    /\ Has("client") => optGiven \cap ServerOnly = {}
    /\ Has("server") => optGiven \cap ClientOnly = {}
    /\ ~(Has("reverse") /\ Has("bidir"))
    /\ Has("udp") => optGiven \cap {"file", "tinyLength", "hugeLength"} = {}
    /\ Cardinality(optGiven \cap {"time", "bytes", "blocks"}) <= 1

ExpectedMode ==
    IF Has("bidir") THEN "BIDIRECTIONAL"
    ELSE IF Has("client") <=> Has("reverse") THEN "RECEIVER" ELSE "SENDER"

Expected(field) ==
    CASE field = "mode" -> ExpectedMode
      [] field = "duration" ->
            IF Has("time") THEN "given"
            ELSE IF optTest.bytes # "none" \/ Has("blocks") THEN "0" ELSE "default"
      [] field = "rate" ->
            IF Has("rate") THEN "given" ELSE IF Has("udp") THEN "1 Mbit/s" ELSE "unlimited"
      [] field = "retransmits" -> ~Has("udp") /\ ExpectedMode # "RECEIVER"

(* The options mean the same in every order: a command line is accepted or  *)
(* refused for what is on it, and mode, duration, rate and the report of    *)
(* retransmits follow from the set of its options (the checks inside the    *)
(* loop and the setters that look at other fields depend on the order).     *)
OrderDoesNotMatter ==
    optVerdict \in {"accepted", "refused"} =>
       /\ optVerdict = "accepted" <=> Acceptable
       /\ optVerdict = "accepted" =>
             \A field \in {"mode", "duration", "rate", "retransmits"} :
                optTest[field] = Expected(field)
=============================================================================
