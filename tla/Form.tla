-------------------------------- MODULE Form --------------------------------
(***************************************************************************)
(* The entry fields and what a run is started with (Iperf3RunViewModel,    *)
(* IperfTestManage.startTest).  launch reads the fields and writes back    *)
(* what it understood; the end of a run and its completion callback, which *)
(* another thread makes, write them once more: what a default can stand    *)
(* for is blanked.  A cancelled run may end when the next is under way.    *)
(* The number fields, which are handled alike, are one here.               *)
(***************************************************************************)
EXTENDS Integers, Sequences

CONSTANT MaxLaunches \* bound: runs

ASSUME FormAssumption == MaxLaunches \in Nat

Empty == ""                  \* a field that shows nothing
HostName == "jabramson.com"  \* DefaultUIValues.HOST_NAME
PortNumber == 5201           \* DefaultUIValues.PORT_NUMBER

(* A text is a name and what follows its colons; 0 is no number.  "v6"      *)
(* stands for the names that have colons themselves.                        *)
Text(name, ports) == [name |-> name, ports |-> ports]
Typed == {Text(n, p) : n \in {Empty, HostName, "other", "v6"},
                       p \in {<<>>, <<0>>, <<9>>, <<PortNumber>>}}

VARIABLES
    frmHost,      \* hostName
    frmPort,      \* portNumber
    frmNumber,    \* durationSecs, skip or parallelStreams: Empty, "default", "other", "refused"
    frmDownload,  \* isReverse
    frmRunning,   \* isRunning
    frmRuns,      \* per run: "none", "runs", "completed" or "ended"
    frmCompleter, \* per run: the host name its completeTest will write
    frmArgs       \* history: the arguments of the last run, NoArgs if there was
                  \* an entry since or another run in its way

frmVars == <<frmHost, frmPort, frmNumber, frmDownload, frmRunning, frmRuns,
             frmCompleter, frmArgs>>

Nothing == Text("nothing", <<>>)
NoArgs == [host |-> Nothing, port |-> 0, number |-> Empty, download |-> FALSE]

FormInit ==
    /\ frmHost = Text(Empty, <<>>) /\ frmPort = 0 /\ frmNumber = Empty /\ frmDownload = FALSE
    /\ frmRunning = FALSE
    /\ frmRuns = [r \in 1..MaxLaunches |-> "none"]
    /\ frmCompleter = [r \in 1..MaxLaunches |-> Nothing]
    /\ frmArgs = NoArgs

(* text.split(":") has two parts *)
Splits(text) == text.name # "v6" /\ Len(text.ports) = 1
OrDefaultPort(port) == IF port = 0 THEN PortNumber ELSE port

-----------------------------------------------------------------------------
(* The fields are enabled while nothing is running *)
UpdateHostName ==
    /\ ~frmRunning
    /\ \E text \in Typed :
          /\ frmHost' = text
          /\ frmPort' = OrDefaultPort(IF Splits(text) THEN text.ports[1] ELSE frmPort)
    /\ frmArgs' = NoArgs
    /\ UNCHANGED <<frmNumber, frmDownload, frmRunning, frmRuns, frmCompleter>>

(* setDuration, setSkip, setParallelStreams: what is no number is not taken *)
SetNumber ==
    /\ ~frmRunning
    /\ frmNumber' \in {Empty, "default", "other", "refused"}
    /\ frmArgs' = NoArgs
    /\ UNCHANGED <<frmHost, frmPort, frmDownload, frmRunning, frmRuns, frmCompleter>>

SetUploadDownload ==
    /\ ~frmRunning
    /\ frmDownload' \in BOOLEAN
    /\ frmArgs' = NoArgs
    /\ UNCHANGED <<frmHost, frmPort, frmNumber, frmRunning, frmRuns, frmCompleter>>

Alive == {r \in DOMAIN frmRuns : frmRuns[r] \in {"runs", "completed"}}

(* What launch and runIperf3 make of the fields *)
ArgsShown ==
    LET text == IF frmHost = Text(Empty, <<>>) THEN Text(HostName, <<>>) ELSE frmHost
    IN  [host |-> IF Splits(text) THEN Text(text.name, <<>>) ELSE text,
         port |-> OrDefaultPort(IF Splits(text) THEN text.ports[1] ELSE frmPort),
         number |-> IF frmNumber = Empty THEN "default" ELSE frmNumber,
         download |-> frmDownload]

(* launch, and runIperf3 up to the start of the native run, on the same     *)
(* thread without a break.  startTest refuses a duration out of its range.  *)
Launch ==
    /\ ~frmRunning /\ frmRunning' = TRUE
    /\ \E r \in DOMAIN frmRuns :
          /\ frmRuns[r] = "none" /\ \A q \in 1..(r - 1) : frmRuns[q] # "none"
          /\ frmRuns' = [frmRuns EXCEPT ![r] =
                            IF frmNumber = "refused" THEN "completed" ELSE "runs"]
    /\ frmHost' = Text(ArgsShown.host.name, Append(ArgsShown.host.ports, ArgsShown.port))
    /\ frmPort' = ArgsShown.port
    /\ frmNumber' = ArgsShown.number
    /\ frmArgs' = IF Alive = {} THEN ArgsShown ELSE NoArgs
    /\ UNCHANGED <<frmDownload, frmCompleter>>

(* Mutant: the values that are not the defaults are blanked. *)
BlankOthers(value, default, blank) == IF value = default THEN value ELSE blank

(* "Only remember last choices for non-default user selections" *)
Blank(value, default, blank) == IF value # default THEN value ELSE blank

BlankDefaults ==
    /\ frmHost' = Blank(frmHost, Text(HostName, <<>>), Text(Empty, <<>>))
    /\ frmNumber' = Blank(frmNumber, "default", Empty)

(* cancel: the fields are free at once, whatever becomes of the run *)
Cancel ==
    /\ frmRunning /\ frmRunning' = FALSE
    /\ BlankDefaults
    /\ UNCHANGED <<frmPort, frmDownload, frmRuns, frmCompleter, frmArgs>>

(* completeTest reads the fields on the thread of the run ...               *)
CompleteReads(r) ==
    /\ frmRuns[r] = "runs" /\ frmCompleter[r] = Nothing
    /\ LET text == IF frmHost = Text(Empty, <<>>) THEN Text(HostName, <<>>) ELSE frmHost
           port == IF Splits(text) THEN text.ports[1] ELSE frmPort
           stripped == IF Splits(text) THEN Text(text.name, <<>>) ELSE text
       IN  frmCompleter' = [frmCompleter EXCEPT ![r] =
              IF port # PortNumber THEN frmHost ELSE stripped]
    /\ UNCHANGED <<frmHost, frmPort, frmNumber, frmDownload, frmRunning, frmRuns,
                   frmArgs>>

(* ... and writes the host name in a step of its own.  onError completes a  *)
(* run as well, and onComplete does it again.                               *)
CompleteWrites(r) ==
    /\ frmRuns[r] = "runs" /\ frmCompleter[r] # Nothing
    /\ frmHost' = frmCompleter[r]
    /\ frmCompleter' = [frmCompleter EXCEPT ![r] = Nothing]
    /\ \E last \in BOOLEAN :
          frmRuns' = [frmRuns EXCEPT ![r] = IF last THEN "completed" ELSE "runs"]
    /\ UNCHANGED <<frmPort, frmNumber, frmDownload, frmRunning, frmArgs>>

(* The end of runIperf3, when the native run has been joined *)
RunEndsOf(r) ==
    /\ frmRuns[r] = "completed"
    /\ frmRuns' = [frmRuns EXCEPT ![r] = "ended"]
    /\ frmRunning' = FALSE
    /\ BlankDefaults
    /\ UNCHANGED <<frmPort, frmDownload, frmCompleter, frmArgs>>

FormNext ==
    \/ UpdateHostName \/ SetNumber \/ SetUploadDownload \/ Launch \/ Cancel
    \/ \E r \in DOMAIN frmRuns : CompleteReads(r) \/ CompleteWrites(r) \/ RunEndsOf(r)

FormSpec == FormInit /\ [][FormNext]_frmVars

-----------------------------------------------------------------------------
(* What a run is started with can be read off the form, then and later:     *)
(* launching again without touching a field repeats the run, however its    *)
(* end, its completion and a cancel have blanked the fields in between.     *)
(* Three exceptions are the code's: a host name with colons of its own,     *)
(* which launch lengthens by the port every time; a port without a host     *)
(* name, where the first run has no host and the second the default one;    *)
(* and runs that overlap, where the completion of the older may write a     *)
(* host name over the newer one.                                            *)
RunsWhatIsShown ==
    frmArgs # NoArgs /\ frmArgs.host.name \notin {Empty, "v6"} => ArgsShown = frmArgs
=============================================================================
