------------------------------ MODULE Monitor ------------------------------
(***************************************************************************)
(* Iperf3OutputMonitor, which reads the lines iperf3 prints and keeps the  *)
(* statistics of a run, and the callback of IperfTestManage.startTest that *)
(* shows a line when its interval is a new one.  A line is what its words  *)
(* say: its kind, whether it is of one stream or of all (SUM), the second  *)
(* it starts at and its rate.                                              *)
(***************************************************************************)
EXTENDS Integers, SequencesExt

CONSTANTS
    MaxMonitored, \* bound: runs
    MaxIntervals, \* bound: seconds that are measured, of a run
    MaxOmitted,   \* bound: seconds that are omitted, of a run
    MaxTold,      \* bound: messages among the lines of a run, a cancel's included
    Rates         \* rates as they are printed: [value |-> Nat, unit |-> a unit]

Units == {"bits/sec", "Kbits/sec", "Mbits/sec"}

(* unit_snprintf takes the next unit from a thousand on; the last number    *)
(* before may be printed as 1000                                            *)
ASSUME MonitorAssumption ==
    /\ MaxMonitored \in Nat /\ MaxIntervals \in Nat /\ MaxOmitted \in Nat
    /\ MaxTold \in Nat
    /\ Rates \subseteq [value : 0..1000, unit : Units]
    /\ \A rate \in Rates : rate.unit # "bits/sec" => rate.value > 0

VARIABLES
    monRun,      \* which run this is, 0 before the first
    monPhase,    \* what iperf3 prints: "idle", "start", "omit", "measure" or "end"
    monParallel, \* parallel # 1
    monState,    \* currentLineResult and the private fields
    monSeen,     \* lastIntervalCount and lastNumberOfMessages of the callback;
                 \* history: the measured seconds it showed, those it showed a
                 \* message instead of, and how many there were at a message
    monTold,     \* messages of this run
    monSamples,  \* history: the rates iperf3 measured in this run
    monEarlier,  \* history: those of the runs before
    monSent,     \* history: the first rate of the summary
    monStray     \* history: the runs into which a line of an earlier one came

monVars == <<monRun, monPhase, monParallel, monState, monSeen, monTold,
             monSamples, monEarlier, monSent, monStray>>

-----------------------------------------------------------------------------
(* fromHumanUnit: a factor of 1024 for every step of the unit.  It counts   *)
(* in halves, so that what lies between 0 and every positive rate, as       *)
(* Double.MIN_VALUE does, is a number too.                                  *)
FromHumanUnit(rate) ==
    rate.value * (CASE rate.unit = "Kbits/sec" -> 2 * 1024
                    [] rate.unit = "Mbits/sec" -> 2 * 1024 * 1024
                    [] OTHER                   -> 2)

Least == 1             \* stands for Double.MIN_VALUE, which is above 0
Highest == 2147483647  \* stands for Double.MAX_VALUE

(* reset() leaves historicalResults *)
Reset(history) ==
    [gathered |-> FALSE, number |-> -1, samples |-> -1, omitted |-> 0,
     messages |-> 0, finished |-> FALSE, max |-> Least, min |-> Highest,
     average |-> -1, history |-> history]

(* updateMax, updateMin; the average and the median are of the whole list   *)
UpdateMax(max, raw) == IF raw > max THEN raw ELSE max
UpdateMin(min, raw) == IF raw < min THEN raw ELSE min
AverageOf(history) == FoldLeft(LAMBDA sum, raw : sum + raw, 0, history) \div Len(history)

(* The branches of processLine for what is not a result: the heading, the   *)
(* connection, which makes two messages, and any other text                 *)
Gather(state, line) ==
    CASE line.kind = "text" -> [state EXCEPT !.messages = @ + 1]
      [] line.kind = "header" /\ ~state.gathered ->
            [state EXCEPT !.gathered = TRUE, !.number = 0]
      [] line.kind = "connected" /\ ~state.gathered ->
            [state EXCEPT !.gathered = TRUE, !.messages = @ + 2]
      [] OTHER -> state

(* Mutant: an omitted second is a sample like any other. *)
ResultCountsAll(state, line) ==
    LET raw == FromHumanUnit(line.rate)
        history == Append(state.history, raw)
    IN  IF line.kind \in {"sender", "receiver"}
        THEN [state EXCEPT !.number = @ + 1, !.finished = TRUE,
                           !.samples = IF state.finished THEN @ ELSE @ + 1,
                           !.average = IF state.finished THEN @ ELSE raw]
        ELSE [state EXCEPT !.number = line.start, !.history = history,
                           !.average = AverageOf(history),
                           !.max = UpdateMax(@, raw), !.min = UpdateMin(@, raw),
                           !.samples = @ + 1]

(* The when of processLine: an omitted second, a line of the summary, of    *)
(* which the first gives the average, and a measured second.                *)
Result(state, line) ==
    LET raw == FromHumanUnit(line.rate)
        history == Append(state.history, raw)
    IN  CASE line.kind = "omitted" ->
                [state EXCEPT !.number = @ + 1, !.omitted = @ + 1]
          [] line.kind \in {"sender", "receiver"} ->
                [state EXCEPT !.number = @ + 1, !.finished = TRUE,
                              !.samples = IF state.finished THEN @ ELSE @ + 1,
                              !.average = IF state.finished THEN @ ELSE raw]
          [] OTHER ->
                [state EXCEPT !.number = line.start, !.history = history,
                              !.average = AverageOf(history),
                              !.max = UpdateMax(@, raw), !.min = UpdateMin(@, raw),
                              !.samples = @ + 1]

(* processLine: until something is gathered there are no results, and with  *)
(* several streams only the sums count.                                     *)
IsResult(state, line) ==
    /\ line.kind \in {"omitted", "measured", "sender", "receiver"}
    /\ state.gathered /\ (line.id = "SUM" \/ ~monParallel)

ProcessLine(state, line) ==
    IF IsResult(state, line) THEN Result(state, line) ELSE Gather(state, line)

(* processCancelLine, of a stop that the user asks for *)
ProcessCancelLine(state) == [state EXCEPT !.messages = @ + 1]

-----------------------------------------------------------------------------
(* The callback, when n seconds are measured and this line, if second is    *)
(* not empty, is of the last of them: a new message is shown instead of the *)
(* interval, an interval if its number is above the last, and either way    *)
(* the number is the last from then on, be it higher or lower.              *)
Look(seen, state, n, second) ==
    LET news == state.messages > seen.messages
    IN  IF ~news /\ state.number <= seen.number THEN seen
        ELSE [number   |-> state.number,
              messages |-> state.messages,
              shown    |-> seen.shown \cup IF news THEN {} ELSE second,
              covered  |-> seen.covered \cup IF news THEN second ELSE {},
              told     |-> seen.told \cup IF news /\ n > 0 THEN {n} ELSE {}]

NothingSeen ==
    [number |-> -1, messages |-> 0, shown |-> {}, covered |-> {}, told |-> {}]

(* onLine: what monitor and callback make of a line *)
Read(mon, line, n) ==
    LET state  == ProcessLine(mon.state, line)
        second == IF line.kind = "measured" /\ IsResult(mon.state, line)
                  THEN {n} ELSE {}
    IN  [state |-> state,
         seen  |-> Look(mon.seen, state, IF second = {} THEN n ELSE n + 1, second)]

Monitored == [state |-> monState, seen |-> monSeen]
Becomes(mon) == monState' = mon.state /\ monSeen' = mon.seen
Measured == Len(monSamples)

NoRate == [value |-> 0, unit |-> "bits/sec"]
OutputLine(kind, id, start, rate) ==
    [kind |-> kind, id |-> id, start |-> start, rate |-> rate]
Plain(kind) == OutputLine(kind, "stream", 0, NoRate)

(* What iperf3 prints of one second or one summary, and the monitor reads:  *)
(* a line for every stream and, if there are several, the sum (external:    *)
(* iperf_print_intermediate)                                                *)
LinesOf(mon, kind, start, rate) ==
    LET of(id, shown) == OutputLine(kind, id, start, shown)
        one == Read(mon, of("stream", NoRate), Measured)
        two == Read(one, of("stream", NoRate), Measured)
    IN  IF monParallel THEN Read(two, of("SUM", rate), Measured)
        ELSE Read(mon, of("stream", rate), Measured)

Heading(mon) == Read(mon, Plain("header"), Measured)

-----------------------------------------------------------------------------
MonitorInit ==
    /\ monRun = 0 /\ monPhase = "idle" /\ monParallel = FALSE
    /\ monState = Reset(<<>>) /\ monSeen = NothingSeen /\ monTold = 0
    /\ monSamples = <<>> /\ monEarlier = <<>> /\ monSent = NoRate
    /\ monStray = {}

(* startTest: reset, setParallel and the variables of the callback *)
StartMonitor ==
    /\ monRun < MaxMonitored /\ monPhase \in {"idle", "end"}
    /\ monRun' = monRun + 1 /\ monPhase' = "start"
    /\ monParallel' \in BOOLEAN
    /\ monState' = Reset(monState.history)
    /\ monSeen' = NothingSeen /\ monTold' = 0
    /\ monSamples' = <<>> /\ monEarlier' = monEarlier \o monSamples
    /\ monSent' = NoRate
    /\ UNCHANGED monStray

Printing == monPhase \in {"start", "omit", "measure"}

Connected ==
    /\ monPhase = "start" /\ monPhase' = "omit"
    /\ LET one == Read(Monitored, Plain("connected"), Measured)
       IN  Becomes(Heading(IF monParallel THEN Read(one, Plain("connected"), Measured)
                           ELSE one))
    /\ UNCHANGED <<monRun, monParallel, monTold, monSamples, monEarlier, monSent,
                   monStray>>

OmittedSecond ==
    /\ monPhase = "omit" /\ monState.omitted < MaxOmitted
    /\ \E rate \in Rates :
          Becomes(LinesOf(Monitored, "omitted", monState.omitted, rate))
    /\ UNCHANGED <<monRun, monPhase, monParallel, monTold, monSamples, monEarlier,
                   monSent, monStray>>

(* The seconds are counted from 0 again when the omitted ones are over *)
MeasuredSecond ==
    /\ monPhase \in {"omit", "measure"} /\ monPhase' = "measure"
    /\ Measured < MaxIntervals
    /\ \E rate \in Rates :
          /\ Becomes(LinesOf(Monitored, "measured", Measured, rate))
          /\ monSamples' = Append(monSamples, rate)
    /\ UNCHANGED <<monRun, monParallel, monTold, monEarlier, monSent, monStray>>

(* A line that is neither heading, connection nor result *)
Message ==
    /\ Printing /\ monTold < MaxTold
    /\ monTold' = monTold + 1
    /\ Becomes(Read(Monitored, Plain("text"), Measured))
    /\ UNCHANGED <<monRun, monPhase, monParallel, monSamples, monEarlier, monSent,
                   monStray>>

(* cancelTest, when the native code answers: the answer is shown without    *)
(* the callback of the run, which finds a new message at its next line      *)
CancelLine ==
    /\ Printing /\ monTold < MaxTold
    /\ monTold' = monTold + 1
    /\ monState' = ProcessCancelLine(monState)
    /\ UNCHANGED <<monRun, monPhase, monParallel, monSeen, monSamples, monEarlier,
                   monSent, monStray>>

(* The heading, a line of the sender and one of the receiver, "iperf Done." *)
Summary ==
    /\ monPhase = "measure" /\ monPhase' = "end"
    /\ \E sent, received \in Rates :
          LET first  == LinesOf(Heading(Monitored), "sender", 0, sent)
              second == LinesOf(first, "receiver", 0, received)
          IN  /\ Becomes(Read(second, Plain("text"), Measured))
              /\ monSent' = sent
    /\ UNCHANGED <<monRun, monParallel, monTold, monSamples, monEarlier, monStray>>

(* A cancelled run prints no summary *)
BreakOff ==
    /\ Printing /\ monPhase' = "end"
    /\ UNCHANGED <<monRun, monParallel, monState, monSeen, monTold, monSamples,
                   monEarlier, monSent, monStray>>

(* The thread of a cancelled run still delivers a line: the monitor is one  *)
(* for all runs, the callback is the other run's                            *)
StrayLine ==
    /\ monRun > 1 /\ Printing /\ monRun \notin monStray
    /\ \E rate \in Rates :
          monState' = ProcessLine(monState, OutputLine("measured", "SUM", 0, rate))
    /\ monStray' = monStray \cup {monRun}
    /\ UNCHANGED <<monRun, monPhase, monParallel, monSeen, monTold, monSamples,
                   monEarlier, monSent>>

MonitorNext ==
    \/ StartMonitor \/ Connected \/ OmittedSecond \/ MeasuredSecond
    \/ Message \/ CancelLine \/ Summary \/ BreakOff \/ StrayLine

MonitorSpec == MonitorInit /\ [][MonitorNext]_monVars

-----------------------------------------------------------------------------
(* iperf3 itself counts a thousand to the unit *)
Faster(one, other) ==
    LET bits(rate) == rate.value * (CASE rate.unit = "Kbits/sec" -> 1000
                                      [] rate.unit = "Mbits/sec" -> 1000000
                                      [] OTHER                   -> 1)
    IN  bits(one) > bits(other)

MeasuredRates == {monSamples[n] : n \in DOMAIN monSamples}

Fastest(rate) == \A other \in MeasuredRates : ~Faster(other, rate)
Slowest(rate) == \A other \in MeasuredRates : ~Faster(rate, other)

(* What getMaximum shows, if anything: nothing if all seconds were at 0 *)
MaximumIsOf(rate) ==
    /\ monState.max > Least <=> rate.value > 0
    /\ rate.value > 0 => monState.max = FromHumanUnit(rate)

ExtremesOfRun ==
    IF MeasuredRates = {} THEN monState.max = Least /\ monState.min = Highest
    ELSE /\ \E rate \in MeasuredRates : Fastest(rate) /\ MaximumIsOf(rate)
         /\ \E rate \in MeasuredRates :
               Slowest(rate) /\ monState.min = FromHumanUnit(rate)

(* The seconds, counted from 0, whose interval the callback shows: not those *)
(* it shows a message instead of, nor those with numbers of omitted ones,   *)
(* unless a message has come since the measuring began                      *)
ShownSeconds(omitted, n, covered, told) ==
    {k \in 0..(n - 1) : /\ k \notin covered
                        /\ k >= omitted \/ \E t \in told : t <= k}

Raws(rates) == [n \in 1..Len(rates) |-> FromHumanUnit(rates[n])]

(* The statistics are those of the run: maximum and minimum are those of a  *)
(* fastest and a slowest second that this run measured, whatever units they *)
(* were printed in and whatever earlier runs had, but a maximum of 0 is not *)
(* shown; the samples are the seconds measured, one less before there is a  *)
(* summary; and the seconds shown are the ones above.  The average shown    *)
(* is not: until the summary gives the run's, it is that of the seconds of  *)
(* all runs.  All of this unless a line of a cancelled run comes in.        *)
StatisticsOfRun ==
    /\ monRun \notin monStray =>
          /\ ExtremesOfRun
          /\ monState.samples = Measured - (IF monState.finished THEN 0 ELSE 1)
          /\ monSeen.shown = ShownSeconds(monState.omitted, Measured,
                                          monSeen.covered, monSeen.told)
    /\ monStray = {} /\ monSamples # <<>> =>
          monState.average = IF monState.finished THEN FromHumanUnit(monSent)
                             ELSE AverageOf(Raws(monEarlier \o monSamples))
=============================================================================
