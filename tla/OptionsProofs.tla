--------------------------- MODULE OptionsProofs ---------------------------
(***************************************************************************)
(* The options of iperf mean the same in every order, however many there   *)
(* are: while they are read, the test and the flags are a function of the  *)
(* set of those that have been read.                                       *)
(***************************************************************************)
EXTENDS Options, FiniteSetTheorems, TLAPS

Roles == {"none", "client", "server"}
Modes == {"unset", "SENDER", "RECEIVER", "BIDIRECTIONAL"}

TestType ==
    [role : Roles, reverse : BOOLEAN, bidirectional : BOOLEAN, mode : Modes,
     udp : BOOLEAN, retransmits : BOOLEAN, duration : {"default", "given"},
     bytes : {"none", "given"}, blocks : {"none", "given"},
     length : {"default", "tiny", "huge"}, rate : {"unset", "given"}, file : BOOLEAN]

RoleOf(read) ==
    IF "client" \in read THEN "client"
    ELSE IF "server" \in read THEN "server" ELSE "none"

ModeOf(read) ==
    IF "bidir" \in read THEN "BIDIRECTIONAL"
    ELSE IF RoleOf(read) = "none" THEN "unset"
    ELSE IF (RoleOf(read) = "client") <=> ("reverse" \in read) THEN "RECEIVER"
    ELSE "SENDER"

(* The fields that decide about direction.  A server with --bidir, which is *)
(* refused in the end, is the one case where the order tells.               *)
Direction(test, read) ==
    /\ test.role = RoleOf(read)
    /\ test.reverse <=> "reverse" \in read
    /\ test.bidirectional <=> "bidir" \in read
    /\ test.udp <=> "udp" \in read
    /\ test.mode = ModeOf(read)
    /\ ~({"server", "bidir"} \subseteq read) =>
         (test.retransmits <=> "udp" \notin read /\ ModeOf(read) # "RECEIVER")

(* The fields that an option sets to its argument *)
Values(test, read) ==
    /\ test.duration = IF "time" \in read THEN "given" ELSE "default"
    /\ test.bytes = IF "bytes" \in read THEN "given" ELSE "none"
    /\ test.blocks = IF "blocks" \in read THEN "given" ELSE "none"
    /\ test.rate = IF "rate" \in read THEN "given" ELSE "unset"
    /\ test.file <=> "file" \in read
    /\ test.length \in {"default", "tiny", "huge"}
    /\ test.length = "default" <=> read \cap {"tinyLength", "hugeLength"} = {}

(* What getopt_long has returned so far has been let pass *)
Passed(read) ==
    /\ read \cap Refused = {}
    /\ ~({"client", "server"} \subseteq read)
    /\ ~({"reverse", "bidir"} \subseteq read)

Flags(flags, read) ==
    /\ "client" \in flags <=> read \cap ClientOnly # {}
    /\ "server" \in flags <=> read \cap ServerOnly # {}
    /\ "rate" \in flags <=> "rate" \in read
    /\ "time" \in flags <=> "time" \in read

Reading ==
    LET read == optGiven \ optLeft
    IN  /\ optTest \in TestType
        /\ optLeft \subseteq optGiven /\ optGiven \subseteq AllOptions
        /\ Direction(optTest, read) /\ Values(optTest, read)
        /\ Passed(read) /\ Flags(optFlags, read)

OptionsInv ==
    /\ optVerdict \in {"none", "parsing", "accepted", "refused"}
    /\ optVerdict = "none" =>
         optGiven = {} /\ optLeft = {} /\ optTest = Defaults /\ optFlags = {}
    /\ optVerdict = "parsing" => Reading
    /\ OrderDoesNotMatter

-----------------------------------------------------------------------------
(* Before the first option is read, the test has its defaults. *)
LEMMA NothingRead ==
    /\ Defaults \in TestType
    /\ Direction(Defaults, {}) /\ Values(Defaults, {}) /\ Passed({}) /\ Flags({}, {})
<1>1. Defaults \in TestType
  BY DEF Defaults, TestType, Roles, Modes
<1>2. Direction(Defaults, {})
  BY DEF Direction, Defaults, RoleOf, ModeOf
<1>3. Values(Defaults, {})
  BY DEF Values, Defaults
<1> QED
  BY <1>1, <1>2, <1>3 DEF Passed, Flags

(* Reading an option keeps the fields of the direction a function of the set *)
(* read: role, reverse, bidir and udp assign them, the others leave them be.  *)
LEMMA ReadDirection ==
    ASSUME NEW test \in TestType, NEW read, NEW o \in AllOptions,
           o \notin read, Direction(test, read), Passed(read),
           Passed(read \cup {o})
    PROVE  Apply(test, o) \in TestType /\ Direction(Apply(test, o), read \cup {o})
<1> DEFINE after == Apply(test, o)
<1> USE DEF Direction, RoleOf, ModeOf
<1>1. CASE o \in {"client", "server"}
  <2> DEFINE mode == IF test.reverse THEN DirectionOf(o, test.mode)
                     ELSE IF test.bidirectional THEN "BIDIRECTIONAL"
                     ELSE Opposite(o, test.mode)
             assigned == [test EXCEPT !.role = o, !.mode = mode]
  <2>1. after = CheckRetransmits(assigned)
    BY <1>1 DEF Apply, SetRole
  <2>2. /\ RoleOf(read \cup {o}) = o
        /\ "reverse" \in read \cup {o} <=> "reverse" \in read
        /\ "bidir" \in read \cup {o} <=> "bidir" \in read
        /\ "udp" \in read \cup {o} <=> "udp" \in read
    BY <1>1 DEF Passed
  <2>3. mode = ModeOf(read \cup {o}) /\ mode \in Modes
    BY <1>1, <2>2 DEF DirectionOf, Opposite, Modes, Passed
  <2> HIDE DEF mode
  <2>4. /\ after \in TestType /\ after.role = o /\ after.mode = mode
        /\ after.reverse = test.reverse /\ after.bidirectional = test.bidirectional
        /\ after.udp = test.udp
        /\ after.retransmits <=> mode # "RECEIVER" /\ ~test.udp
    <3> HIDE DEF Direction, RoleOf, ModeOf
    <3>0. o \in Roles /\ mode \in Modes
      BY <1>1, <2>3 DEF Roles
    <3>1. /\ assigned \in TestType /\ assigned.role = o /\ assigned.mode = mode
          /\ assigned.reverse = test.reverse
          /\ assigned.bidirectional = test.bidirectional
          /\ assigned.udp = test.udp
      BY <3>0 DEF TestType
    <3> HIDE DEF assigned
    <3>2. (assigned.mode # "RECEIVER" /\ ~assigned.udp) \in BOOLEAN
      OBVIOUS
    <3> QED
      BY <2>1, <3>1, <3>2 DEF CheckRetransmits, TestType
  <2> QED
    BY <2>2, <2>3, <2>4
<1>2. CASE o = "reverse"
  <2> DEFINE mode == DirectionOf(test.role, test.mode)
             assigned == [test EXCEPT !.reverse = TRUE, !.mode = mode]
  <2>1. after = CheckRetransmits(assigned)
    BY <1>2 DEF Apply, SetReverse
  <2>2. /\ RoleOf(read \cup {o}) = RoleOf(read) /\ "bidir" \notin read
        /\ "udp" \in read \cup {o} <=> "udp" \in read
    BY <1>2 DEF Passed
  <2>3. mode = ModeOf(read \cup {o}) /\ mode \in Modes
    BY <1>2, <2>2 DEF DirectionOf, Modes, Passed
  <2> HIDE DEF mode
  <2>4. /\ after \in TestType /\ after.role = test.role /\ after.mode = mode
        /\ after.reverse /\ after.bidirectional = test.bidirectional
        /\ after.udp = test.udp
        /\ after.retransmits <=> mode # "RECEIVER" /\ ~test.udp
    <3> HIDE DEF Direction, RoleOf, ModeOf
    <3>1. /\ assigned \in TestType /\ assigned.role = test.role
          /\ assigned.mode = mode /\ assigned.reverse
          /\ assigned.bidirectional = test.bidirectional
          /\ assigned.udp = test.udp
      BY <2>3 DEF TestType
    <3> HIDE DEF assigned
    <3>2. (assigned.mode # "RECEIVER" /\ ~assigned.udp) \in BOOLEAN
      OBVIOUS
    <3> QED
      BY <2>1, <3>1, <3>2 DEF CheckRetransmits, TestType
  <2>5. /\ "bidir" \notin read \cup {o} /\ "reverse" \in read \cup {o}
    BY <1>2, <2>2
  <2> QED
    BY <2>2, <2>3, <2>4, <2>5
<1>3. CASE o = "bidir"
  <2>1. after = [test EXCEPT !.bidirectional = TRUE, !.mode = "BIDIRECTIONAL"]
    BY <1>3 DEF Apply, SetBidirectional
  <2>2. /\ after \in TestType
        /\ after.role = test.role /\ after.reverse = test.reverse
        /\ after.udp = test.udp /\ after.retransmits = test.retransmits
        /\ after.bidirectional /\ after.mode = "BIDIRECTIONAL"
    BY <2>1 DEF TestType, Modes
  <2>3. "reverse" \notin read /\ "bidir" \notin read
    BY <1>3 DEF Passed
  <2>4. "server" \notin read => (test.retransmits <=> "udp" \notin read)
    BY <2>3
  <2>5. RoleOf(read \cup {o}) = RoleOf(read) /\ ModeOf(read \cup {o}) = "BIDIRECTIONAL"
    BY <1>3
  <2> QED
    BY <1>3, <2>2, <2>3, <2>4, <2>5
<1>4. CASE o = "udp"
  <2>1. after = CheckRetransmits([test EXCEPT !.udp = TRUE])
    BY <1>4 DEF Apply
  <2>2. /\ after \in TestType
        /\ after.role = test.role /\ after.reverse = test.reverse
        /\ after.bidirectional = test.bidirectional /\ after.mode = test.mode
        /\ after.udp /\ ~after.retransmits
    BY <2>1 DEF CheckRetransmits, TestType
  <2>3. /\ RoleOf(read \cup {o}) = RoleOf(read)
        /\ ModeOf(read \cup {o}) = ModeOf(read) /\ "udp" \in read \cup {o}
    BY <1>4
  <2> QED
    BY <1>4, <2>2, <2>3
<1>5. CASE o \notin {"client", "server", "reverse", "bidir", "udp"}
  <2>1. /\ after.role = test.role /\ after.reverse = test.reverse
        /\ after.bidirectional = test.bidirectional /\ after.udp = test.udp
        /\ after.mode = test.mode /\ after.retransmits = test.retransmits
        /\ after \in TestType
    BY <1>5 DEF Apply, TestType
  <2> QED
    BY <1>5, <2>1
<1> QED
  BY <1>1, <1>2, <1>3, <1>4, <1>5

(* An option sets the field of its argument and no other. *)
LEMMA ReadValues ==
    ASSUME NEW test \in TestType, NEW read, NEW o \in AllOptions,
           Values(test, read)
    PROVE  Values(Apply(test, o), read \cup {o})
<1> USE DEF Values, Apply
<1>1. CASE o \in {"client", "server", "reverse", "bidir", "udp"}
  <2>1. \A f \in {"duration", "bytes", "blocks", "rate", "file", "length"} :
          Apply(test, o)[f] = test[f]
    <3>1. CASE o \in {"client", "server"}
      BY <3>1 DEF SetRole, CheckRetransmits, TestType
    <3>2. CASE o = "reverse"
      BY <3>2 DEF SetReverse, CheckRetransmits, TestType
    <3>3. CASE o = "bidir"
      BY <3>3 DEF SetBidirectional, TestType
    <3>4. CASE o = "udp"
      BY <3>4 DEF CheckRetransmits, TestType
    <3> QED
      BY <1>1, <3>1, <3>2, <3>3, <3>4
  <2> HIDE DEF Apply
  <2> QED
    BY <1>1, <2>1
<1>2. CASE o \in {"time", "bytes", "blocks"}
  <2>1. CASE o = "time"
    BY <2>1 DEF TestType
  <2>2. CASE o = "bytes"
    BY <2>2 DEF TestType
  <2>3. CASE o = "blocks"
    BY <2>3 DEF TestType
  <2> QED
    BY <1>2, <2>1, <2>2, <2>3
<1>3. CASE o \in {"rate", "file"}
  <2>1. CASE o = "rate"
    BY <2>1 DEF TestType
  <2>2. CASE o = "file"
    BY <2>2 DEF TestType
  <2> QED
    BY <1>3, <2>1, <2>2
<1>4. CASE o \in {"tinyLength", "hugeLength"}
  <2>1. CASE o = "tinyLength"
    BY <2>1 DEF TestType
  <2>2. CASE o = "hugeLength"
    BY <2>2 DEF TestType
  <2> QED
    BY <1>4, <2>1, <2>2
<1>5. CASE o \notin {"client", "server", "reverse", "bidir", "udp", "time", "bytes",
                     "blocks", "rate", "file", "tinyLength", "hugeLength"}
  BY <1>5
<1> QED
  BY <1>1, <1>2, <1>3, <1>4, <1>5

(* The flags follow suit. *)
LEMMA ReadFlags ==
    ASSUME NEW flags, NEW read, NEW o \in AllOptions, Flags(flags, read)
    PROVE  Flags(flags \cup FlagsOf(o), read \cup {o})
  BY DEF Flags, FlagsOf, ClientOnly, ServerOnly, AllOptions, AnyRole, Refused

(* An option that is not refused at once is let pass. *)
LEMMA ReadPassed ==
    ASSUME Reading, NEW o \in optLeft, ~RefusedAtOnce(o)
    PROVE  Passed((optGiven \ optLeft) \cup {o})
  BY DEF Reading, Passed, Direction, RoleOf, RefusedAtOnce

-----------------------------------------------------------------------------
LEMMA InitInv == OptionsInit => OptionsInv
  BY DEF OptionsInit, OptionsInv, OrderDoesNotMatter

LEMMA CommandLineStep == OptionsInv /\ CommandLine => OptionsInv'
<1> SUFFICES ASSUME OptionsInv, CommandLine PROVE OptionsInv'
  OBVIOUS
<1>1. /\ optGiven' \subseteq AllOptions /\ optLeft' = optGiven'
      /\ optVerdict = "none" /\ optVerdict' = "parsing"
      /\ optTest' = optTest /\ optFlags' = optFlags
  BY DEF CommandLine, kSubset
<1>2. optTest = Defaults /\ optFlags = {}
  BY <1>1 DEF OptionsInv
<1>3. Reading'
  <2>1. (optGiven \ optLeft)' = {}
    BY <1>1
  <2> QED
    BY <1>1, <1>2, <2>1, NothingRead DEF Reading
<1> QED
  BY <1>1, <1>3 DEF OptionsInv, OrderDoesNotMatter

(* What is refused while the options are read is refused in every order. *)
LEMMA RefusedAtOnceIsUnacceptable ==
    ASSUME Reading, NEW o \in optLeft, RefusedAtOnce(o)
    PROVE  ~Acceptable
<1>1. o \in optGiven /\ optGiven \ optLeft \subseteq optGiven
  BY DEF Reading
<1>2. CASE o \in Refused
  BY <1>1, <1>2 DEF Acceptable
<1>3. CASE o = "server" /\ optTest.role = "client"
  BY <1>1, <1>3 DEF Acceptable, Has, Reading, Direction, RoleOf
<1>4. CASE o = "client" /\ optTest.role = "server"
  BY <1>1, <1>4 DEF Acceptable, Has, Reading, Direction, RoleOf
<1>5. CASE o = "reverse" /\ optTest.bidirectional
  BY <1>1, <1>5 DEF Acceptable, Has, Reading, Direction
<1>6. CASE o = "bidir" /\ optTest.reverse
  BY <1>1, <1>6 DEF Acceptable, Has, Reading, Direction
<1> QED
  BY <1>2, <1>3, <1>4, <1>5, <1>6 DEF RefusedAtOnce

LEMMA ReadOptionStep == OptionsInv /\ ReadOption => OptionsInv'
<1> SUFFICES ASSUME OptionsInv, ReadOption PROVE OptionsInv'
  OBVIOUS
<1>1. Reading /\ optVerdict = "parsing" /\ optGiven' = optGiven
  BY DEF OptionsInv, ReadOption
<1>2. PICK o \in optLeft :
         IF RefusedAtOnce(o)
         THEN optVerdict' = "refused" /\ UNCHANGED <<optLeft, optTest, optFlags>>
         ELSE /\ optLeft' = optLeft \ {o}
              /\ optTest' = Apply(optTest, o)
              /\ optFlags' = optFlags \cup FlagsOf(o)
              /\ UNCHANGED optVerdict
  BY DEF ReadOption
<1>3. CASE RefusedAtOnce(o)
  <2>1. ~Acceptable'
    BY <1>1, <1>3, RefusedAtOnceIsUnacceptable DEF Acceptable, Has
  <2> QED
    BY <1>2, <1>3, <2>1 DEF OptionsInv, OrderDoesNotMatter
<1>4. CASE ~RefusedAtOnce(o)
  <2> DEFINE read == optGiven \ optLeft
  <2>1. o \in AllOptions /\ o \notin read /\ (optGiven \ optLeft)' = read \cup {o}
    BY <1>1, <1>2, <1>4 DEF Reading
  <2>2. Passed(read \cup {o})
    BY <1>1, <1>4, ReadPassed
  <2>3. /\ optTest' \in TestType /\ Direction(optTest', read \cup {o})
        /\ Values(optTest', read \cup {o}) /\ Flags(optFlags', read \cup {o})
    <3>1. optTest \in TestType /\ Direction(optTest, read) /\ Values(optTest, read)
          /\ Passed(read) /\ Flags(optFlags, read)
      BY <1>1 DEF Reading
    <3> QED
      BY <1>2, <1>4, <2>1, <2>2, <3>1, ReadDirection, ReadValues, ReadFlags
  <2>4. Reading'
    <3>1. optLeft' \subseteq optGiven' /\ optGiven' \subseteq AllOptions
      BY <1>1, <1>2, <1>4 DEF Reading
    <3> QED
      BY <2>1, <2>2, <2>3, <3>1 DEF Reading
  <2> QED
    BY <1>1, <1>2, <1>4, <2>4 DEF OptionsInv, OrderDoesNotMatter
<1> QED
  BY <1>3, <1>4

LEMMA UnchangedStep == OptionsInv /\ UNCHANGED optVars => OptionsInv'
<1> SUFFICES ASSUME OptionsInv, UNCHANGED optVars PROVE OptionsInv'
  OBVIOUS
<1>1. /\ optGiven' = optGiven /\ optLeft' = optLeft /\ optTest' = optTest
      /\ optFlags' = optFlags /\ optVerdict' = optVerdict
  BY DEF optVars
<1>2. Reading => Reading'
  BY <1>1 DEF Reading
<1>3. Acceptable' <=> Acceptable
  BY <1>1 DEF Acceptable, Has
<1>4. \A field \in {"mode", "duration", "rate", "retransmits"} :
          Expected(field)' = Expected(field)
  BY <1>1 DEF Expected, ExpectedMode, Has
<1>5. OrderDoesNotMatter => OrderDoesNotMatter'
  BY <1>1, <1>3, <1>4 DEF OrderDoesNotMatter
<1> QED
  BY <1>1, <1>2, <1>5 DEF OptionsInv

-----------------------------------------------------------------------------
EndConditions == {"time", "bytes", "blocks"}

(* The ends of the test that the code counts after a file may have given    *)
(* its size are more than one exactly when more than one has been asked     *)
(* for: a file counts only where nothing else does.                         *)
LEMMA OneEndCondition ==
    ASSUME Reading, optLeft = {}, NEW found \in BOOLEAN,
           NEW conditions,
           conditions = {c \in EndConditions :
                           \/ c = "time" /\ "time" \in optFlags
                           \/ c = "bytes" /\ WithFileSize(found) # "none"
                           \/ c = "blocks" /\ optTest.blocks # "none"}
    PROVE  Cardinality(conditions) > 1 <=> ~(Cardinality(optGiven \cap EndConditions) <= 1)
<1> DEFINE given == optGiven \cap EndConditions
<1>1. optGiven \ optLeft = optGiven
  OBVIOUS
<1>2. /\ "time" \in optFlags <=> "time" \in optGiven
      /\ optTest.bytes # "none" <=> "bytes" \in optGiven
      /\ optTest.blocks # "none" <=> "blocks" \in optGiven
  BY <1>1 DEF Reading, Values, Flags
<1>3. CASE WithFileSize(found) = optTest.bytes
  <2>1. conditions = given
    BY <1>2, <1>3 DEF EndConditions
  <2>2. IsFiniteSet({}) /\ IsFiniteSet({} \cup {"time"})
        /\ IsFiniteSet({} \cup {"time"} \cup {"bytes"})
        /\ IsFiniteSet({} \cup {"time"} \cup {"bytes"} \cup {"blocks"})
    BY FS_EmptySet, FS_AddElement
  <2>3. IsFiniteSet(EndConditions)
    <3>1. EndConditions = {} \cup {"time"} \cup {"bytes"} \cup {"blocks"}
      BY DEF EndConditions
    <3> QED
      BY <2>2, <3>1
  <2>4. Cardinality(given) \in Nat
    <3>1. given \in SUBSET EndConditions
      OBVIOUS
    <3> QED
      BY <2>3, <3>1, FS_Subset, FS_CardinalityType
  <2>5. Cardinality(conditions) = Cardinality(given)
    BY <2>1
  <2> DEFINE n == Cardinality(given)
  <2>6. n \in Nat => (n > 1 <=> ~(n <= 1))
    OBVIOUS
  <2> QED
    BY <2>4, <2>5, <2>6, Zenon
<1>4. CASE WithFileSize(found) # optTest.bytes
  <2>1. /\ WithFileSize(found) = "size of the file"
        /\ optTest.bytes = "none" /\ optTest.blocks = "none" /\ "time" \notin optFlags
    BY <1>4 DEF WithFileSize
  <2>2. conditions = {"bytes"} /\ given = {}
    BY <1>2, <2>1 DEF EndConditions
  <2>3. Cardinality(conditions) = 1 /\ Cardinality(given) = 0
    BY <2>2, FS_EmptySet, FS_Singleton
  <2>4. 1 > 1 <=> ~(0 <= 1)
    OBVIOUS
  <2> QED
    BY <2>3, <2>4, Zenon
<1> QED
  BY <1>3, <1>4

(* What the checks behind the loop refuse first *)
Early ==
    \/ RoleMismatch
    \/ LengthMismatch
    \/ optTest.role = "client" /\ optTest.file /\ optTest.udp

(* When all options have been read, the test says which were there. *)
LEMMA AllRead ==
    ASSUME Reading, optLeft = {}
    PROVE  /\ Direction(optTest, optGiven) /\ Values(optTest, optGiven)
           /\ Passed(optGiven) /\ Flags(optFlags, optGiven)
           /\ optTest \in TestType
<1>1. optGiven \ optLeft = optGiven
  OBVIOUS
<1> QED
  BY <1>1 DEF Reading

LEMMA EarlyIsUnacceptable ==
    ASSUME Reading, optLeft = {}, Early
    PROVE  ~Acceptable
<1> USE AllRead DEF Direction, Flags, Acceptable, Has
<1>1. CASE RoleMismatch
  BY <1>1 DEF RoleMismatch, RoleOf
<1>2. CASE LengthMismatch
  BY <1>2 DEF LengthMismatch, Values
<1>3. CASE optTest.role = "client" /\ optTest.file /\ optTest.udp
  BY <1>3 DEF Values
<1> QED
  BY <1>1, <1>2, <1>3 DEF Early

(* The other checks are those of the number of ends and of the role. *)
LEMMA LateIsAcceptable ==
    ASSUME Reading, optLeft = {}, ~Early
    PROVE  Acceptable <=> /\ optTest.role # "none"
                          /\ Cardinality(optGiven \cap EndConditions) <= 1
<1> DEFINE few == Cardinality(optGiven \cap EndConditions) <= 1
<1>1. Acceptable <=>
        /\ ~("client" \in optGiven <=> "server" \in optGiven)
        /\ optGiven \cap Refused = {}
        /\ "client" \in optGiven => optGiven \cap ServerOnly = {}
        /\ "server" \in optGiven => optGiven \cap ClientOnly = {}
        /\ ~("reverse" \in optGiven /\ "bidir" \in optGiven)
        /\ "udp" \in optGiven => optGiven \cap {"file", "tinyLength", "hugeLength"} = {}
        /\ few
  BY DEF Acceptable, Has, EndConditions
<1> HIDE DEF few
<1>2. optGiven \cap Refused = {} /\ ~("reverse" \in optGiven /\ "bidir" \in optGiven)
  BY AllRead DEF Passed
<1>3. optTest.role # "none" <=> ~("client" \in optGiven <=> "server" \in optGiven)
  BY AllRead DEF Passed, Direction, RoleOf
<1>4. /\ "client" \in optGiven => optGiven \cap ServerOnly = {}
      /\ "server" \in optGiven => optGiven \cap ClientOnly = {}
  BY AllRead DEF Early, RoleMismatch, Direction, RoleOf, Flags, Passed
<1>5. ASSUME optTest.role # "none", "udp" \in optGiven
      PROVE  optGiven \cap {"file", "tinyLength", "hugeLength"} = {}
  <2>1. optTest.udp /\ optTest.role = "client"
    BY <1>4, <1>5, AllRead DEF Direction, RoleOf, ClientOnly
  <2>2. optTest.length \notin {"tiny", "huge"} /\ ~optTest.file
    BY <2>1 DEF Early, LengthMismatch
  <2> QED
    BY <2>2, AllRead DEF Values
<1> QED
  BY <1>1, <1>2, <1>3, <1>4, <1>5 DEF few

LEMMA FinishOptionsStep == OptionsInv /\ FinishOptions => OptionsInv'
<1> SUFFICES ASSUME OptionsInv, FinishOptions PROVE OptionsInv'
  OBVIOUS
<1>1. /\ Reading /\ optVerdict = "parsing" /\ optLeft = {}
      /\ optGiven' = optGiven /\ optLeft' = optLeft /\ optFlags' = optFlags
  BY DEF OptionsInv, FinishOptions
<1>2. PICK found \in BOOLEAN :
         LET bytes == WithFileSize(found)
             ends == {bytes, optTest.blocks} # {"none"}
             rate == IF "rate" \in optFlags THEN optTest.rate
                     ELSE IF optTest.udp THEN "1 Mbit/s" ELSE "unlimited"
             conditions == {c \in EndConditions :
                              \/ c = "time" /\ "time" \in optFlags
                              \/ c = "bytes" /\ bytes # "none"
                              \/ c = "blocks" /\ optTest.blocks # "none"}
         IN  IF Early
             THEN optVerdict' = "refused" /\ UNCHANGED optTest
             ELSE /\ optTest' = [optTest EXCEPT !.bytes = bytes, !.rate = rate,
                        !.length = IF @ # "default" THEN @
                                   ELSE IF optTest.udp THEN "from MSS" ELSE "128 KB",
                        !.duration = IF ends /\ "time" \notin optFlags THEN "0" ELSE @]
                  /\ optVerdict' = IF Cardinality(conditions) > 1 \/ optTest.role = "none"
                                   THEN "refused" ELSE "accepted"
  BY DEF FinishOptions, Early, EndConditions
<1> DEFINE bytes == WithFileSize(found)
           conditions == {c \in EndConditions :
                            \/ c = "time" /\ "time" \in optFlags
                            \/ c = "bytes" /\ bytes # "none"
                            \/ c = "blocks" /\ optTest.blocks # "none"}
<1>3. Acceptable' <=> Acceptable
  BY <1>1 DEF Acceptable, Has
<1>4. CASE Early
  <2>1. optVerdict' = "refused" /\ ~Acceptable
    BY <1>1, <1>2, <1>4, EarlyIsUnacceptable
  <2> QED
    BY <1>3, <2>1 DEF OptionsInv, OrderDoesNotMatter
<1>5. CASE ~Early
  <2>1. optVerdict' = IF Cardinality(conditions) > 1 \/ optTest.role = "none"
                      THEN "refused" ELSE "accepted"
    BY <1>2, <1>5
  <2>2. Cardinality(conditions) > 1 <=> ~(Cardinality(optGiven \cap EndConditions) <= 1)
    BY <1>1, OneEndCondition
  <2>3. Acceptable <=> optTest.role # "none"
                       /\ Cardinality(optGiven \cap EndConditions) <= 1
    BY <1>1, <1>5, LateIsAcceptable
  <2> HIDE DEF conditions
  <2>4. optVerdict' \in {"accepted", "refused"} /\ (optVerdict' = "accepted" <=> Acceptable)
    BY <2>1, <2>2, <2>3
  <2>5. ASSUME optVerdict' = "accepted", NEW field \in {"mode", "duration", "rate", "retransmits"}
        PROVE  optTest'[field] = Expected(field)'
    <3>1. /\ Direction(optTest, optGiven) /\ Values(optTest, optGiven)
          /\ Passed(optGiven) /\ Flags(optFlags, optGiven) /\ optTest \in TestType
      BY <1>1, AllRead
    <3>2. /\ optTest'.mode = optTest.mode /\ optTest'.retransmits = optTest.retransmits
          /\ optTest'.bytes = bytes
          /\ optTest'.rate = IF "rate" \in optFlags THEN optTest.rate
                             ELSE IF optTest.udp THEN "1 Mbit/s" ELSE "unlimited"
          /\ optTest'.duration =
               IF {bytes, optTest.blocks} # {"none"} /\ "time" \notin optFlags
               THEN "0" ELSE optTest.duration
      <4> DEFINE rate == IF "rate" \in optFlags THEN optTest.rate
                         ELSE IF optTest.udp THEN "1 Mbit/s" ELSE "unlimited"
                 length == IF optTest.length # "default" THEN optTest.length
                           ELSE IF optTest.udp THEN "from MSS" ELSE "128 KB"
                 duration == IF {bytes, optTest.blocks} # {"none"} /\ "time" \notin optFlags
                             THEN "0" ELSE optTest.duration
      <4>1. optTest' = [optTest EXCEPT !.bytes = bytes, !.rate = rate, !.length = length,
                                       !.duration = duration]
        BY <1>2, <1>5
      <4> HIDE DEF bytes, rate, length, duration
      <4>2. /\ optTest'.mode = optTest.mode /\ optTest'.retransmits = optTest.retransmits
            /\ optTest'.bytes = bytes /\ optTest'.rate = rate
            /\ optTest'.duration = duration
        BY <3>1, <4>1 DEF TestType
      <4> QED
        BY <4>2 DEF rate, duration
    <3>3. Acceptable
      BY <2>4, <2>5
    <3>4. CASE field = "mode"
      <4>1. optTest.mode = ExpectedMode
        BY <3>1, <3>3 DEF Acceptable, Has, ExpectedMode, Direction, RoleOf, ModeOf,
                          ClientOnly
      <4>2. ExpectedMode' = ExpectedMode
        BY <1>1 DEF ExpectedMode, Has
      <4> QED
        BY <3>2, <3>4, <4>1, <4>2 DEF Expected
    <3>5. CASE field = "duration"
      <4>1. bytes = "none" /\ optTest.blocks = "none" <=> {bytes, optTest.blocks} = {"none"}
        OBVIOUS
      <4> QED
        BY <1>1, <3>1, <3>2, <3>5, <4>1 DEF Expected, Has, Values, Flags
    <3>6. CASE field = "rate"
      BY <1>1, <3>1, <3>2, <3>6 DEF Expected, Has, Values, Flags, Direction
    <3>7. CASE field = "retransmits"
      <4>1. ExpectedMode' = ModeOf(optGiven) /\ ~({"server", "bidir"} \subseteq optGiven)
        BY <1>1, <3>1, <3>3 DEF Acceptable, Has, ExpectedMode, RoleOf, ModeOf, ClientOnly
      <4>2. optTest.retransmits <=> "udp" \notin optGiven /\ ModeOf(optGiven) # "RECEIVER"
        BY <3>1, <4>1 DEF Direction
      <4>3. optTest.retransmits \in BOOLEAN
        BY <3>1 DEF TestType
      <4> QED
        BY <1>1, <3>2, <3>7, <4>1, <4>2, <4>3 DEF Expected, Has
    <3> QED
      BY <3>4, <3>5, <3>6, <3>7
  <2> QED
    BY <1>3, <2>4, <2>5 DEF OptionsInv, OrderDoesNotMatter
<1> QED
  BY <1>4, <1>5

(* The options mean the same in every order, for command lines of any       *)
(* length: accepted or refused, and mode, duration, rate and the report of  *)
(* retransmits are those of the set of options (iperf_parse_arguments).     *)
THEOREM EveryOrder == OptionsSpec => []OrderDoesNotMatter
<1>1. OptionsInv /\ [OptionsNext]_optVars => OptionsInv'
  BY CommandLineStep, ReadOptionStep, FinishOptionsStep, UnchangedStep DEF OptionsNext
<1>2. OptionsInv => OrderDoesNotMatter
  BY DEF OptionsInv
<1> QED
  BY InitInv, <1>1, <1>2, PTL DEF OptionsSpec
=============================================================================
