SPECIFICATION Spec
CONSTANTS
    Setups <- MCSetups
    Grace = 1
    Horizon = 3
    MaxLate = 1
    MaxBlocks = 2
    Window = 1
INVARIANTS
    TimersSound
    PrintedOnce
    NothingCountedTwice
    ResultsAgree
PROPERTY
    TestEnds
CHECK_DEADLOCK FALSE
