SPECIFICATION Spec
CONSTANTS
    a = a
    b = b
    Client = {a, b}
    Setups <- MCSetups
    MaxFaults = 2
INVARIANTS
    TypeOK
    InStep
    StreamsPaired
    IntruderHarmless
    HeldIsAsked
    DoneIsFinished
PROPERTIES
    ServerReturns
    ClientReturns
CHECK_DEADLOCK FALSE
