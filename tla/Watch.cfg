SPECIFICATION FairSpec
CONSTANTS
    Inputs = {"good", "bad", "duration"}
    MaxRuns = 2
    MaxLines = 1
    Stoppable = {}
    Patient = FALSE
INVARIANT TypeOK
INVARIANT OneRunInFlight
INVARIANT ButtonTellsTruth
INVARIANT NoFault
INVARIANT OutcomeAgrees
INVARIANT ProgressSettles
PROPERTY ImplementsContract
