SPECIFICATION Spec
CONSTANTS
    Inputs = {"good"}
    MaxRuns = 2
    MaxLines = 1
    Stoppable = {1}
    Patient = FALSE
INVARIANT StopButtonMeansWork
CONSTRAINT UpToFirstFault
