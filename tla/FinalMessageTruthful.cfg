SPECIFICATION Spec
CONSTANTS
    Inputs = {"good", "bad", "duration"}
    MaxRuns = 2
    MaxLines = 1
    Stoppable = {1, 2}
    Patient = TRUE
INVARIANT FinalMessageTruthful
