SPECIFICATION FairSpec
CONSTANTS
    Inputs = {"good", "bad"}
    MaxRuns = 2
    MaxLines = 1
    Stoppable = {1, 2}
    Patient = TRUE
INVARIANT OutputComplete
INVARIANT NothingLeaked
INVARIANT OnlyStaleStop
PROPERTY RunsEnd
PROPERTY TestsFollowPhases
