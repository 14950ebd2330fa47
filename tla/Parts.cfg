SPECIFICATION Spec
CONSTANTS
    MaxPackets = 4
    MaxArrivals = 5
    Widths = {4, 8}
    Options <- MCSocketOptions
    MaxStreams = 2
    MaxOptions = 3
    MaxLaunches = 2
    MaxMonitored = 2
    MaxIntervals = 2
    MaxOmitted = 2
    MaxTold = 2
    Rates <- MCRates
INVARIANTS
    LossCounted
    NothingLeftOpen
    ReportsAgree
    OrderDoesNotMatter
    RunsWhatIsShown
    StatisticsOfRun
CHECK_DEADLOCK FALSE
